--------------------------- MODULE TunnelsProofs ---------------------------
(***************************************************************************)
(* Theorems about Tunnels, for any accounts, ids, host names and           *)
(* goroutines, with statements that fail or not, and about Startup, whose  *)
(* migrations make the table and whose seed fills it.                      *)
(*                                                                         *)
(* HostsAreHeld is inductive together with the types: an update that does  *)
(* not look its name up is safe because the row it just read has it, and   *)
(* no other row then does.  ServesWholeSchema needs, for every process     *)
(* still on its way, that the migrations it has passed are recorded;       *)
(* AdmissionsBounded, for every window, that its entries are still in the  *)
(* bucket or that nobody can join those who may yet be admitted to it.     *)
(***************************************************************************)
EXTENDS Tunnels, Startup, FiniteSetTheorems, TLAPS

Placed(r) == r.pc # "idle" => r.account \in Account /\ r.tunnel \in TunnelId

HostsUnique ==
  \A s, t \in TunnelId : Stored(s) /\ Stored(t) /\ tunnels[s].host = tunnels[t].host => s = t

(* A request past its check knows whether its name may be taken. *)
Checked(r) ==
  r.pc \in {"insert", "update"} /\ "host" \in r.named /\ ~HostIsFree(r.host, r.tunnel)
    => r.overtaken \/ r.unread

TunnelInv ==
  /\ TypeOK /\ HostsUnique
  /\ \A w \in Worker : Placed(req[w]) /\ Checked(req[w])

-----------------------------------------------------------------------------
LEMMA TunnelInit == Init => TunnelInv
<1> SUFFICES ASSUME Init
             PROVE  TunnelInv
  OBVIOUS
<1>1. TypeOK
  BY TunnelsAssumption DEF Init, TypeOK, Idle, Request
<1>2. HostsUnique
  BY DEF Init, HostsUnique, Stored
<1>3. \A w \in Worker : Placed(req[w]) /\ Checked(req[w])
  BY DEF Init, Placed, Checked, Idle
<1> QED BY <1>1, <1>2, <1>3 DEF TunnelInv

LEMMA IdleRequest == Idle \in Request /\ Idle.pc = "idle"
BY DEF Idle, Request

(* A step of one request that leaves the table alone. *)
LEMMA RequestStep ==
  ASSUME TunnelInv, NEW w \in Worker, NEW r \in Request, req' = [req EXCEPT ![w] = r],
         UNCHANGED tunnels, Placed(r), Checked(r)
  PROVE  TunnelInv'
<1>1. TypeOK'
  BY DEF TunnelInv, TypeOK
<1>2. HostsUnique'
  BY DEF TunnelInv, HostsUnique, Stored
<1>3. ASSUME NEW x \in Worker
      PROVE  Placed(req[x])' /\ Checked(req[x])'
  <2>1. PICK y : y = req'[x] /\ Placed(y) /\ Checked(y)
    BY DEF TunnelInv, TypeOK
  <2> QED BY <2>1 DEF Placed, Checked, HostIsFree, Stored
<1> QED BY <1>1, <1>2, <1>3 DEF TunnelInv

LEMMA DoneStep ==
  ASSUME TunnelInv, NEW w \in Worker, Done(w), UNCHANGED tunnels
  PROVE  TunnelInv'
BY IdleRequest, RequestStep DEF Done, Placed, Checked

(* Request w writes a row with host name h, which no other row has, and all  *)
(* requests that hold the name are told.                                     *)
LEMMA WriteStep ==
  ASSUME TunnelInv, NEW w \in Worker, NEW t \in TunnelId, NEW row \in Tunnel,
         NEW h, row.host = h, HostIsFree(h, t),
         tunnels' = [tunnels EXCEPT ![t] = row], DoneWriting(w, h)
  PROVE  TunnelInv'
<1>t. TypeOK /\ HostsUnique
  BY DEF TunnelInv
<1>1. tunnels'[t] = row /\ \A x \in TunnelId : x # t => tunnels'[x] = tunnels[x]
  BY <1>t DEF TypeOK
<1>2. ASSUME NEW x \in Worker
      PROVE  req'[x] \in Request /\ Placed(req[x])' /\ Checked(req[x])'
  <2>1. PICK y : y = req[x] /\ y \in Request /\ Placed(y) /\ Checked(y)
    BY <1>t DEF TunnelInv, TypeOK
  <2>2. req'[x] = IF x = w THEN Idle
                  ELSE IF y.pc # "idle" /\ y.host = h THEN [y EXCEPT !.overtaken = TRUE] ELSE y
    BY <2>1 DEF DoneWriting
  <2>3. CASE x = w
    BY <2>2, <2>3, IdleRequest DEF Placed, Checked
  <2>4. CASE x # w /\ y.pc # "idle" /\ y.host = h
    <3> DEFINE z == [y EXCEPT !.overtaken = TRUE]
    <3>1. z \in Request /\ z.overtaken /\ z.account = y.account /\ z.tunnel = y.tunnel /\ z.pc = y.pc
      BY <2>1 DEF Request
    <3>2. req'[x] = z
      BY <2>2, <2>4
    <3> HIDE DEF z
    <3> QED BY <2>1, <3>1, <3>2 DEF Placed, Checked
  <2>5. CASE x # w /\ (y.pc = "idle" \/ y.host # h)
    <3>1. req'[x] = y
      BY <2>2, <2>5
    <3>2. CASE y.pc = "idle"
      BY <2>1, <3>1, <3>2 DEF Placed, Checked
    <3>3. CASE y.host # h
      <4>1. HostIsFree(y.host, y.tunnel) => HostIsFree(y.host, y.tunnel)'
        BY <1>1, <3>3 DEF HostIsFree, Stored
      <4>2. PICK n : n = y.host
        OBVIOUS
      <4>3. PICK m : m = y.tunnel
        OBVIOUS
      <4> QED BY <2>1, <3>1, <4>1, <4>2, <4>3 DEF Placed, Checked, HostIsFree
    <3> QED BY <2>5, <3>2, <3>3
  <2> QED BY <2>3, <2>4, <2>5
<1>3. TypeOK'
  <2>1. req' = [x \in Worker |-> req'[x]]
    BY DEF DoneWriting
  <2>2. req' \in [Worker -> Request]
    BY <1>2, <2>1
  <2>3. tunnels' \in [TunnelId -> Tunnel \cup {NoRow}]
    BY <1>t DEF TypeOK
  <2> QED BY <2>2, <2>3 DEF TypeOK
<1>4. HostsUnique'
  <2> SUFFICES ASSUME NEW s \in TunnelId, NEW x \in TunnelId, Stored(s)', Stored(x)',
                      tunnels'[s].host = tunnels'[x].host, s # x
               PROVE  FALSE
    BY DEF HostsUnique
  <2>1. CASE s # t /\ x # t
    BY <1>1, <1>t, <2>1 DEF HostsUnique, Stored
  <2>2. CASE s = t
    BY <1>1, <2>2 DEF HostIsFree, Stored
  <2>3. CASE x = t
    BY <1>1, <2>3 DEF HostIsFree, Stored
  <2> QED BY <2>1, <2>2, <2>3
<1> QED BY <1>2, <1>3, <1>4 DEF TunnelInv

LEMMA TunnelNext == TunnelInv /\ [Next]_vars => TunnelInv'
<1> SUFFICES ASSUME TunnelInv, [Next]_vars
             PROVE  TunnelInv'
  OBVIOUS
<1>t. TypeOK /\ HostsUnique /\ \A w \in Worker : Placed(req[w]) /\ Checked(req[w])
  BY DEF TunnelInv
<1>1. ASSUME NEW w \in Worker, NEW a \in Account, NEW t \in TunnelId, NEW h \in Host \cup {Blank},
             NEW label \in {"checkNew", "checkChanged", "update"}, NEW named \in SUBSET Field,
             Start(w, label, a, t, h, named), UNCHANGED tunnels,
             label = "update" /\ "host" \in named => HostIsFree(h, t)
      PROVE  TunnelInv'
  <2> DEFINE r == [pc |-> label, account |-> a, tunnel |-> t, host |-> h, named |-> named,
                   overtaken |-> FALSE, unread |-> FALSE]
  <2>1. r \in Request /\ Placed(r) /\ Checked(r)
    BY <1>1 DEF Request, Placed, Checked
  <2>2. req' = [req EXCEPT ![w] = r]
    BY <1>1 DEF Start
  <2> HIDE DEF r
  <2> QED BY <1>1, <2>1, <2>2, RequestStep
<1>2. ASSUME NEW w \in Worker, NEW a \in Account, NEW t \in TunnelId, NEW h \in Host \cup {Blank},
             CreateTunnel(w, a, t, h)
      PROVE  TunnelInv'
  BY <1>1, <1>2 DEF CreateTunnel
<1>3. ASSUME NEW w \in Worker, NEW a \in Account, NEW t \in TunnelId, NEW h \in Host \cup {Blank},
             NEW named \in SUBSET Field, UpdateTunnel(w, a, t, h, named)
      PROVE  TunnelInv'
  <2>1. CASE "host" \in named /\ h # tunnels[t].host
    BY <1>1, <1>3, <2>1 DEF UpdateTunnel
  <2>2. CASE ~("host" \in named /\ h # tunnels[t].host)
    <3>1. "host" \in named => HostIsFree(h, t)
      BY <1>3, <2>2, <1>t DEF UpdateTunnel, GetTunnelByID, HostsUnique, HostIsFree
    <3> QED BY <1>1, <1>3, <2>2, <3>1 DEF UpdateTunnel
  <2> QED BY <2>1, <2>2
<1>4. ASSUME NEW w \in Worker, CheckHost(w)
      PROVE  TunnelInv'
  <2>1. PICK y : y = req[w] /\ y \in Request /\ Placed(y) /\ y.pc \in {"checkNew", "checkChanged"}
    BY <1>4, <1>t DEF CheckHost, TypeOK
  <2>2. PICK readable \in BOOLEAN :
          IF readable /\ ~NoConflict(w)
          THEN Done(w)
          ELSE req' = [req EXCEPT ![w].pc = IF @ = "checkNew" THEN "insert" ELSE "update",
                                  ![w].unread = ~readable]
    BY <1>4, TunnelsAssumption DEF CheckHost
  <2>3. UNCHANGED tunnels
    BY <1>4 DEF CheckHost
  <2>4. CASE readable /\ ~NoConflict(w)
    BY <2>2, <2>3, <2>4, DoneStep
  <2>5. CASE ~readable \/ NoConflict(w)
    <3> DEFINE label == IF y.pc = "checkNew" THEN "insert" ELSE "update"
               z == [y EXCEPT !.pc = label, !.unread = ~readable]
    <3>1. req' = [req EXCEPT ![w] = z]
      BY <2>1, <2>2, <2>5, <1>t DEF TypeOK
    <3>2. label \in {"insert", "update"} /\ (~readable) \in BOOLEAN
      OBVIOUS
    <3> HIDE DEF label
    <3>3. z \in Request
      BY <2>1, <3>2 DEF Request
    <3>4. z.account = y.account /\ z.tunnel = y.tunnel /\ z.host = y.host /\ z.unread = ~readable
      BY <2>1 DEF Request
    <3> HIDE DEF z
    <3>5. NoConflict(w) => HostIsFree(z.host, z.tunnel)
      BY <2>1, <3>4 DEF NoConflict, Unclaimed, HostIsFree
    <3>6. Placed(z) /\ Checked(z)
      BY <2>1, <2>5, <3>4, <3>5 DEF Placed, Checked
    <3> QED BY <2>3, <3>1, <3>3, <3>6, RequestStep
  <2> QED BY <2>4, <2>5
<1>5. ASSUME NEW w \in Worker, InsertRow(w)
      PROVE  TunnelInv'
  <2>1. PICK y : y = req[w] /\ y \in Request /\ y.account \in Account /\ y.tunnel \in TunnelId
    BY <1>5, <1>t DEF InsertRow, TypeOK, Placed
  <2>2. CASE Insertable(w)
    <3> DEFINE row == [account |-> y.account, host |-> y.host, target |-> "written"]
    <3>1. row \in Tunnel /\ row.host = y.host
      BY <2>1 DEF Tunnel, Request
    <3>2. tunnels' = [tunnels EXCEPT ![y.tunnel] = row] /\ DoneWriting(w, y.host)
      BY <1>5, <2>1, <2>2 DEF InsertRow, InsertTunnel
    <3>3. HostIsFree(y.host, y.tunnel)
      BY <2>1, <2>2 DEF Insertable
    <3> HIDE DEF row
    <3> QED BY <2>1, <3>1, <3>2, <3>3, WriteStep
  <2>3. CASE ~Insertable(w)
    BY <1>5, <2>3, DoneStep DEF InsertRow
  <2> QED BY <2>2, <2>3
<1>6. ASSUME NEW w \in Worker, UpdateRow(w)
      PROVE  TunnelInv'
  <2>1. PICK y : y = req[w] /\ y \in Request /\ y.account \in Account /\ y.tunnel \in TunnelId
    BY <1>6, <1>t DEF UpdateRow, TypeOK, Placed
  <2>2. CASE Updatable(w)
    <3>0. PICK h : h = HostWritten(w)
      OBVIOUS
    <3> DEFINE tgt == IF "target" \in y.named THEN "written" ELSE "empty"
               row == [account |-> tunnels[y.tunnel].account, host |-> h, target |-> tgt]
    <3>1. h \in Host \cup {Blank} /\ tgt \in {"written", "empty"}
      BY <2>1, <3>0 DEF HostWritten, Request
    <3>2. tunnels[y.tunnel].account \in Account
      BY <2>1, <2>2 DEF Updatable, GetTunnelByID
    <3>3. tunnels' = [tunnels EXCEPT ![y.tunnel] = row] /\ DoneWriting(w, h)
      BY <1>6, <2>1, <2>2, <3>0, <1>t DEF UpdateRow, SetTunnel, TypeOK
    <3> HIDE DEF tgt
    <3>4. row \in Tunnel /\ row.host = h
      BY <3>1, <3>2 DEF Tunnel
    <3>5. HostIsFree(h, y.tunnel)
      BY <2>1, <2>2, <3>0 DEF Updatable
    <3> HIDE DEF row
    <3> QED BY <2>1, <3>3, <3>4, <3>5, WriteStep
  <2>3. CASE ~Updatable(w)
    BY <1>6, <2>3, DoneStep DEF UpdateRow
  <2> QED BY <2>2, <2>3
<1>7. ASSUME NEW w \in Worker, NEW a \in Account, NEW t \in TunnelId, DeleteTunnel(w, a, t)
      PROVE  TunnelInv'
  <2>1. UNCHANGED req /\ tunnels' = [tunnels EXCEPT ![t] = NoRow]
    BY <1>7 DEF DeleteTunnel
  <2>2. ~Stored(t)' /\ \A x \in TunnelId : x # t => tunnels'[x] = tunnels[x]
    BY <2>1, <1>t DEF TypeOK, Stored
  <2>3. TypeOK'
    BY <2>1, <1>t DEF TypeOK
  <2>4. HostsUnique'
    BY <2>2, <1>t DEF HostsUnique, Stored
  <2>5. ASSUME NEW x \in Worker
        PROVE  Placed(req[x])' /\ Checked(req[x])'
    <3>1. PICK y : y = req[x] /\ y = req'[x] /\ Placed(y) /\ Checked(y)
      BY <2>1, <1>t
    <3> QED BY <2>2, <3>1 DEF Placed, Checked, HostIsFree, Stored
  <2> QED BY <2>3, <2>4, <2>5 DEF TunnelInv
<1>8. ASSUME NEW w \in Worker, Stop(w)
      PROVE  TunnelInv'
  BY <1>8, DoneStep DEF Stop
<1>9. CASE UNCHANGED vars
  BY <1>9 DEF vars, TunnelInv, TypeOK, HostsUnique, Placed, Checked, HostIsFree, Stored
<1> QED BY <1>2, <1>3, <1>4, <1>5, <1>6, <1>7, <1>8, <1>9 DEF Next

LEMMA AlwaysTunnelInv == Spec => []TunnelInv
BY TunnelInit, TunnelNext, PTL DEF Spec

(* The table and the requests keep their shapes. *)
THEOREM TypeCorrect == Spec => []TypeOK
<1>1. TunnelInv => TypeOK
  BY DEF TunnelInv
<1> QED BY <1>1, AlwaysTunnelInv, PTL

(* A host name is one tunnel's, and a check is refuted only by a later write *)
(* or by a failed look-up: by these the second of two claims of one name is  *)
(* answered 500, not the 409 of specs/tunnel-management-api/spec.md:146.     *)
THEOREM HostsHeld == Spec => []HostsAreHeld
<1>1. TunnelInv => HostsAreHeld
  BY DEF TunnelInv, HostsUnique, Checked, HostsAreHeld
<1> QED BY <1>1, AlwaysTunnelInv, PTL

-----------------------------------------------------------------------------
(* The processes that make the table: Startup, for any number of processes,  *)
(* migrations, seeds and deaths.  A process serves with the whole schema     *)
(* because it passes migration m only when m is recorded, by itself or by    *)
(* another; records stay, and only what has been applied is recorded.        *)

Labels == {"down", "check", "body", "record", "seed", "serving"}

(* The migrations process p has passed are recorded. *)
Passed(p) ==
  /\ pc[p] \in {"check", "body", "record"} =>
       at[p] >= 1 /\ \A m \in 1 .. Migrations : m < at[p] => m \in recorded
  /\ pc[p] \in {"body", "record"} => at[p] <= Migrations
  /\ pc[p] = "record" => at[p] \in applied
  /\ pc[p] \in {"seed", "serving"} => \A m \in 1 .. Migrations : m \in recorded

SchemaInv ==
  /\ pc \in [Process -> Labels] /\ at \in [Process -> Nat]
  /\ applied \subseteq 1 .. Migrations /\ recorded \subseteq applied
  /\ \A p \in Process : Passed(p)

-----------------------------------------------------------------------------
LEMMA SchemaInit == StartupInit => SchemaInv
BY DEF StartupInit, SchemaInv, Passed, Labels

(* Process p goes on, and no record is lost. *)
LEMMA SchemaStep ==
  ASSUME SchemaInv, NEW p \in Process, NEW label \in Labels, NEW n \in Nat, GoTo(p, label, n),
         applied \subseteq applied', applied' \subseteq 1 .. Migrations,
         recorded \subseteq recorded', recorded' \subseteq applied',
         label \in {"check", "body", "record"} =>
           n >= 1 /\ \A m \in 1 .. Migrations : m < n => m \in recorded',
         label \in {"body", "record"} => n <= Migrations,
         label = "record" => n \in applied',
         label \in {"seed", "serving"} => \A m \in 1 .. Migrations : m \in recorded'
  PROVE  SchemaInv'
<1>1. pc' = [pc EXCEPT ![p] = label] /\ at' = [at EXCEPT ![p] = n]
  BY DEF GoTo
<1>2. pc' \in [Process -> Labels] /\ at' \in [Process -> Nat]
  BY <1>1 DEF SchemaInv
<1>3. ASSUME NEW q \in Process
      PROVE  Passed(q)'
  <2>1. CASE q = p
    <3>1. pc'[p] = label /\ at'[p] = n
      BY <1>1 DEF SchemaInv
    <3> QED BY <2>1, <3>1 DEF Passed
  <2>2. CASE q # p
    <3>1. pc'[q] = pc[q] /\ at'[q] = at[q] /\ Passed(q)
      BY <1>1, <2>2 DEF SchemaInv
    <3> QED BY <3>1 DEF Passed
  <2> QED BY <2>1, <2>2
<1> QED BY <1>2, <1>3 DEF SchemaInv

LEMMA SchemaSame ==
  ASSUME SchemaInv, UNCHANGED <<pc, at, applied, recorded>>
  PROVE  SchemaInv'
BY DEF SchemaInv, Passed

LEMMA SchemaNext == SchemaInv /\ [StartupNext]_startupVars => SchemaInv'
<1> SUFFICES ASSUME SchemaInv, [StartupNext]_startupVars
             PROVE  SchemaInv'
  OBVIOUS
<1>m. Migrations \in Nat
  BY StartupAssumption
<1>1. ASSUME NEW p \in Process, Connect(p)
      PROVE  SchemaInv'
  <2>1. GoTo(p, "check", 1) /\ UNCHANGED <<applied, recorded>>
    BY <1>1 DEF Connect, dbVars
  <2>2. applied \subseteq applied' /\ recorded \subseteq recorded'
    BY <2>1
  <2>3. recorded' \subseteq applied' /\ applied' \subseteq 1 .. Migrations
    BY <2>1 DEF SchemaInv
  <2>4. 1 >= 1 /\ \A m \in 1 .. Migrations : m < 1 => m \in recorded'
    BY <1>m
  <2> QED BY <2>1, <2>2, <2>3, <2>4, SchemaStep DEF Labels
<1>2. ASSUME NEW p \in Process, CheckMigration(p)
      PROVE  SchemaInv'
  <2>1. /\ pc[p] = "check" /\ at[p] \in Nat /\ Passed(p) /\ UNCHANGED <<applied, recorded>>
        /\ recorded \subseteq applied /\ applied \subseteq 1 .. Migrations
    BY <1>2 DEF CheckMigration, SchemaInv, dbVars
  <2>2. at[p] >= 1 /\ \A m \in 1 .. Migrations : m < at[p] => m \in recorded
    BY <2>1 DEF Passed
  <2>3. CASE at[p] > Migrations
    <3>0. at[p] \notin recorded
      BY <2>1, <2>3, <1>m
    <3>1. GoTo(p, "seed", 1)
      BY <1>2, <2>3, <3>0 DEF CheckMigration
    <3>2. \A m \in 1 .. Migrations : m \in recorded
      BY <2>1, <2>2, <2>3, <1>m
    <3> QED BY <2>1, <3>1, <3>2, SchemaStep DEF Labels
  <2>4. CASE ~(at[p] > Migrations) /\ at[p] \in recorded
    <3>1. GoTo(p, "check", at[p] + 1)
      BY <1>2, <2>4 DEF CheckMigration
    <3>2. PICK n : n = at[p] + 1
      OBVIOUS
    <3>3. n \in Nat /\ n >= 1 /\ \A m \in 1 .. Migrations : m < n => m \in recorded
      BY <2>1, <2>2, <2>4, <3>2
    <3> QED BY <2>1, <3>1, <3>2, <3>3, SchemaStep DEF Labels
  <2>5. CASE ~(at[p] > Migrations) /\ at[p] \notin recorded
    <3>1. GoTo(p, "body", at[p]) /\ at[p] <= Migrations
      BY <1>2, <2>1, <2>5, <1>m DEF CheckMigration
    <3> QED BY <2>1, <2>2, <3>1, SchemaStep DEF Labels
  <2> QED BY <2>3, <2>4, <2>5
<1>4. ASSUME NEW p \in Process, Exit(p), UNCHANGED <<applied, recorded>>
      PROVE  SchemaInv'
  <2>1. applied \subseteq applied' /\ recorded \subseteq recorded'
    BY <1>4
  <2>2. recorded' \subseteq applied' /\ applied' \subseteq 1 .. Migrations
    BY <1>4 DEF SchemaInv
  <2>3. GoTo(p, "down", 0) /\ "down" \in Labels
    BY <1>4 DEF Exit, Labels
  <2> QED BY <2>1, <2>2, <2>3, SchemaStep
<1>5. ASSUME NEW p \in Process, ApplyBody(p)
      PROVE  SchemaInv'
  <2>1. /\ pc[p] = "body" /\ at[p] \in Nat /\ Passed(p) /\ UNCHANGED recorded
        /\ recorded \subseteq applied /\ applied \subseteq 1 .. Migrations
    BY <1>5 DEF ApplyBody, SchemaInv
  <2>2. CASE at[p] \in Fragile \cap applied
    BY <1>4, <1>5, <2>1, <2>2 DEF ApplyBody
  <2>3. CASE at[p] \notin Fragile \cap applied
    <3>1. applied' = applied \cup {at[p]} /\ GoTo(p, "record", at[p])
      BY <1>5, <2>3 DEF ApplyBody
    <3>2. at[p] \in 1 .. Migrations /\ \A m \in 1 .. Migrations : m < at[p] => m \in recorded
      BY <2>1, <1>m DEF Passed
    <3>3. /\ applied \subseteq applied' /\ recorded \subseteq recorded'
          /\ applied' \subseteq 1 .. Migrations /\ recorded' \subseteq applied'
      BY <2>1, <3>1, <3>2
    <3>4. at[p] >= 1 /\ at[p] <= Migrations /\ at[p] \in applied'
      BY <2>1, <3>1, <3>2, <1>m
    <3>5. \A m \in 1 .. Migrations : m < at[p] => m \in recorded'
      BY <2>1, <3>2
    <3> QED BY <2>1, <3>1, <3>3, <3>4, <3>5, SchemaStep DEF Labels
  <2> QED BY <2>2, <2>3
<1>6. ASSUME NEW p \in Process, RecordMigration(p)
      PROVE  SchemaInv'
  <2>1. /\ pc[p] = "record" /\ at[p] \in Nat /\ Passed(p) /\ UNCHANGED applied
        /\ recorded \subseteq applied /\ applied \subseteq 1 .. Migrations
    BY <1>6 DEF RecordMigration, SchemaInv
  <2>2. CASE at[p] \in recorded
    BY <1>4, <1>6, <2>1, <2>2 DEF RecordMigration
  <2>3. CASE at[p] \notin recorded
    <3>1. recorded' = recorded \cup {at[p]} /\ GoTo(p, "check", at[p] + 1)
      BY <1>6, <2>3 DEF RecordMigration
    <3>2. at[p] \in applied /\ \A m \in 1 .. Migrations : m < at[p] => m \in recorded
      BY <2>1 DEF Passed
    <3>3. PICK n : n = at[p] + 1
      OBVIOUS
    <3>4. n \in Nat /\ n >= 1 /\ \A m \in 1 .. Migrations : m < n => m \in recorded'
      BY <2>1, <3>1, <3>2, <3>3
    <3> QED BY <2>1, <3>1, <3>2, <3>3, <3>4, SchemaStep DEF Labels
  <2> QED BY <2>2, <2>3
<1>7. ASSUME NEW p \in Process, SeedRow(p)
      PROVE  SchemaInv'
  <2>1. /\ pc[p] = "seed" /\ at[p] \in Nat /\ Passed(p) /\ UNCHANGED <<applied, recorded>>
        /\ recorded \subseteq applied /\ applied \subseteq 1 .. Migrations
    BY <1>7 DEF SeedRow, SchemaInv
  <2>n. at[p] + 1 \in Nat /\ \A m \in 1 .. Migrations : m \in recorded
    BY <2>1 DEF Passed
  <2>2. CASE Exit(p)
    BY <1>4, <2>1, <2>2
  <2>3. CASE GoTo(p, "seed", at[p] + 1)
    <3>1. PICK n : n = at[p] + 1
      OBVIOUS
    <3> QED BY <2>1, <2>n, <2>3, <3>1, SchemaStep DEF Labels
  <2>4. ASSUME NEW second,
               pc' = [q \in Process |-> IF q \in second THEN "down" ELSE pc[q]],
               at' = [q \in Process |-> IF q = p THEN at[p] + 1
                                       ELSE IF q \in second THEN 0 ELSE at[q]],
               p \notin second
        PROVE  SchemaInv'
    <3>1. pc' \in [Process -> Labels] /\ at' \in [Process -> Nat]
      BY <2>n, <2>4 DEF SchemaInv, Labels
    <3>2. ASSUME NEW q \in Process
          PROVE  Passed(q)'
      <4>1. CASE q = p
        BY <2>1, <2>n, <2>4, <4>1 DEF Passed
      <4>2. CASE q # p /\ q \in second
        BY <2>4, <4>2 DEF Passed
      <4>3. CASE q # p /\ q \notin second
        BY <2>1, <2>4, <4>3 DEF SchemaInv, Passed
      <4> QED BY <4>1, <4>2, <4>3
    <3> QED BY <2>1, <3>1, <3>2 DEF SchemaInv
  <2> QED BY <1>7, <2>2, <2>3, <2>4 DEF SeedRow
<1>8. ASSUME NEW p \in Process, Serve(p)
      PROVE  SchemaInv'
  <2>1. /\ Passed(p) /\ pc[p] = "seed" /\ GoTo(p, "serving", 0) /\ UNCHANGED <<applied, recorded>>
        /\ recorded \subseteq applied /\ applied \subseteq 1 .. Migrations
    BY <1>8 DEF Serve, SchemaInv, dbVars
  <2>2. \A m \in 1 .. Migrations : m \in recorded
    BY <2>1 DEF Passed
  <2> QED BY <2>1, <2>2, SchemaStep DEF Labels
<1>9. ASSUME NEW p \in Process, Die(p)
      PROVE  SchemaInv'
  BY <1>4, <1>9 DEF Die, dbVars
<1>10. ASSUME NEW p \in Process, NEW h \in Handler, Arrive(p, h) \/ Decide(p, h)
       PROVE  SchemaInv'
  BY <1>10, SchemaSame DEF Arrive, Decide, dbVars
<1>11. ASSUME NEW s \in 1 .. Seeds, EditTunnels(s)
       PROVE  SchemaInv'
  BY <1>11, SchemaSame DEF EditTunnels
<1>12. CASE Tick \/ UNCHANGED startupVars
  BY <1>12, SchemaSame DEF Tick, startupVars, dbVars
<1> QED
  BY <1>1, <1>2, <1>5, <1>6, <1>7, <1>8, <1>9, <1>10, <1>11, <1>12 DEF StartupNext, Advance

(* Whatever dies and whichever processes race, one that serves has all of    *)
(* its migrations applied and recorded (the safety half of StartupRecovers). *)
THEOREM ServesWhole == StartupSpec => []ServesWholeSchema
<1>1. SchemaInv => ServesWholeSchema
  BY DEF SchemaInv, Passed, ServesWholeSchema, Serving
<1>2. SchemaInv /\ [StartupNext]_startupVars => SchemaInv'
  BY SchemaNext
<1> QED BY <1>1, <1>2, SchemaInit, PTL DEF StartupSpec

-----------------------------------------------------------------------------
(* What the limiter of one life of a process may admit in a window. *)
PerLife == Limit + Cardinality(Handler) - 1

(* The entries admitted in the window that ends at T, in earlier lives and   *)
(* in this one, and the requests at work that read the clock within it.      *)
Lately(p, T) == {e \in admitted[p] : e.at \in T - Window + 1 .. T}
Earlier(p, T) == {e \in Lately(p, T) : e.life # lives[p]}
OfLife(p, T) == {e \in Lately(p, T) : e.life = lives[p]}
Waiting(p, T) == {h \in Handler : arrived[p][h] # NoTime /\ arrived[p][h] \in T - Window + 1 .. T}

Same(p, t, n) == {e \in admitted[p] : e.at = t /\ e.life = n}

(* The bucket holds entries of this life, and the requests at work are of    *)
(* a process that serves.                                                    *)
Keeping(p) ==
  /\ \A h \in Handler : arrived[p][h] # NoTime => pc[p] = "serving" /\ arrived[p][h] <= now
  /\ bucket[p] \subseteq admitted[p] /\ \A e \in bucket[p] : e.life = lives[p]
  /\ pc[p] # "serving" => bucket[p] = {}
  /\ pc[p] = "serving" => lives[p] >= 1
  /\ IsFiniteSet(admitted[p])
  /\ \A e \in admitted[p] : e.life <= lives[p] /\ e.nth < Cardinality(Same(p, e.at, e.life))
  /\ Cardinality(bucket[p]) <= Limit

(* Until a later request has dropped entries of the window, they are all in  *)
(* the bucket; from then on the window is over, so that nobody joins the     *)
(* requests that may still be admitted to it, the later one not among them.  *)
Bounded(p, T) ==
  /\ pc[p] # "serving" => Cardinality(Lately(p, T)) <= lives[p] * PerLife
  /\ pc[p] = "serving" =>
       /\ Cardinality(Earlier(p, T)) <= (lives[p] - 1) * PerLife
       /\ \/ OfLife(p, T) \subseteq bucket[p]
          \/ T < now /\ Cardinality(OfLife(p, T)) + Cardinality(Waiting(p, T)) <= PerLife

LimiterTypes ==
  /\ now \in 0 .. MaxTime /\ deaths \in 0 .. MaxDeaths
  /\ seeds \in [1 .. Seeds -> {"absent", "present", "claimed"}]
  /\ lives \in [Process -> Nat]
  /\ bucket \in [Process -> SUBSET Entry] /\ admitted \in [Process -> SUBSET Entry]
  /\ arrived \in [Process -> [Handler -> 0 .. MaxTime \cup {NoTime}]]

LimiterInv ==
  /\ SchemaInv /\ LimiterTypes
  /\ \A p \in Process : Keeping(p) /\ \A T \in 0 .. MaxTime : Bounded(p, T)

LEMMA LatelyFinite ==
  ASSUME NEW p \in Process, NEW T \in 0 .. MaxTime, IsFiniteSet(admitted[p])
  PROVE  /\ IsFiniteSet(Lately(p, T)) /\ Cardinality(Lately(p, T)) \in Nat
         /\ IsFiniteSet(Earlier(p, T)) /\ Cardinality(Earlier(p, T)) \in Nat
         /\ IsFiniteSet(OfLife(p, T)) /\ Cardinality(OfLife(p, T)) \in Nat
         /\ IsFiniteSet(Waiting(p, T)) /\ Cardinality(Waiting(p, T)) \in Nat
         /\ Cardinality(Handler) \in Nat /\ Cardinality(Handler) >= 1 /\ PerLife \in Nat
         /\ PerLife >= Limit
<1>1. /\ Lately(p, T) \in SUBSET admitted[p] /\ Earlier(p, T) \in SUBSET admitted[p]
      /\ OfLife(p, T) \in SUBSET admitted[p] /\ Waiting(p, T) \in SUBSET Handler
  BY DEF Lately, Earlier, OfLife, Waiting
<1>2. IsFiniteSet(Handler) /\ Handler # {} /\ Limit \in Nat \ {0}
  BY StartupAssumption, LimiterAssumption
<1>3. /\ IsFiniteSet(Lately(p, T)) /\ IsFiniteSet(Earlier(p, T))
      /\ IsFiniteSet(OfLife(p, T)) /\ IsFiniteSet(Waiting(p, T))
  BY <1>1, <1>2, FS_Subset
<1>4. Cardinality(Handler) \in Nat /\ Cardinality(Handler) # 0
  BY <1>2, FS_CardinalityType, FS_EmptySet
<1> QED BY <1>2, <1>3, <1>4, FS_CardinalityType DEF PerLife

LEMMA OneMoreLife ==
  ASSUME NEW n \in Nat, NEW k \in Nat
  PROVE  n >= 1 => (n - 1) * k + k = n * k
OBVIOUS

(* The bound of AdmissionsBounded holds in every life. *)
LEMMA LifeBound ==
  ASSUME LimiterTypes, NEW p \in Process, NEW T \in 0 .. MaxTime,
         Keeping(p), Bounded(p, T)
  PROVE  Cardinality(Lately(p, T)) <= lives[p] * PerLife
<1>1. CASE pc[p] # "serving"
  BY <1>1 DEF Bounded
<1>2. CASE pc[p] = "serving"
  <2>1. IsFiniteSet(admitted[p]) /\ lives[p] \in Nat /\ lives[p] >= 1
    BY <1>2 DEF Keeping, LimiterTypes
  <2>2. /\ IsFiniteSet(Earlier(p, T)) /\ Cardinality(Earlier(p, T)) \in Nat
        /\ IsFiniteSet(OfLife(p, T)) /\ Cardinality(OfLife(p, T)) \in Nat
        /\ Cardinality(Waiting(p, T)) \in Nat /\ PerLife \in Nat /\ PerLife >= Limit
    BY <2>1, LatelyFinite
  <2>3. Cardinality(OfLife(p, T)) <= PerLife
    <3>1. CASE OfLife(p, T) \subseteq bucket[p]
      <4>1. bucket[p] \in SUBSET admitted[p] /\ Cardinality(bucket[p]) <= Limit
        BY DEF Keeping
      <4>2. IsFiniteSet(bucket[p]) /\ Cardinality(bucket[p]) \in Nat
        BY <2>1, <4>1, FS_Subset, FS_CardinalityType
      <4>3. Cardinality(OfLife(p, T)) <= Cardinality(bucket[p])
        BY <3>1, <4>2, FS_Subset
      <4>4. Limit \in Nat
        BY StartupAssumption, LimiterAssumption
      <4> QED BY <2>2, <4>1, <4>2, <4>3, <4>4
    <3>2. CASE ~(OfLife(p, T) \subseteq bucket[p])
      BY <1>2, <2>2, <3>2 DEF Bounded
    <3> QED BY <3>1, <3>2
  <2>4. Lately(p, T) = Earlier(p, T) \cup OfLife(p, T) /\ Earlier(p, T) \cap OfLife(p, T) = {}
    BY DEF Earlier, OfLife
  <2>5. Cardinality(Lately(p, T)) = Cardinality(Earlier(p, T)) + Cardinality(OfLife(p, T))
    <3>1. Cardinality(Earlier(p, T) \cup OfLife(p, T))
            = Cardinality(Earlier(p, T)) + Cardinality(OfLife(p, T))
                - Cardinality(Earlier(p, T) \cap OfLife(p, T))
      BY <2>2, FS_Union
    <3>2. Cardinality(Earlier(p, T) \cap OfLife(p, T)) = 0
      BY <2>4, FS_EmptySet
    <3> QED BY <2>2, <2>4, <3>1, <3>2
  <2>6. Cardinality(Earlier(p, T)) <= (lives[p] - 1) * PerLife
    BY <1>2 DEF Bounded
  <2>7. PICK m : m = (lives[p] - 1) * PerLife
    OBVIOUS
  <2>8. PICK n : n = lives[p] * PerLife
    OBVIOUS
  <2>9. m \in Int /\ m + PerLife = n
    BY <2>1, <2>2, <2>7, <2>8, OneMoreLife
  <2>10. Cardinality(Lately(p, T)) <= m + PerLife
    BY <2>2, <2>3, <2>5, <2>6, <2>7, <2>9
  <2> QED BY <2>8, <2>9, <2>10
<1> QED BY <1>1, <1>2

-----------------------------------------------------------------------------
LEMMA LimiterInit == StartupInit => LimiterInv
<1> SUFFICES ASSUME StartupInit
             PROVE  LimiterInv
  OBVIOUS
<1>1. LimiterTypes
  BY StartupAssumption, LimiterAssumption DEF StartupInit, LimiterTypes
<1>2. ASSUME NEW p \in Process
      PROVE  Keeping(p) /\ \A T \in 0 .. MaxTime : Bounded(p, T)
  <2>1. /\ pc[p] # "serving" /\ bucket[p] = {} /\ admitted[p] = {} /\ lives[p] = 0
        /\ \A h \in Handler : arrived[p][h] = NoTime
    BY DEF StartupInit
  <2>2. Keeping(p)
    BY <2>1, FS_EmptySet, StartupAssumption, LimiterAssumption DEF Keeping
  <2>3. ASSUME NEW T \in 0 .. MaxTime
        PROVE  Bounded(p, T)
    <3>1. Lately(p, T) = {} /\ PerLife \in Nat /\ IsFiniteSet(admitted[p])
      BY <2>1, LatelyFinite, FS_EmptySet DEF Lately
    <3>2. Cardinality(Lately(p, T)) = 0
      BY <3>1, FS_EmptySet
    <3> QED BY <2>1, <3>1, <3>2 DEF Bounded
  <2> QED BY <2>2, <2>3
<1> QED BY <1>1, <1>2, SchemaInit DEF LimiterInv

(* Nothing happens to the limiter of p, be it that time goes by. *)
LEMMA LimiterSame ==
  ASSUME LimiterTypes, NEW p \in Process, NEW T \in 0 .. MaxTime,
         Keeping(p), Bounded(p, T), now' \in Nat, now <= now',
         pc'[p] = "serving" <=> pc[p] = "serving",
         bucket'[p] = bucket[p], admitted'[p] = admitted[p], lives'[p] = lives[p],
         arrived'[p] = arrived[p]
  PROVE  Keeping(p)' /\ Bounded(p, T)'
<1>1. \A t, n : Same(p, t, n)' = Same(p, t, n)
  BY DEF Same
<1>2. /\ Lately(p, T)' = Lately(p, T) /\ Earlier(p, T)' = Earlier(p, T)
      /\ OfLife(p, T)' = OfLife(p, T) /\ Waiting(p, T)' = Waiting(p, T)
  BY DEF Lately, Earlier, OfLife, Waiting
<1>3. \A h \in Handler : arrived[p][h] # NoTime => arrived[p][h] \in Nat
  BY DEF LimiterTypes
<1>4. now \in Nat /\ \A t \in Nat : t <= now => t <= now'
  BY DEF LimiterTypes
<1>5. Keeping(p)'
  BY <1>1, <1>3, <1>4 DEF Keeping
<1>6. T < now => T < now'
  BY <1>4
<1>7. PerLife' = PerLife
  BY DEF PerLife
<1>8. Bounded(p, T)'
  BY <1>2, <1>6, <1>7 DEF Bounded
<1> QED BY <1>5, <1>8

(* A process begins a life: what it admitted was admitted in earlier ones.   *)
LEMMA LimiterMade ==
  ASSUME LimiterTypes, NEW p \in Process, NEW T \in 0 .. MaxTime,
         Keeping(p), Bounded(p, T), pc[p] # "serving", pc'[p] = "serving",
         lives'[p] = lives[p] + 1, UNCHANGED <<now, bucket, admitted, arrived>>
  PROVE  Keeping(p)' /\ Bounded(p, T)'
<1>1. lives[p] \in Nat /\ \A e \in admitted[p] : e.life \in Nat /\ e.life <= lives[p]
  BY DEF LimiterTypes, Keeping, Entry
<1>2. bucket'[p] = {} /\ \A h \in Handler : arrived'[p][h] = NoTime
  BY DEF Keeping
<1>3. Keeping(p)'
  BY <1>1, <1>2 DEF Keeping, Same
<1>4. \A e \in admitted[p] : e.life # lives[p] + 1
  BY <1>1
<1>5. Earlier(p, T)' = Lately(p, T) /\ OfLife(p, T)' = {}
  BY <1>4 DEF Earlier, OfLife, Lately
<1>6. Cardinality(Lately(p, T)) <= lives[p] * PerLife /\ PerLife' = PerLife
  BY DEF Bounded, PerLife
<1>7. lives'[p] - 1 = lives[p]
  BY <1>1
<1>8. Bounded(p, T)'
  BY <1>5, <1>6, <1>7 DEF Bounded
<1> QED BY <1>3, <1>8

(* A process ends; what it has admitted is within the bound of its lives.    *)
LEMMA LimiterLost ==
  ASSUME LimiterTypes, NEW p \in Process, NEW T \in 0 .. MaxTime,
         Keeping(p), Bounded(p, T), pc'[p] # "serving", bucket'[p] = {},
         \A h \in Handler : arrived'[p][h] = NoTime,
         lives'[p] = lives[p], admitted'[p] = admitted[p]
  PROVE  Keeping(p)' /\ Bounded(p, T)'
<1>1. Keeping(p)'
  <2>1. Cardinality({}) <= Limit
    BY FS_EmptySet, StartupAssumption, LimiterAssumption
  <2> QED BY <2>1 DEF Keeping, Same
<1>2. Cardinality(Lately(p, T)) <= lives[p] * PerLife
  BY LifeBound
<1>3. Lately(p, T)' = Lately(p, T) /\ PerLife' = PerLife
  BY DEF Lately, PerLife
<1>4. Bounded(p, T)'
  BY <1>2, <1>3 DEF Bounded
<1> QED BY <1>1, <1>4

(* A request reads the clock: windows that are over are not joined.          *)
LEMMA LimiterReached ==
  ASSUME LimiterTypes, NEW p \in Process, NEW h \in Handler, NEW T \in 0 .. MaxTime,
         Keeping(p), Bounded(p, T), pc[p] = "serving",
         arrived' = [arrived EXCEPT ![p][h] = now],
         UNCHANGED <<now, pc, bucket, admitted, lives>>
  PROVE  Keeping(p)' /\ Bounded(p, T)'
<1>1. \A g \in Handler : arrived'[p][g] = IF g = h THEN now ELSE arrived[p][g]
  BY DEF LimiterTypes
<1>2. now \in Nat
  BY DEF LimiterTypes
<1>3. Keeping(p)'
  BY <1>1, <1>2 DEF Keeping, Same
<1>4. /\ Earlier(p, T)' = Earlier(p, T) /\ OfLife(p, T)' = OfLife(p, T) /\ PerLife' = PerLife
  BY DEF Lately, Earlier, OfLife, PerLife
<1>5. T < now => Waiting(p, T)' \subseteq Waiting(p, T)
  BY <1>1, <1>2 DEF Waiting
<1>6. CASE T < now
  <2>1. IsFiniteSet(admitted[p]) /\ Waiting(p, T)' \in SUBSET Waiting(p, T)
    BY <1>5, <1>6 DEF Keeping
  <2>2. IsFiniteSet(Waiting(p, T)) /\ Cardinality(Waiting(p, T)) \in Nat /\ PerLife \in Nat
        /\ Cardinality(OfLife(p, T)) \in Nat
    BY <2>1, LatelyFinite
  <2>3. Cardinality(Waiting(p, T)') <= Cardinality(Waiting(p, T)) /\ Cardinality(Waiting(p, T)') \in Nat
    BY <2>1, <2>2, FS_Subset, FS_CardinalityType
  <2>4. Cardinality(OfLife(p, T)) + Cardinality(Waiting(p, T)) <= PerLife
          => Cardinality(OfLife(p, T)) + Cardinality(Waiting(p, T)') <= PerLife
    BY <2>2, <2>3
  <2> QED BY <1>3, <1>4, <2>4 DEF Bounded
<1>7. CASE ~(T < now)
  BY <1>3, <1>4, <1>7 DEF Bounded
<1> QED BY <1>6, <1>7

(* The entry of the request that handler h of p decides on. *)
EntryOf(p, h) ==
  [at |-> arrived[p][h], life |-> lives[p],
   nth |-> Cardinality(Same(p, arrived[p][h], lives[p]))]

(* Its time is that of a request at work, and nobody has its number; what    *)
(* changes is the bucket, and the entries admitted if it is.                 *)
LEMMA DecideFacts ==
  ASSUME LimiterTypes, NEW p \in Process, NEW h \in Handler,
         Keeping(p), Decide(p, h), NEW e, e = EntryOf(p, h)
  PROVE  /\ e \in Entry /\ e.life = lives[p] /\ e.nth = Cardinality(Same(p, e.at, e.life))
         /\ e.at = arrived[p][h] /\ e.at \in 0 .. MaxTime /\ arrived[p][h] # NoTime
         /\ e.at <= now /\ pc[p] = "serving"
         /\ \/ /\ bucket'[p] = Kept(bucket[p], e.at) \cup {e}
               /\ admitted'[p] = admitted[p] \cup {e}
               /\ Admits(bucket[p], e.at)
            \/ bucket'[p] = Kept(bucket[p], e.at) /\ admitted'[p] = admitted[p]
         /\ \A g \in Handler : arrived'[p][g] = IF g = h THEN NoTime ELSE arrived[p][g]
         /\ UNCHANGED <<now, pc, lives>>
<1>1. /\ arrived[p][h] # NoTime /\ pc[p] = "serving"
      /\ bucket' = [bucket EXCEPT ![p] = Allow(bucket[p], e)]
      /\ admitted' = [admitted EXCEPT ![p] = @ \cup IF Admits(bucket[p], arrived[p][h])
                                                    THEN {e} ELSE {}]
      /\ arrived' = [arrived EXCEPT ![p][h] = NoTime]
      /\ UNCHANGED <<now, pc, lives>>
  <2>1. arrived[p][h] # NoTime /\ arrived' = [arrived EXCEPT ![p][h] = NoTime]
        /\ UNCHANGED <<now, pc, lives>>
    BY DEF Decide
  <2>0. e = [at |-> arrived[p][h], life |-> lives[p],
             nth |-> Cardinality({x \in admitted[p] : x.at = arrived[p][h] /\ x.life = lives[p]})]
    BY DEF EntryOf, Same
  <2>2. bucket' = [bucket EXCEPT ![p] = Allow(bucket[p], e)]
    BY <2>0 DEF Decide
  <2>3. admitted' = [admitted EXCEPT ![p] = @ \cup IF Admits(bucket[p], arrived[p][h])
                                                    THEN {e} ELSE {}]
    BY <2>0 DEF Decide
  <2>4. pc[p] = "serving"
    BY <2>1 DEF Keeping
  <2> QED BY <2>1, <2>2, <2>3, <2>4
<1>2. /\ e.at = arrived[p][h] /\ e.life = lives[p]
      /\ e.nth = Cardinality(Same(p, arrived[p][h], lives[p]))
  BY DEF EntryOf
<1>3. arrived[p][h] \in 0 .. MaxTime /\ lives[p] \in Nat /\ arrived[p][h] <= now
  BY <1>1 DEF LimiterTypes, Keeping
<1>4. Cardinality(Same(p, arrived[p][h], lives[p])) \in Nat
  <2>1. Same(p, arrived[p][h], lives[p]) \in SUBSET admitted[p] /\ IsFiniteSet(admitted[p])
    BY DEF Same, Keeping
  <2> QED BY <2>1, FS_Subset, FS_CardinalityType
<1>5. e \in Entry
  BY <1>3, <1>4 DEF Entry, EntryOf
<1>6. bucket'[p] = Allow(bucket[p], e)
  BY <1>1 DEF LimiterTypes
<1>7. admitted'[p] = admitted[p] \cup IF Admits(bucket[p], e.at) THEN {e} ELSE {}
  BY <1>1, <1>2 DEF LimiterTypes
<1>8. \A g \in Handler : arrived'[p][g] = IF g = h THEN NoTime ELSE arrived[p][g]
  BY <1>1 DEF LimiterTypes
<1>9. \/ /\ bucket'[p] = Kept(bucket[p], e.at) \cup {e}
         /\ admitted'[p] = admitted[p] \cup {e}
         /\ Admits(bucket[p], e.at)
      \/ bucket'[p] = Kept(bucket[p], e.at) /\ admitted'[p] = admitted[p]
  BY <1>6, <1>7 DEF Allow
<1> QED BY <1>1, <1>2, <1>3, <1>5, <1>8, <1>9

(* The bucket after a decision has room for what it holds. *)
LEMMA DecideKeeps ==
  ASSUME LimiterTypes, NEW p \in Process, NEW h \in Handler,
         Keeping(p), Decide(p, h)
  PROVE  Keeping(p)'
<1>0. PICK e : e = EntryOf(p, h)
  OBVIOUS
<1>1. /\ e.life = lives[p] /\ e.nth = Cardinality(Same(p, e.at, e.life))
      /\ pc[p] = "serving"
      /\ \/ /\ bucket'[p] = Kept(bucket[p], e.at) \cup {e}
            /\ admitted'[p] = admitted[p] \cup {e}
            /\ Admits(bucket[p], e.at)
         \/ bucket'[p] = Kept(bucket[p], e.at) /\ admitted'[p] = admitted[p]
      /\ \A g \in Handler : arrived'[p][g] = IF g = h THEN NoTime ELSE arrived[p][g]
      /\ UNCHANGED <<now, pc, lives>>
  BY <1>0, DecideFacts
<1>2. Kept(bucket[p], e.at) \in SUBSET bucket[p] /\ bucket[p] \in SUBSET admitted[p]
  BY DEF Kept, Keeping
<1>3. IsFiniteSet(admitted[p]) /\ lives[p] \in Nat /\ Limit \in Nat
  BY StartupAssumption, LimiterAssumption DEF Keeping, LimiterTypes
<1>4. /\ IsFiniteSet(bucket[p]) /\ Cardinality(bucket[p]) \in Nat /\ Cardinality(bucket[p]) <= Limit
      /\ IsFiniteSet(Kept(bucket[p], e.at)) /\ Cardinality(Kept(bucket[p], e.at)) \in Nat
      /\ Cardinality(Kept(bucket[p], e.at)) <= Cardinality(bucket[p])
  BY <1>2, <1>3, FS_Subset, FS_CardinalityType DEF Keeping
<1>5. Cardinality(bucket'[p]) <= Limit
  <2>1. CASE bucket'[p] = Kept(bucket[p], e.at)
    BY <1>3, <1>4, <2>1
  <2>2. CASE bucket'[p] = Kept(bucket[p], e.at) \cup {e} /\ Admits(bucket[p], e.at)
    <3>0. HasRoom(Kept(bucket[p], e.at))
      BY <2>2 DEF Admits
    <3>1. Cardinality(Kept(bucket[p], e.at)) < Limit
      BY <3>0 DEF HasRoom
    <3>2. Cardinality(bucket'[p]) <= Cardinality(Kept(bucket[p], e.at)) + 1
      <4>1. Cardinality(Kept(bucket[p], e.at) \cup {e}) =
              IF e \in Kept(bucket[p], e.at) THEN Cardinality(Kept(bucket[p], e.at))
                                                  ELSE Cardinality(Kept(bucket[p], e.at)) + 1
        BY <1>4, FS_AddElement
      <4> QED BY <1>4, <2>2, <4>1
    <3>3. IsFiniteSet(bucket'[p]) /\ Cardinality(bucket'[p]) \in Nat
      BY <1>4, <2>2, FS_AddElement, FS_CardinalityType
    <3> QED BY <1>3, <1>4, <3>1, <3>2, <3>3
  <2> QED BY <1>1, <2>1, <2>2
<1>6. IsFiniteSet(admitted'[p]) /\ admitted[p] \subseteq admitted'[p]
  <2>1. IsFiniteSet(admitted[p] \cup {e})
    BY <1>3, FS_AddElement
  <2> QED BY <1>1, <1>3, <2>1
<1>7. ASSUME NEW x \in admitted'[p]
      PROVE  x.life <= lives[p] /\ x.nth < Cardinality(Same(p, x.at, x.life)')
  <2>1. /\ Same(p, x.at, x.life)' \in SUBSET admitted'[p]
        /\ Same(p, x.at, x.life) \in SUBSET Same(p, x.at, x.life)'
    BY <1>6 DEF Same
  <2>2. /\ IsFiniteSet(Same(p, x.at, x.life)') /\ Cardinality(Same(p, x.at, x.life)') \in Nat
        /\ IsFiniteSet(Same(p, x.at, x.life)) /\ Cardinality(Same(p, x.at, x.life)) \in Nat
        /\ Cardinality(Same(p, x.at, x.life)) <= Cardinality(Same(p, x.at, x.life)')
    BY <1>6, <2>1, FS_Subset, FS_CardinalityType
  <2>3. CASE x \in admitted[p]
    <3>1. x.life <= lives[p] /\ x.nth < Cardinality(Same(p, x.at, x.life)) /\ x.nth \in Nat
      BY <2>3 DEF Keeping, LimiterTypes, Entry
    <3> QED BY <2>2, <3>1
  <2>4. CASE x \notin admitted[p]
    <3>1. x = e
      BY <1>1, <2>4
    <3>2. x \notin Same(p, x.at, x.life) /\ x \in Same(p, x.at, x.life)'
      BY <2>4 DEF Same
    <3>3. Cardinality(Same(p, x.at, x.life)) # Cardinality(Same(p, x.at, x.life)')
      BY <2>1, <2>2, <3>2, FS_Subset
    <3> QED BY <1>1, <1>3, <2>2, <3>1, <3>3
  <2> QED BY <2>3, <2>4
<1>8. bucket'[p] \subseteq admitted'[p] /\ \A x \in bucket'[p] : x.life = lives[p]
  BY <1>1, <1>2 DEF Keeping
<1>9. \A g \in Handler : arrived'[p][g] # NoTime => arrived'[p][g] <= now
  BY <1>1 DEF Keeping
<1> QED BY <1>1, <1>5, <1>6, <1>7, <1>8, <1>9 DEF Keeping

LEMMA DecideBounds ==
  ASSUME LimiterTypes, NEW p \in Process, NEW h \in Handler,
         NEW T \in 0 .. MaxTime, Keeping(p), Bounded(p, T), Decide(p, h)
  PROVE  Bounded(p, T)'
<1>0. PICK e : e = EntryOf(p, h)
  OBVIOUS
<1>1. /\ e.life = lives[p] /\ e.nth = Cardinality(Same(p, e.at, e.life))
      /\ e.at = arrived[p][h] /\ e.at \in 0 .. MaxTime /\ arrived[p][h] # NoTime
      /\ e.at <= now /\ pc[p] = "serving"
      /\ \/ /\ bucket'[p] = Kept(bucket[p], e.at) \cup {e}
            /\ admitted'[p] = admitted[p] \cup {e}
         \/ bucket'[p] = Kept(bucket[p], e.at) /\ admitted'[p] = admitted[p]
      /\ \A g \in Handler : arrived'[p][g] = IF g = h THEN NoTime ELSE arrived[p][g]
      /\ UNCHANGED <<now, pc, lives>>
  BY <1>0, DecideFacts
<1>2. T \in Nat /\ Window \in Nat \ {0} /\ Limit \in Nat /\ now \in Nat
  BY StartupAssumption, LimiterAssumption DEF LimiterTypes
<1>3. /\ IsFiniteSet(admitted[p]) /\ bucket[p] \in SUBSET admitted[p]
      /\ Cardinality(bucket[p]) <= Limit
  BY DEF Keeping
<1>4. /\ IsFiniteSet(OfLife(p, T)) /\ Cardinality(OfLife(p, T)) \in Nat
      /\ IsFiniteSet(Waiting(p, T)) /\ Cardinality(Waiting(p, T)) \in Nat
      /\ Cardinality(Handler) \in Nat /\ Cardinality(Handler) >= 1 /\ PerLife \in Nat
  BY <1>3, LatelyFinite
<1>5. Earlier(p, T)' = Earlier(p, T) /\ PerLife' = PerLife
  BY <1>1 DEF Earlier, Lately, PerLife
<1>6. \/ OfLife(p, T)' = OfLife(p, T)
      \/ OfLife(p, T)' = OfLife(p, T) \cup {e} /\ e.at \in T - Window + 1 .. T
  <2>0. \A x : x \in OfLife(p, T)' <=> x \in admitted'[p] /\ x.at \in T - Window + 1 .. T
                                           /\ x.life = lives[p]
    BY <1>1 DEF OfLife, Lately
  <2>1. CASE admitted'[p] = admitted[p]
    <3>1. \A x : x \in OfLife(p, T)' <=> x \in OfLife(p, T)
      BY <2>0, <2>1 DEF OfLife, Lately
    <3>2. OfLife(p, T)' = OfLife(p, T)
      BY <3>1
    <3> QED BY <3>2
  <2>2. CASE admitted'[p] = admitted[p] \cup {e} /\ e.at \in T - Window + 1 .. T
    <3>1. \A x : x \in OfLife(p, T)' <=> x \in OfLife(p, T) \cup {e}
      BY <1>1, <2>0, <2>2 DEF OfLife, Lately
    <3>2. OfLife(p, T)' = OfLife(p, T) \cup {e}
      BY <3>1
    <3> QED BY <2>2, <3>2
  <2>3. CASE admitted'[p] = admitted[p] \cup {e} /\ e.at \notin T - Window + 1 .. T
    <3>1. \A x : x \in OfLife(p, T)' <=> x \in OfLife(p, T)
      BY <2>0, <2>3 DEF OfLife, Lately
    <3>2. OfLife(p, T)' = OfLife(p, T)
      BY <3>1
    <3> QED BY <3>2
  <2> QED BY <1>1, <2>1, <2>2, <2>3
<1>7. Waiting(p, T)' = Waiting(p, T) \ {h}
  BY <1>1 DEF Waiting
<1>8. SUFFICES \/ OfLife(p, T)' \subseteq bucket'[p]
               \/ T < now /\ Cardinality(OfLife(p, T)') + Cardinality(Waiting(p, T)') <= PerLife
  BY <1>1, <1>5 DEF Bounded
<1>9. CASE OfLife(p, T) \subseteq bucket[p] /\ ~(T < e.at)
  <2>1. ASSUME NEW x \in OfLife(p, T)
        PROVE  x \in Kept(bucket[p], e.at)
    <3>1. x \in bucket[p] /\ x.at \in T - Window + 1 .. T
      BY <1>9, <2>1 DEF OfLife, Lately
    <3>2. x.at > e.at - Window
      BY <1>1, <1>2, <1>9, <3>1
    <3> QED BY <3>1, <3>2 DEF Kept
  <2>2. ASSUME NEW x \in OfLife(p, T)'
        PROVE  x \in bucket'[p]
    <3>1. x \in admitted'[p] /\ (x \in admitted[p] => x \in OfLife(p, T))
      BY <1>1, <2>2 DEF OfLife, Lately
    <3> QED BY <1>1, <2>1, <3>1
  <2> QED BY <2>2
<1>10. CASE OfLife(p, T) \subseteq bucket[p] /\ T < e.at
  <2>1. OfLife(p, T)' = OfLife(p, T) /\ T < now
    BY <1>1, <1>2, <1>6, <1>10
  <2>2. Cardinality(OfLife(p, T)) <= Limit
    <3>1. IsFiniteSet(bucket[p]) /\ Cardinality(bucket[p]) \in Nat
      BY <1>3, FS_Subset, FS_CardinalityType
    <3>2. Cardinality(OfLife(p, T)) <= Cardinality(bucket[p])
      BY <1>10, <3>1, FS_Subset
    <3> QED BY <1>2, <1>3, <1>4, <3>1, <3>2
  <2>3. Cardinality(Waiting(p, T)') <= Cardinality(Handler) - 1 /\ Cardinality(Waiting(p, T)') \in Nat
    <3>1. IsFiniteSet(Handler \ {h}) /\ Cardinality(Handler \ {h}) = Cardinality(Handler) - 1
      BY FS_RemoveElement, StartupAssumption, LimiterAssumption
    <3>2. Waiting(p, T)' \in SUBSET (Handler \ {h})
      BY <1>7 DEF Waiting
    <3> QED BY <3>1, <3>2, FS_Subset, FS_CardinalityType
  <2> QED BY <1>2, <1>4, <2>1, <2>2, <2>3 DEF PerLife
<1>11. CASE T < now /\ Cardinality(OfLife(p, T)) + Cardinality(Waiting(p, T)) <= PerLife
  <2>1. /\ Cardinality(Waiting(p, T)') =
             IF h \in Waiting(p, T) THEN Cardinality(Waiting(p, T)) - 1 ELSE Cardinality(Waiting(p, T))
        /\ Cardinality(Waiting(p, T)') \in Nat
    BY <1>4, <1>7, FS_RemoveElement, FS_CardinalityType
  <2>2. CASE OfLife(p, T)' = OfLife(p, T)
    BY <1>4, <1>11, <2>1, <2>2
  <2>3. CASE OfLife(p, T)' = OfLife(p, T) \cup {e} /\ e.at \in T - Window + 1 .. T
    <3>1. h \in Waiting(p, T)
      BY <1>1, <2>3 DEF Waiting
    <3>2. Cardinality(OfLife(p, T)') \in Nat /\ Cardinality(OfLife(p, T)') <= Cardinality(OfLife(p, T)) + 1
      <4>1. /\ IsFiniteSet(OfLife(p, T) \cup {e})
            /\ Cardinality(OfLife(p, T) \cup {e}) =
                 IF e \in OfLife(p, T) THEN Cardinality(OfLife(p, T)) ELSE Cardinality(OfLife(p, T)) + 1
        BY <1>4, FS_AddElement
      <4> QED BY <1>4, <2>3, <4>1
    <3> QED BY <1>4, <1>11, <2>1, <3>1, <3>2
  <2> QED BY <1>6, <2>2, <2>3
<1> QED BY <1>1, <1>9, <1>10, <1>11 DEF Bounded

-----------------------------------------------------------------------------
LEMMA TypesNext ==
  ASSUME LimiterInv, [StartupNext]_startupVars
  PROVE  LimiterTypes'
<1>1. LimiterTypes /\ SchemaInv
  BY DEF LimiterInv
<1>2. ASSUME NEW p \in Process,
             \/ Connect(p) \/ CheckMigration(p) \/ ApplyBody(p) \/ RecordMigration(p)
      PROVE  LimiterTypes'
  BY <1>1, <1>2 DEF LimiterTypes, Connect, CheckMigration, ApplyBody,
       RecordMigration, dbVars, limiterVars
<1>3. ASSUME NEW p \in Process, SeedRow(p)
      PROVE  LimiterTypes'
  <2>1. seeds' \in [1 .. Seeds -> {"absent", "present", "claimed"}]
    BY <1>1, <1>3 DEF LimiterTypes, SeedRow
  <2> QED BY <1>1, <1>3, <2>1 DEF LimiterTypes, SeedRow, limiterVars
<1>4. ASSUME NEW p \in Process, Serve(p)
      PROVE  LimiterTypes'
  BY <1>1, <1>4 DEF LimiterTypes, Serve, dbVars
<1>5. ASSUME NEW p \in Process, Die(p)
      PROVE  LimiterTypes'
  <2>1. deaths' \in 0 .. MaxDeaths
    BY <1>1, <1>5, StartupAssumption, LimiterAssumption DEF LimiterTypes, Die
  <2> QED BY <1>1, <1>5, <2>1 DEF LimiterTypes, Die, dbVars
<1>6. ASSUME NEW p \in Process, NEW h \in Handler, Arrive(p, h)
      PROVE  LimiterTypes'
  BY <1>1, <1>6 DEF LimiterTypes, Arrive, dbVars
<1>7. ASSUME NEW p \in Process, NEW h \in Handler, Decide(p, h)
      PROVE  LimiterTypes'
  <2>0. PICK e : e = EntryOf(p, h)
    OBVIOUS
  <2>1. /\ e \in Entry
        /\ \/ /\ bucket'[p] = Kept(bucket[p], e.at) \cup {e}
              /\ admitted'[p] = admitted[p] \cup {e}
           \/ bucket'[p] = Kept(bucket[p], e.at) /\ admitted'[p] = admitted[p]
    BY <1>1, <1>7, <2>0, DecideFacts DEF LimiterInv
  <2>2. bucket'[p] \in SUBSET Entry /\ admitted'[p] \in SUBSET Entry
    BY <1>1, <2>1 DEF LimiterTypes, Kept
  <2>3. /\ bucket' = [bucket EXCEPT ![p] = bucket'[p]]
        /\ admitted' = [admitted EXCEPT ![p] = admitted'[p]]
    BY <1>1, <1>7 DEF LimiterTypes, Decide
  <2>4. /\ bucket' \in [Process -> SUBSET Entry]
        /\ admitted' \in [Process -> SUBSET Entry]
    BY <1>1, <2>2, <2>3 DEF LimiterTypes
  <2>5. /\ arrived' \in [Process -> [Handler -> 0 .. MaxTime \cup {NoTime}]]
        /\ UNCHANGED <<now, deaths, seeds, lives>>
    BY <1>1, <1>7 DEF LimiterTypes, Decide, dbVars
  <2> QED BY <1>1, <2>4, <2>5 DEF LimiterTypes
<1>8. ASSUME NEW s \in 1 .. Seeds, EditTunnels(s)
      PROVE  LimiterTypes'
  BY <1>1, <1>8 DEF LimiterTypes, EditTunnels, limiterVars
<1>9. CASE Tick
  BY <1>1, <1>9, StartupAssumption, LimiterAssumption DEF LimiterTypes, Tick, dbVars, limiterVars
<1>10. CASE UNCHANGED startupVars
  BY <1>1, <1>10 DEF LimiterTypes, startupVars, dbVars, limiterVars
<1> QED
  BY <1>2, <1>3, <1>4, <1>5, <1>6, <1>7, <1>8, <1>9, <1>10 DEF StartupNext, Advance

(* What every step does to the limiter of process p. *)
LEMMA LimiterStep ==
  ASSUME LimiterInv, [StartupNext]_startupVars,
         NEW p \in Process, NEW T \in 0 .. MaxTime
  PROVE  Keeping(p)' /\ Bounded(p, T)'
<1>1. LimiterTypes /\ SchemaInv /\ Keeping(p) /\ Bounded(p, T) /\ now \in Nat
  BY DEF LimiterInv, LimiterTypes
<1>2. pc \in [Process -> Labels]
  BY <1>1 DEF SchemaInv
<1>3. ASSUME UNCHANGED limiterVars, now' \in Nat, now <= now',
             pc'[p] = "serving" <=> pc[p] = "serving"
      PROVE  Keeping(p)' /\ Bounded(p, T)'
  BY <1>1, <1>3, LimiterSame DEF limiterVars
<1>4. ASSUME NEW q \in Process, NEW label, NEW n, GoTo(q, label, n), label # "serving",
             pc[q] # "serving", UNCHANGED <<now, limiterVars>>
      PROVE  Keeping(p)' /\ Bounded(p, T)'
  <2>1. pc'[p] = "serving" <=> pc[p] = "serving"
    BY <1>2, <1>4 DEF GoTo
  <2> QED BY <1>1, <1>3, <1>4, <2>1
<1>5. ASSUME NEW q \in Process,
             \/ Connect(q) \/ CheckMigration(q) \/ ApplyBody(q)
             \/ RecordMigration(q) \/ SeedRow(q)
      PROVE  Keeping(p)' /\ Bounded(p, T)'
  <2>1. CASE \E label \in Labels \ {"serving"} : \E n : GoTo(q, label, n)
    <3>1. pc[q] # "serving" /\ UNCHANGED <<now, limiterVars>>
      BY <1>5 DEF Connect, CheckMigration, ApplyBody, RecordMigration, SeedRow
    <3> QED BY <1>4, <2>1, <3>1
  <2>2. CASE \E second \in SUBSET {r \in Process \ {q} : pc[r] = "seed"} :
               pc' = [r \in Process |-> IF r \in second THEN "down" ELSE pc[r]]
    <3>1. CASE SeedRow(q)
      <4>1. (pc'[p] = "serving" <=> pc[p] = "serving") /\ UNCHANGED <<now, limiterVars>>
        BY <1>2, <2>2, <3>1 DEF SeedRow
      <4> QED BY <1>1, <1>3, <4>1
    <3>2. CASE ~SeedRow(q)
      BY <1>5, <2>1, <3>2 DEF Connect, CheckMigration, ApplyBody, RecordMigration, Exit, Labels
    <3> QED BY <3>1, <3>2
  <2>3. \/ \E label \in Labels \ {"serving"} : \E n : GoTo(q, label, n)
        \/ \E second \in SUBSET {r \in Process \ {q} : pc[r] = "seed"} :
             pc' = [r \in Process |-> IF r \in second THEN "down" ELSE pc[r]]
    <3>1. CASE SeedRow(q)
      BY <3>1 DEF SeedRow, Exit, Labels
    <3>2. CASE ~SeedRow(q)
      BY <1>5, <3>2 DEF Connect, CheckMigration, ApplyBody, RecordMigration, Exit, Labels
    <3> QED BY <3>1, <3>2
  <2> QED BY <2>1, <2>2, <2>3
<1>6. ASSUME NEW q \in Process, Serve(q)
      PROVE  Keeping(p)' /\ Bounded(p, T)'
  <2>1. /\ pc[q] = "seed" /\ pc' = [pc EXCEPT ![q] = "serving"]
        /\ lives' = [lives EXCEPT ![q] = @ + 1]
        /\ UNCHANGED <<now, bucket, admitted, arrived>>
    BY <1>6 DEF Serve, GoTo
  <2>2. CASE q = p
    <3>1. pc[p] # "serving" /\ pc'[p] = "serving" /\ lives'[p] = lives[p] + 1
      BY <1>1, <1>2, <2>1, <2>2 DEF LimiterTypes
    <3> QED BY <1>1, <2>1, <3>1, LimiterMade
  <2>3. CASE q # p
    <3>1. /\ pc'[p] = "serving" <=> pc[p] = "serving"
          /\ lives'[p] = lives[p] /\ bucket'[p] = bucket[p] /\ admitted'[p] = admitted[p]
          /\ arrived'[p] = arrived[p] /\ now' \in Nat /\ now <= now'
      BY <1>1, <1>2, <2>1, <2>3 DEF LimiterTypes
    <3> QED BY <1>1, <3>1, LimiterSame
  <2> QED BY <2>2, <2>3
<1>7. ASSUME NEW q \in Process, Die(q)
      PROVE  Keeping(p)' /\ Bounded(p, T)'
  <2>1. /\ pc' = [pc EXCEPT ![q] = "down"] /\ bucket' = [bucket EXCEPT ![q] = {}]
        /\ arrived' = [arrived EXCEPT ![q] = [h \in Handler |-> NoTime]]
        /\ UNCHANGED <<now, admitted, lives>>
    BY <1>7 DEF Die, Exit, GoTo
  <2>2. CASE q = p
    <3>1. /\ pc'[p] # "serving" /\ bucket'[p] = {}
          /\ \A h \in Handler : arrived'[p][h] = NoTime
          /\ lives'[p] = lives[p] /\ admitted'[p] = admitted[p]
      BY <1>1, <1>2, <2>1, <2>2 DEF LimiterTypes
    <3> QED BY <1>1, <3>1, LimiterLost
  <2>3. CASE q # p
    <3>1. /\ pc'[p] = "serving" <=> pc[p] = "serving"
          /\ lives'[p] = lives[p] /\ bucket'[p] = bucket[p] /\ admitted'[p] = admitted[p]
          /\ arrived'[p] = arrived[p] /\ now' \in Nat /\ now <= now'
      BY <1>1, <1>2, <2>1, <2>3 DEF LimiterTypes
    <3> QED BY <1>1, <3>1, LimiterSame
  <2> QED BY <2>2, <2>3
<1>8. ASSUME NEW q \in Process, NEW h \in Handler, Arrive(q, h)
      PROVE  Keeping(p)' /\ Bounded(p, T)'
  <2>1. /\ pc[q] = "serving" /\ arrived' = [arrived EXCEPT ![q][h] = now]
        /\ UNCHANGED <<now, pc, bucket, admitted, lives>>
    BY <1>8 DEF Arrive
  <2>2. CASE q = p
    BY <1>1, <2>1, <2>2, LimiterReached
  <2>3. CASE q # p
    <3>1. /\ pc'[p] = "serving" <=> pc[p] = "serving"
          /\ lives'[p] = lives[p] /\ bucket'[p] = bucket[p] /\ admitted'[p] = admitted[p]
          /\ arrived'[p] = arrived[p] /\ now' \in Nat /\ now <= now'
      BY <1>1, <1>2, <2>1, <2>3 DEF LimiterTypes
    <3> QED BY <1>1, <3>1, LimiterSame
  <2> QED BY <2>2, <2>3
<1>9. ASSUME NEW q \in Process, NEW h \in Handler, Decide(q, h)
      PROVE  Keeping(p)' /\ Bounded(p, T)'
  <2>1. CASE q = p
    <3>1. Decide(p, h)
      BY <1>9, <2>1
    <3> QED BY <1>1, <3>1, DecideKeeps, DecideBounds
  <2>2. CASE q # p
    <3>1. /\ bucket' = [bucket EXCEPT ![q] = bucket'[q]]
          /\ admitted' = [admitted EXCEPT ![q] = admitted'[q]]
          /\ arrived' = [arrived EXCEPT ![q][h] = NoTime]
          /\ UNCHANGED <<now, pc, lives>>
      BY <1>1, <1>9 DEF LimiterTypes, Decide
    <3>2. /\ pc'[p] = "serving" <=> pc[p] = "serving"
          /\ lives'[p] = lives[p] /\ bucket'[p] = bucket[p] /\ admitted'[p] = admitted[p]
          /\ arrived'[p] = arrived[p] /\ now' \in Nat /\ now <= now'
      BY <1>1, <2>2, <3>1 DEF LimiterTypes
    <3> QED BY <1>1, <3>2, LimiterSame
  <2> QED BY <2>1, <2>2
<1>10. ASSUME NEW s \in 1 .. Seeds, EditTunnels(s)
       PROVE  Keeping(p)' /\ Bounded(p, T)'
  BY <1>1, <1>3, <1>10 DEF EditTunnels
<1>11. CASE Tick
  BY <1>1, <1>3, <1>11 DEF Tick
<1>12. CASE UNCHANGED startupVars
  BY <1>1, <1>3, <1>12 DEF startupVars
<1> QED
  BY <1>5, <1>6, <1>7, <1>8, <1>9, <1>10, <1>11, <1>12 DEF StartupNext, Advance

LEMMA LimiterNext == LimiterInv /\ [StartupNext]_startupVars => LimiterInv'
<1> SUFFICES ASSUME LimiterInv, [StartupNext]_startupVars
             PROVE  LimiterInv'
  OBVIOUS
<1>1. SchemaInv
  BY DEF LimiterInv
<1>2. SchemaInv'
  BY <1>1, SchemaNext
<1>3. LimiterTypes'
  BY TypesNext
<1>4. 0 \in 0 .. MaxTime
  BY StartupAssumption, LimiterAssumption
<1>5. ASSUME NEW p \in Process
      PROVE  Keeping(p)' /\ \A T \in 0 .. MaxTime : Bounded(p, T)'
  BY <1>4, LimiterStep
<1> QED BY <1>2, <1>3, <1>5 DEF LimiterInv

LEMMA AlwaysLimited == StartupSpec => []LimiterInv
<1>1. StartupInit => LimiterInv
  BY LimiterInit
<1>2. LimiterInv /\ [StartupNext]_startupVars => LimiterInv'
  BY LimiterNext
<1> QED BY <1>1, <1>2, PTL DEF StartupSpec

(* Processes, rows, buckets and entries keep their shapes, for any number of *)
(* processes, migrations, seeded tunnels, handlers and crashes.              *)
THEOREM StartupTypeCorrect == StartupSpec => []StartupTypeOK
<1>1. LimiterInv => StartupTypeOK
  BY DEF LimiterInv, LimiterTypes, SchemaInv, Labels, StartupTypeOK, StartupTypeOK
<1> QED BY <1>1, AlwaysLimited, PTL

(* However requests overlap, with the clock read before the mutex is taken,  *)
(* and however often a process is started again, its signup limiter admits   *)
(* no more of a key in a window than its lives times the limit and one for   *)
(* each other request at work.                                               *)
THEOREM AdmissionsAreBounded == StartupSpec => []AdmissionsBounded
<1>1. LimiterInv => AdmissionsBounded
  <2> SUFFICES ASSUME LimiterInv, NEW p \in Process, NEW T \in 0 .. MaxTime
               PROVE  Cardinality({e \in admitted[p] : e.at \in T - Window + 1 .. T})
                        <= lives[p] * (Limit + Cardinality(Handler) - 1)
    BY DEF AdmissionsBounded, AdmissionsBounded
  <2>1. LimiterTypes /\ Keeping(p) /\ Bounded(p, T)
    BY DEF LimiterInv
  <2>2. Cardinality(Lately(p, T)) <= lives[p] * PerLife
    BY <2>1, LifeBound
  <2> QED BY <2>2 DEF Lately, PerLife
<1> QED BY <1>1, AlwaysLimited, PTL
=============================================================================
