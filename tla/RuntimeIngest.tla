--------------------------- MODULE RuntimeIngest ---------------------------
(***************************************************************************)
(* Runtime reports (Handler.IngestSnapshot), composed with the             *)
(* installations that send them: a request authenticates with an ingest    *)
(* token, or with the shared secret, and then upserts a row per tunnel of  *)
(* its payload and one per event, statement after statement.  Reports      *)
(* interleave with each other and with the revocation of the installation. *)
(* Which account a row is stored under is settled row by row.  The         *)
(* customer's status and route count read the rows.                        *)
(***************************************************************************)
EXTENDS RuntimeInstallations

CONSTANTS
  Account,      \* accounts that exist
  Foreign,      \* an account id that does not
  NoAccount,    \* the empty account id
  Owner,        \* the account of each installation
  Prototype,    \* PrototypeAccountID in prototype mode, or NoAccount
  Tunnel,       \* tunnel ids; each is declared by the accounts of Declared
  Declared,
  EventId,      \* ids of events, chosen by the relay
  Payload,      \* what relays send: sets of tunnels and of events, ...
  Claims,       \* ... and the account each of these names
  MaxReports    \* bound on reports ever started

Item == Tunnel \cup EventId

ASSUME IngestAssumption ==
  /\ Tunnel \cap EventId = {}
  /\ Foreign \notin Account /\ NoAccount \notin Account \cup {Foreign}
  /\ Owner \in [Installation -> Account]
  /\ Prototype \in Account \cup {NoAccount}
  /\ Declared \in [Tunnel -> Account]
  /\ Payload \subseteq (SUBSET Tunnel) \X (SUBSET EventId)
  /\ Claims \subseteq [Item -> Account \cup {Foreign, NoAccount}]
  /\ MaxReports \in Nat

VARIABLES
  snapshots,  \* runtime_tunnel_snapshots: the report that wrote the tunnel's row
  events,     \* runtime_events: the report that wrote the event's row
  account,    \* account_id of both tables
  reports,    \* the payloads, in the order in which their writing began
  rep         \* the report each worker is writing

ingestVars == <<snapshots, events, account, reports, rep>>
allVars == <<vars, ingestVars>>

ReportId == 1 .. MaxReports

SnapshotPayload ==
  [inst : Installation \cup {NoInst},   \* the principal; NoInst: sent with the shared secret
   claims : [Item -> Account \cup {Foreign, NoAccount}],
   tunnels : SUBSET Tunnel, events : SUBSET EventId,
   end : {"open", "accepted", "failed"},
   before : SUBSET ReportId]            \* history: the reports that were over when it began
NoClaims == [x \in Item |-> NoAccount]
NoReport == [inst |-> NoInst, claims |-> NoClaims, tunnels |-> {}, events |-> {},
             end |-> "none", before |-> {}]

(* What is left of the two loops. *)
Writing == [n : ReportId, tunnels : SUBSET Tunnel, events : SUBSET EventId]
NotWriting == [n |-> 0, tunnels |-> {}, events |-> {}]

IngestInit ==
  /\ Init
  /\ snapshots = [x \in Tunnel |-> 0]
  /\ events = [e \in EventId |-> 0]
  /\ account = NoClaims
  /\ reports = [n \in ReportId |-> NoReport]
  /\ rep = [w \in Worker |-> NotWriting]

-----------------------------------------------------------------------------
Over == {n \in ReportId : reports[n].end \in {"accepted", "failed"}}

(* normalizeAccountID: an account that is not found is replaced in prototype *)
(* mode, and stored as it is otherwise.  A look-up that fails finds none.    *)
normalizeAccountID(a) ==
  LET other == IF Prototype = NoAccount THEN a ELSE Prototype
  IN IF a \notin Account THEN {other} ELSE {a} \cup (IF CallsMayFail THEN {other} ELSE {})

(* Mutant: the account a payload names goes before the principal's. *)
AccountsClaimed(n, x) == normalizeAccountID(reports[n].claims[x])

(* The accounts report n may store its row of x under: the principal's, and *)
(* without one what the row names.                                          *)
AccountsFor(n, x) ==
  LET r == reports[n]
  IN IF r.inst # NoInst THEN {Owner[r.inst]} ELSE normalizeAccountID(r.claims[x])

Begin(w, i, claims, xs, es) ==
  \E n \in ReportId :
    /\ reports[n] = NoReport /\ \A m \in ReportId : m < n => reports[m] # NoReport
    /\ reports' = [reports EXCEPT ![n] =
         [inst |-> i, claims |-> claims, tunnels |-> xs, events |-> es, end |-> "open",
          before |-> Over]]
    /\ rep' = [rep EXCEPT ![w] = [n |-> n, tunnels |-> xs, events |-> es]]
    /\ UNCHANGED <<snapshots, events, account>>

(* resolvePrincipal with a bearer token: the last statement of             *)
(* ResolveIngestToken, and the principal is the installation.  What the    *)
(* payload claims is not read.                                             *)
TokenReport(w, xs, es) ==
  /\ UpdateInstallationLastSeen(w)
  /\ Begin(w, req[w].inst, NoClaims, xs, es)

(* resolvePrincipal with X-Bloop-Runtime-Secret: each row of the payload *)
(* names its account.                                                    *)
SecretReport(w, claims, xs, es) ==
  /\ req[w].pc = "idle" /\ rep[w] = NotWriting
  /\ Begin(w, NoInst, claims, xs, es)
  /\ UNCHANGED vars

(* Mutant: a row that cannot be written is left out. *)
WriteOrSkipTunnel(w) ==
  /\ \E x \in rep[w].tunnels :
       /\ \/ UNCHANGED <<snapshots, account>>
          \/ /\ \E a \in AccountsFor(rep[w].n, x) : account' = [account EXCEPT ![x] = a]
             /\ snapshots' = [snapshots EXCEPT ![x] = rep[w].n]
       /\ rep' = [rep EXCEPT ![w].tunnels = @ \ {x}]
  /\ UNCHANGED <<vars, events, reports>>

(* One turn of the first loop: INSERT .. ON CONFLICT (id) DO UPDATE, for    *)
(* "rts_" and the tunnel's id, whatever the row there was observed at.      *)
WriteTunnel(w) ==
  /\ \E x \in rep[w].tunnels :
       /\ \E a \in AccountsFor(rep[w].n, x) : account' = [account EXCEPT ![x] = a]
       /\ snapshots' = [snapshots EXCEPT ![x] = rep[w].n]
       /\ rep' = [rep EXCEPT ![w].tunnels = @ \ {x}]
  /\ UNCHANGED <<vars, events, reports>>

(* One turn of the second loop, after the first. *)
WriteEvent(w) ==
  /\ rep[w].tunnels = {}
  /\ \E e \in rep[w].events :
       /\ \E a \in AccountsFor(rep[w].n, e) : account' = [account EXCEPT ![e] = a]
       /\ events' = [events EXCEPT ![e] = rep[w].n]
       /\ rep' = [rep EXCEPT ![w].events = @ \ {e}]
  /\ UNCHANGED <<vars, snapshots, reports>>

End(w, how) ==
  /\ rep[w] # NotWriting
  /\ reports' = [reports EXCEPT ![rep[w].n].end = how]
  /\ rep' = [rep EXCEPT ![w] = NotWriting]
  /\ UNCHANGED <<vars, snapshots, events, account>>

(* 202 *)
Accept(w) == rep[w].tunnels = {} /\ rep[w].events = {} /\ End(w, "accepted")

(* A statement fails: 500, with the rows written so far. *)
WriteFails(w) == CallsMayFail /\ (rep[w].tunnels \cup rep[w].events # {}) /\ End(w, "failed")

(* The other requests about installations, of workers that write no report. *)
(* One is that of a relay whose body cannot be read: 400, its token resolved *)
(* and nothing begun.                                                        *)
Administer(w) ==
  /\ rep[w] = NotWriting
  /\ \/ \E i \in Installation :
          CreateInstallation(w, i) \/ RotateIngestToken(w, i) \/ RevokeInstallation(w, i)
     \/ \E t \in TokenId : Enroll(w, t) \/ ResolveIngestToken(w, t)
     \/ Progress(w) \/ Fail(w)
  /\ UNCHANGED ingestVars

(* The clock, which only the expiry of an enrollment token reads, stands    *)
(* still: RuntimeInstallations lets it run.                                 *)
IngestNext ==
  \E w \in Worker :
    \/ Administer(w)
    \/ \E p \in Payload :
         TokenReport(w, p[1], p[2]) \/ \E c \in Claims : SecretReport(w, c, p[1], p[2])
    \/ WriteTunnel(w) \/ WriteEvent(w) \/ Accept(w) \/ WriteFails(w)

IngestSpec == IngestInit /\ [][IngestNext]_allVars

-----------------------------------------------------------------------------
(* The views of account a.  (Not modelled: the lists of the five latest     *)
(* events by the relays' own times, and the drift, of which this tells only *)
(* whether a row was observed.)                                             *)

RowOf(a, x) == snapshots[x] # 0 /\ account[x] = a

(* GetRuntimeStatusByTunnelID: the report it shows, 0 for "unknown". *)
StatusOf(a, x) == IF RowOf(a, x) THEN snapshots[x] ELSE 0

(* ProjectAccount: the tunnels counted as active, declared ones only when *)
(* there is no row.                                                       *)
ActiveRoutes(a) ==
  LET observed == {x \in Tunnel : RowOf(a, x)}
  IN IF observed # {} THEN observed ELSE {x \in Tunnel : Declared[x] = a}

-----------------------------------------------------------------------------
(* Properties *)

(* The tables and the reports have the shapes above; a row that was written *)
(* with a token is of its installation's account.                           *)
IngestTypeOK ==
  /\ TypeOK
  /\ snapshots \in [Tunnel -> 0 .. MaxReports]
  /\ events \in [EventId -> 0 .. MaxReports]
  /\ account \in [Item -> Account \cup {Foreign, NoAccount}]
  /\ reports \in [ReportId -> SnapshotPayload \cup {NoReport}]
  /\ rep \in [Worker -> Writing \cup {NotWriting}]
  /\ \A x \in Item :
       LET n == IF x \in Tunnel THEN snapshots[x] ELSE events[x]
       IN n # 0 /\ reports[n].inst # NoInst => account[x] = Owner[reports[n].inst]

(* Do report n and every other that was not over before n began, and names  *)
(* x, a tunnel or an event, store x under account a?                        *)
OneAccount(n, x, a) ==
  \A m \in ReportId \ reports[n].before :
    x \in reports[m].tunnels \cup reports[m].events => AccountsFor(m, x) = {a}

(* What a report that was answered 202 says of a tunnel, and its events, are *)
(* what is stored until a report that overlapped or followed it says         *)
(* otherwise, be it for another account: no row older than the report comes  *)
(* back (runtime.go:74).  So the tunnels are shown and counted for their     *)
(* account.  That holds too of the tunnels of a report that failed among its *)
(* events (runtime.go:85): an event is stored only with all of its report's  *)
(* tunnels.                                                                  *)
ReportsAreShown ==
  \A n \in ReportId :
    /\ reports[n].end = "accepted" => \A e \in reports[n].events :
         /\ events[e] # 0 /\ events[e] \notin reports[n].before
         /\ \A a \in Account : OneAccount(n, e, a) => account[e] = a
    /\ reports[n].end = "accepted" \/ (\E e \in EventId : events[e] = n) =>
         \A x \in reports[n].tunnels :
           /\ snapshots[x] # 0 /\ snapshots[x] \notin reports[n].before
           /\ \A a \in Account : OneAccount(n, x, a) =>
                StatusOf(a, x) = snapshots[x] /\ x \in ActiveRoutes(a)

(* The requests of installation i's relay that are past the look-up of *)
(* their token.                                                        *)
AtWork(i) == {w \in Worker : \/ req[w].op = "ingest" /\ req[w].inst = i
                             \/ rep[w] # NotWriting /\ reports[rep[w].n].inst = i}

(* Once a revocation that no minting request overlapped is over, the only    *)
(* reports of the installation still written are those of requests that were *)
(* past the look-up of their token by then (runtime.go:47).                  *)
RevokedSendNoNewReports ==
  [][\A i \in settled \cap settled' : AtWork(i)' \subseteq AtWork(i)]_allVars
=============================================================================
