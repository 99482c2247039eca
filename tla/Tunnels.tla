------------------------------ MODULE Tunnels ------------------------------
(***************************************************************************)
(* Tunnels of customer accounts (CustomerService over                      *)
(* PostgresCustomerRepository).  A host name belongs to one tunnel: a      *)
(* request looks the name up in one statement and writes its row in        *)
(* another, and the UNIQUE constraint decides between requests that found  *)
(* the name free.  Ids are chosen by the client.                           *)
(***************************************************************************)
EXTENDS Naturals, FiniteSets

CONSTANTS
  Account, TunnelId,
  Host,          \* host names, lower case and without a trailing dot
  Worker,        \* goroutines serving requests
  NoAccount, NoTunnel,
  Blank,         \* the empty string
  CallsMayFail   \* may a statement fail, or a request be cancelled?

ASSUME TunnelsAssumption ==
  /\ Blank \notin Host /\ NoAccount \notin Account /\ NoTunnel \notin TunnelId
  /\ CallsMayFail \in BOOLEAN

VARIABLES
  tunnels,  \* the table
  req       \* what each worker is doing

vars == <<tunnels, req>>

(* The target, which stands for access as well, is written or empty;       *)
(* status, region, owner and risk are named by no request.                 *)
Tunnel == [account : Account, host : Host \cup {Blank}, target : {"written", "empty"}]
NoRow == [account |-> NoAccount, host |-> Blank, target |-> "empty"]

(* The members of a TunnelUpdateRequest. *)
Field == {"host", "target"}

Request ==
  [pc : {"idle", "checkNew", "insert", "checkChanged", "update"},
   account : Account \cup {NoAccount}, tunnel : TunnelId \cup {NoTunnel},
   host : Host \cup {Blank},
   named : SUBSET Field,
   overtaken : BOOLEAN,   \* history: another request wrote the host name meanwhile
   unread : BOOLEAN]      \* history: its look-up failed

Idle == [pc |-> "idle", account |-> NoAccount, tunnel |-> NoTunnel, host |-> Blank,
         named |-> {}, overtaken |-> FALSE, unread |-> FALSE]

Init ==
  /\ tunnels = [t \in TunnelId |-> NoRow]
  /\ req = [w \in Worker |-> Idle]

-----------------------------------------------------------------------------
(* The repository. *)

Stored(t) == tunnels[t] # NoRow

(* GetTunnelByID *)
GetTunnelByID(a, t) == Stored(t) /\ tunnels[t].account = a

(* GetTunnelByHostname finds no row. *)
Unclaimed(h) == \A t \in TunnelId : Stored(t) => tunnels[t].host # h

(* Mutant: a tunnel of the account itself is no conflict, as in ValidateTunnel. *)
OthersOnly(w) ==
  \A t \in TunnelId :
    Stored(t) /\ tunnels[t].account # req[w].account => tunnels[t].host # req[w].host

(* The service's test for a conflict. *)
NoConflict(w) == Unclaimed(req[w].host)

(* hostname is UNIQUE *)
HostIsFree(h, t) == \A x \in TunnelId \ {t} : Stored(x) => tunnels[x].host # h

(* INSERT with the client's id: refused when the id or the host is taken. *)
Insertable(w) == ~Stored(req[w].tunnel) /\ HostIsFree(req[w].host, req[w].tunnel)
InsertTunnel(w) ==
  tunnels' = [tunnels EXCEPT ![req[w].tunnel] =
    [account |-> req[w].account, host |-> req[w].host,
     target |-> "written"]]

(* UPDATE: COALESCE keeps a column for NULL, and none of its arguments is   *)
(* NULL: a member that was not named is the empty string.                   *)
HostWritten(w) == IF "host" \in req[w].named THEN req[w].host ELSE Blank
Updatable(w) ==
  /\ GetTunnelByID(req[w].account, req[w].tunnel)
  /\ HostIsFree(HostWritten(w), req[w].tunnel)
SetTunnel(w) ==
  tunnels' = [tunnels EXCEPT ![req[w].tunnel] =
    [account |-> @.account, host |-> HostWritten(w),
     target |-> IF "target" \in req[w].named THEN "written" ELSE "empty"]]

-----------------------------------------------------------------------------
Start(w, pc, a, t, h, named) ==
  /\ req[w].pc = "idle"
  /\ req' = [req EXCEPT ![w] = [pc |-> pc, account |-> a, tunnel |-> t, host |-> h,
                                named |-> named, overtaken |-> FALSE, unread |-> FALSE]]

(* Request w ends, having written host name h. *)
DoneWriting(w, h) ==
  req' = [x \in Worker |-> IF x = w THEN Idle
            ELSE IF req[x].pc # "idle" /\ req[x].host = h
                 THEN [req[x] EXCEPT !.overtaken = TRUE] ELSE req[x]]
Done(w) == req' = [req EXCEPT ![w] = Idle]

(* Mutant: an empty id is let through. *)
CreateUnnamed(w, a, t, h) ==
  /\ req[w].pc = "idle"
  /\ Start(w, "checkNew", a, IF h = Blank THEN Blank ELSE t, h, Field)
  /\ UNCHANGED tunnels

(* POST /tunnels: id, host, target and access are required (a host "." *)
(* passes, and is empty without its dot).                              *)
CreateTunnel(w, a, t, h) ==
  /\ Start(w, "checkNew", a, t, h, Field)
  /\ UNCHANGED tunnels

(* The host name is looked up: 409 when it is claimed.  An error of the    *)
(* query reads as "not claimed".  (A basic_auth tunnel without credentials *)
(* is refused here: it may stop as well.)                                  *)
CheckHost(w) ==
  /\ \/ req[w].pc = "checkNew"
     \/ req[w].pc = "checkChanged"
  /\ \E readable \in {TRUE, ~CallsMayFail} :
       IF readable /\ ~NoConflict(w)
       THEN Done(w)
       ELSE req' = [req EXCEPT ![w].pc = IF @ = "checkNew" THEN "insert" ELSE "update",
                               ![w].unread = ~readable]
  /\ UNCHANGED tunnels

(* 201, or 500 when a constraint refuses the row. *)
InsertRow(w) ==
  /\ req[w].pc = "insert"
  /\ IF Insertable(w) THEN InsertTunnel(w) /\ DoneWriting(w, req[w].host)
                      ELSE Done(w) /\ UNCHANGED tunnels

(* PUT /tunnels/{id} of the account, with the members it names; the host  *)
(* is looked up when it is not the one just read.                         *)
UpdateTunnel(w, a, t, h, named) ==
  /\ GetTunnelByID(a, t)
  /\ named # {}
  /\ Start(w, IF "host" \in named /\ h # tunnels[t].host THEN "checkChanged" ELSE "update",
           a, t, h, named)
  /\ UNCHANGED tunnels

(* 200, or 500 when the row is gone or the constraint refuses it. *)
UpdateRow(w) ==
  /\ req[w].pc = "update"
  /\ IF Updatable(w) THEN SetTunnel(w) /\ DoneWriting(w, HostWritten(w))
                     ELSE Done(w) /\ UNCHANGED tunnels

(* DELETE /tunnels/{id}: both statements name the account, so a row that   *)
(* the first one does not find is not deleted by the second.               *)
DeleteTunnel(w, a, t) ==
  /\ req[w].pc = "idle"
  /\ GetTunnelByID(a, t)
  /\ tunnels' = [tunnels EXCEPT ![t] = NoRow]
  /\ UNCHANGED req

(* A validation fails, a statement fails, or the request is cancelled. *)
Stop(w) ==
  /\ req[w].pc # "idle"
  /\ CallsMayFail
  /\ Done(w)
  /\ UNCHANGED tunnels

Next ==
  \E w \in Worker :
    \/ \E a \in Account, t \in TunnelId :
         \/ \E h \in Host \cup {Blank} :
              \/ CreateTunnel(w, a, t, h)
              \/ \E named \in SUBSET Field : UpdateTunnel(w, a, t, h, named)
         \/ DeleteTunnel(w, a, t)
    \/ CheckHost(w) \/ InsertRow(w) \/ UpdateRow(w) \/ Stop(w)

Spec == Init /\ [][Next]_vars

-----------------------------------------------------------------------------
(* Properties *)

(* The table and the requests have the shapes above. *)
TypeOK ==
  /\ tunnels \in [TunnelId -> Tunnel \cup {NoRow}]
  /\ req \in [Worker -> Request]

(* Of the requests for one host name the first to write it wins: no two     *)
(* tunnels have one host name, and a request that is past its check meets a *)
(* taken name only when another request wrote the name since, or when its   *)
(* look-up failed (customer_service.go:98 and :149, before the statements   *)
(* at :126, :179).  In these two cases the code parts from the edge case of *)
(* specs/tunnel-management-api/spec.md:146, "First write wins, second gets  *)
(* 409": the constraint refuses the second write and the answer is 500.     *)
HostsAreHeld ==
  /\ \A s, t \in TunnelId : Stored(s) /\ Stored(t) /\ tunnels[s].host = tunnels[t].host => s = t
  /\ \A w \in Worker :
       /\ req[w].pc \in {"insert", "update"}
       /\ "host" \in req[w].named
       /\ ~HostIsFree(req[w].host, req[w].tunnel)
       => req[w].overtaken \/ req[w].unread

(* An update leaves alone what its request does not name                    *)
(* (specs/tunnel-management-api/spec.md:175, "All fields optional (omit =   *)
(* no change)").                                                            *)
UnnamedFieldsAreKept ==
  [][\A t \in TunnelId, w \in Worker :
       req[w].pc = "update" /\ req[w].tunnel = t /\ Stored(t) /\ tunnels'[t] # tunnels[t]
         /\ req'[w].pc = "idle"
       => /\ "host" \notin req[w].named => tunnels'[t].host = tunnels[t].host
          /\ "target" \notin req[w].named => tunnels'[t].target = tunnels[t].target]_vars
=============================================================================
