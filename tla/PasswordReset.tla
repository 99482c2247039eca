---------------------------- MODULE PasswordReset ----------------------------
(***************************************************************************)
(* Resetting a forgotten password (PasswordResetService over the Postgres  *)
(* password reset and auth repositories).  A request creates a token after *)
(* two rate-limit counts, in the only transaction of the service; a reset  *)
(* looks the token up, checks the history, replaces the password, verifies *)
(* the user and only then marks the token as used, each in a statement of  *)
(* its own.  Most statements' errors are dropped and the method goes on.   *)
(***************************************************************************)
EXTENDS Naturals, FiniteSets, Sequences

CONSTANTS
  User, IP, Password,
  TokenId,       \* rows of password_reset_tokens ever created
  NoUser, NoTok, NoIP, NoPassword,
  Worker,        \* goroutines serving requests
  FirstPassword, \* what users registered with
  TTL,           \* life of a reset token (15 minutes)
  Window,        \* the rate limits count this far back (one hour)
  EmailLimit,    \* tokens per user in the window (5)
  IPLimit,       \* tokens per address in the window (20)
  HistoryCheck,  \* former passwords a reset may not choose (5)
  HistoryKeep,   \* former passwords the cleanup trigger keeps (10)
  MaxFailures,   \* bound on the statements that fail
  MaxTime        \* bound on the clock

ASSUME ResetAssumption ==
  /\ NoUser \notin User /\ NoTok \notin TokenId /\ NoIP \notin IP /\ NoPassword \notin Password
  /\ FirstPassword \in Password
  /\ IsFiniteSet(Worker) /\ IsFiniteSet(TokenId)
  /\ TTL \in Nat /\ Window \in Nat /\ EmailLimit \in Nat /\ IPLimit \in Nat
  /\ HistoryCheck \in Nat /\ HistoryKeep \in Nat \ {0} /\ HistoryCheck <= HistoryKeep
  /\ MaxTime \in Nat /\ MaxFailures \in Nat

VARIABLES
  now,       \* the clock
  rows,      \* password_reset_tokens
  password,  \* user_credentials.password_hash
  history,   \* password_history of each user, the newest first
  verified,  \* the users with a verified_at
  failures,  \* the statements that failed so far
  req        \* what each worker is doing

vars == <<now, rows, password, history, verified, failures, req>>

Row == [user : User, ip : IP, created : Nat, exp : Nat, used : BOOLEAN,
        uses : Nat,       \* history: the password changes it paid for
        lost : BOOLEAN,   \* history: marking it as used once failed
        blind : BOOLEAN]  \* history: a count of its request failed
NoRow == [user |-> NoUser, ip |-> NoIP, created |-> 0, exp |-> 0, used |-> TRUE,
          uses |-> 0, lost |-> FALSE, blind |-> FALSE]

Request ==
  [pc    : {"idle", "countUser", "countIP", "sweep", "commit",
            "checkHistory", "readOld", "saveOld", "update", "verify", "mark"},
   user  : User \cup {NoUser},
   ip    : IP \cup {NoIP},
   start : Nat,                       \* the time of the request, or of its transaction
   exp   : Nat,                       \* the expiry of the token it creates
   swept : SUBSET TokenId,            \* the tokens its transaction invalidates
   tok   : TokenId \cup {NoTok},      \* the token presented
   new   : Password \cup {NoPassword},
   old   : Password \cup {NoPassword},
   failed  : BOOLEAN,                 \* history: one of its statements failed
   overlap : BOOLEAN]                 \* it ran alongside another of its user

Idle == [pc |-> "idle", user |-> NoUser, ip |-> NoIP, start |-> 0, exp |-> 0, swept |-> {},
         tok |-> NoTok, new |-> NoPassword, old |-> NoPassword, failed |-> FALSE, overlap |-> FALSE]

Init ==
  /\ now = 0
  /\ rows = [t \in TokenId |-> NoRow]
  /\ password = [u \in User |-> FirstPassword]
  /\ history = [u \in User |-> <<>>]
  /\ verified = {}
  /\ failures = 0
  /\ req = [w \in Worker |-> Idle]

-----------------------------------------------------------------------------
Unused(u) == {t \in TokenId : rows[t].user = u /\ ~rows[t].used}

(* FindByTokenHash *)
Open(t) == ~rows[t].used /\ now < rows[t].exp

(* Mutant: only the unused tokens count. *)
RecentUnused(t, start) == ~rows[t].used /\ rows[t].created + Window > start

(* CountRecentByUserID and CountRecentByIP, since the request's start less *)
(* the window: rows count whether or not they were used.                   *)
Recent(t, start) == rows[t] # NoRow /\ rows[t].created + Window > start
CountByUser(u, start) == Cardinality({t \in TokenId : rows[t].user = u /\ Recent(t, start)})
CountByIP(a, start)   == Cardinality({t \in TokenId : rows[t].ip = a /\ Recent(t, start)})

(* GetPasswordHistory: the newest of the user's former passwords. *)
Latest(s, n) == {s[k] : k \in {j \in 1 .. Len(s) : j <= n}}

(* Mutant: the trigger is not there. *)
RememberAll(p, s, n) == <<p>> \o s

(* INSERT into password_history and its cleanup trigger, which keeps the    *)
(* HistoryKeep newest of the rows it sees: n rows that inserts at the same  *)
(* time have not committed yet are hidden from it and stay as well.         *)
Remember(p, s, n) ==
  SubSeq(<<p>> \o s, 1, IF Len(s) < HistoryKeep + n THEN Len(s) + 1 ELSE HistoryKeep + n)

(* How many rows an insert of worker w may not see. *)
Hidden(w) == 0 .. (IF req[w].overlap THEN Cardinality(Worker) - 1 ELSE 0)

(* Worker w starts for a user; it and the workers at work for the user overlap. *)
Start(w, r) ==
  LET beside == {x \in Worker : req[x].user = r.user}
  IN /\ req[w].pc = "idle"
     /\ req' = [x \in Worker |-> IF x = w THEN [r EXCEPT !.overlap = beside # {}]
                                 ELSE IF x \in beside THEN [req[x] EXCEPT !.overlap = TRUE]
                                 ELSE req[x]]

GoOn(w, pc) == req' = [req EXCEPT ![w].pc = pc]
Done(w)     == req' = [req EXCEPT ![w] = Idle]

-----------------------------------------------------------------------------
(* RequestReset of a known address; for an unknown one nothing happens. *)
RequestReset(w, u, a) ==
  /\ Start(w, [Idle EXCEPT !.pc = "countUser", !.user = u, !.ip = a, !.start = now])
  /\ UNCHANGED <<now, rows, password, history, verified, failures>>

CountUser(w) ==
  /\ req[w].pc = "countUser"
  /\ IF CountByUser(req[w].user, req[w].start) >= EmailLimit THEN Done(w) ELSE GoOn(w, "countIP")
  /\ UNCHANGED <<now, rows, password, history, verified, failures>>

(* The bound on tokens: a request with no row left ends like one over the limit. *)
CanMint == Cardinality({x \in Worker : req[x].pc \in {"sweep", "commit"}})
             < Cardinality({t \in TokenId : rows[t] = NoRow})

(* With the second count passed the expiry of the new token is set. *)
CountIP(w) ==
  /\ req[w].pc = "countIP"
  /\ IF CountByIP(req[w].ip, req[w].start) >= IPLimit \/ ~CanMint THEN Done(w)
     ELSE req' = [req EXCEPT ![w].pc = "sweep", ![w].exp = now + TTL]
  /\ UNCHANGED <<now, rows, password, history, verified, failures>>

(* Mutant: the earlier tokens stay as they are. *)
SweepNothing(w) ==
  /\ req[w].pc = "sweep"
  /\ req' = [req EXCEPT ![w].pc = "commit", ![w].start = now]
  /\ UNCHANGED <<now, rows, password, history, verified, failures>>

(* CreateToken begins and runs its UPDATE: the snapshot of the statement    *)
(* decides which tokens it invalidates, and tokens committed by another     *)
(* transaction later are not among them.  (A row another transaction holds  *)
(* only makes it wait.)  The clock of the transaction stops here.           *)
Sweep(w) ==
  /\ req[w].pc = "sweep"
  /\ req' = [req EXCEPT ![w].pc = "commit", ![w].start = now, ![w].swept = Unused(req[w].user)]
  /\ UNCHANGED <<now, rows, password, history, verified, failures>>

(* Its INSERT and its commit, which makes both visible. *)
CreateToken(w) ==
  /\ req[w].pc = "commit"
  /\ \E t \in TokenId :
       /\ rows[t] = NoRow
       /\ rows' = [x \in TokenId |->
            IF x = t THEN [user |-> req[w].user, ip |-> req[w].ip, created |-> req[w].start,
                           exp |-> req[w].exp, used |-> FALSE, uses |-> 0, lost |-> FALSE,
                           blind |-> req[w].failed]
            ELSE IF x \in req[w].swept THEN [rows[x] EXCEPT !.used = TRUE]
            ELSE rows[x]]
  /\ Done(w)
  /\ UNCHANGED <<now, password, history, verified, failures>>

-----------------------------------------------------------------------------
(* Mutant: a used token is still found. *)
ResetIgnoringUse(w, t, p) ==
  /\ rows[t] # NoRow /\ now < rows[t].exp
  /\ Start(w, [Idle EXCEPT !.pc = "checkHistory", !.user = rows[t].user,
                           !.tok = t, !.new = p])
  /\ UNCHANGED <<now, rows, password, history, verified, failures>>

(* ResetPassword of a token found unused and unexpired, with a password *)
(* that passes validation and breach check.                             *)
ResetPassword(w, t, p) ==
  /\ rows[t] # NoRow /\ Open(t)
  /\ Start(w, [Idle EXCEPT !.pc = "checkHistory", !.user = rows[t].user,
                           !.tok = t, !.new = p])
  /\ UNCHANGED <<now, rows, password, history, verified, failures>>

CheckHistory(w) ==
  /\ req[w].pc = "checkHistory"
  /\ IF req[w].new \in Latest(history[req[w].user], HistoryCheck) THEN Done(w) ELSE GoOn(w, "readOld")
  /\ UNCHANGED <<now, rows, password, history, verified, failures>>

(* UpdatePasswordHash reads the current hash, ... *)
ReadOld(w) ==
  /\ req[w].pc = "readOld"
  /\ req' = [req EXCEPT ![w].pc = "saveOld", ![w].old = password[req[w].user]]
  /\ UNCHANGED <<now, rows, password, history, verified, failures>>

(* Mutant: the password that comes is remembered, not the one that goes. *)
SaveNew(w) ==
  /\ req[w].pc = "saveOld"
  /\ \E n \in Hidden(w) : history' = [history EXCEPT ![req[w].user] = Remember(req[w].new, @, n)]
  /\ GoOn(w, "update")
  /\ UNCHANGED <<now, rows, password, verified, failures>>

(* ... adds it to the history ... *)
SaveOld(w) ==
  /\ req[w].pc = "saveOld"
  /\ \E n \in Hidden(w) : history' = [history EXCEPT ![req[w].user] = Remember(req[w].old, @, n)]
  /\ GoOn(w, "update")
  /\ UNCHANGED <<now, rows, password, verified, failures>>

(* ... and replaces it. *)
UpdatePasswordHash(w) ==
  LET t == req[w].tok
  IN /\ req[w].pc = "update"
     /\ password' = [password EXCEPT ![req[w].user] = req[w].new]
     /\ rows' = IF rows[t].lost THEN rows ELSE [rows EXCEPT ![t].uses = @ + 1]
     /\ GoOn(w, "verify")
     /\ UNCHANGED <<now, history, verified, failures>>

SetVerified(w) ==
  /\ req[w].pc = "verify"
  /\ verified' = verified \cup {req[w].user}
  /\ GoOn(w, "mark")
  /\ UNCHANGED <<now, rows, password, history, failures>>

MarkUsed(w) ==
  /\ req[w].pc = "mark"
  /\ rows' = [rows EXCEPT ![req[w].tok].used = TRUE]
  /\ Done(w)
  /\ UNCHANGED <<now, password, history, verified, failures>>

(* Where a method goes on when its statement at pc fails: a failed count or *)
(* history query finds nothing, a failed transaction or update ends it, and *)
(* the other errors are dropped.                                            *)
AfterFailure ==
  [countUser |-> "countIP", countIP |-> "sweep", sweep |-> "idle", commit |-> "idle",
   checkHistory |-> "readOld", readOld |-> "update", saveOld |-> "update",
   update |-> "idle", verify |-> "mark", mark |-> "idle"]

Fail(w) ==
  /\ failures < MaxFailures
  /\ failures' = failures + 1
  /\ req[w].pc # "idle"
  /\ IF AfterFailure[req[w].pc] = "idle" \/ (req[w].pc = "countIP" /\ ~CanMint) THEN Done(w)
     ELSE req' = [req EXCEPT ![w].pc = AfterFailure[@], ![w].failed = TRUE,
                             ![w].exp = IF req[w].pc = "countIP" THEN now + TTL ELSE @]
  /\ rows' = IF req[w].pc = "mark" THEN [rows EXCEPT ![req[w].tok].lost = TRUE] ELSE rows
  /\ UNCHANGED <<now, password, history, verified>>

Tick ==
  /\ now < MaxTime
  /\ now' = now + 1
  /\ UNCHANGED <<rows, password, history, verified, failures, req>>

-----------------------------------------------------------------------------
Progress(w) ==
  \/ CountUser(w) \/ CountIP(w) \/ Sweep(w) \/ CreateToken(w)
  \/ CheckHistory(w) \/ ReadOld(w) \/ SaveOld(w) \/ UpdatePasswordHash(w)
  \/ SetVerified(w) \/ MarkUsed(w)

Next ==
  \/ Tick
  \/ \E w \in Worker :
       \/ \E u \in User, a \in IP : RequestReset(w, u, a)
       \/ \E t \in TokenId, p \in Password : ResetPassword(w, t, p)
       \/ Progress(w)
       \/ Fail(w)

Spec == Init /\ [][Next]_vars

-----------------------------------------------------------------------------
(* Every variable has its type; the cleanup trigger keeps the history of a  *)
(* user short, by one row more for each other reset at a time.              *)
TypeOK ==
  /\ now \in 0 .. MaxTime
  /\ rows \in [TokenId -> Row \cup {NoRow}]
  /\ password \in [User -> Password]
  /\ history \in [User -> Seq(Password)]
  /\ \A u \in User : Len(history[u]) < HistoryKeep + Cardinality(Worker)
  /\ verified \subseteq User
  /\ failures \in 0 .. MaxFailures
  /\ req \in [Worker -> Request]

(* However requests interleave, a user never has more unused tokens than    *)
(* there were requests at a time: each transaction invalidates what was     *)
(* committed before its UPDATE, so none leaves two tokens of one goroutine. *)
OpenTokensBounded == \A u \in User : Cardinality(Unused(u)) <= Cardinality(Worker)

(* A request that ran alone for its user leaves its own token as the user's *)
(* only unused one.                                                         *)
QuietRequestLeavesOne ==
  [][\A w \in Worker, u \in User :
       req[w].pc = "commit" /\ req[w].user = u /\ ~req[w].overlap
       /\ req'[w] # req[w] /\ rows' # rows
         => Cardinality(Unused(u)') = 1]_vars

(* The rate limits are checked before the token is inserted, so requests at *)
(* the same time may all pass: still, in no window of time are more tokens  *)
(* created for a user, or from an address, than the limit and one for each  *)
(* other request at a time.  (Tokens whose count failed are not limited.)   *)
CreatedUpTo(s, t) ==
  {x \in s : ~rows[x].blind /\ rows[x].created <= rows[t].created
               /\ rows[x].created + Window > rows[t].created}

RequestsAreLimited ==
  \A t \in {x \in TokenId : rows[x] # NoRow} :
    /\ Cardinality(CreatedUpTo({x \in TokenId : rows[x].user = rows[t].user}, t))
         < EmailLimit + Cardinality(Worker)
    /\ Cardinality(CreatedUpTo({x \in TokenId : rows[x].ip = rows[t].ip}, t))
         < IPLimit + Cardinality(Worker)

(* A token is marked as used last, after the password is replaced: it pays  *)
(* for as many resets as there were goroutines past the lookup, but, unless *)
(* the mark is lost, for no more.                                           *)
ResetsBounded == \A t \in TokenId : rows[t].uses <= Cardinality(Worker)

(* A reset that ran alone and whole puts the password it replaces at the    *)
(* head of the history, and chose none of the HistoryCheck passwords that   *)
(* were replaced before that one.                                           *)
QuietResetKeepsHistory ==
  [][\A w \in Worker :
       LET r == req[w]
       IN r.pc = "update" /\ req'[w].pc = "verify" /\ ~r.overlap /\ ~r.failed
            => /\ history[r.user][1] = password[r.user]
               /\ r.new \notin Latest(Tail(history[r.user]), HistoryCheck)]_vars
=============================================================================
