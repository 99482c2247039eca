------------------------------ MODULE Startup ------------------------------
(***************************************************************************)
(* The life of a control-plane process: main connects, applies the         *)
(* migrations of internal/db/migrations in file-name order, seeds and      *)
(* serves; every error, and every crash, ends the process, which its       *)
(* supervisor starts again ("restart: unless-stopped").  Processes that    *)
(* overlap share the database.  A migration's file is one statement batch, *)
(* so it takes effect as a whole, but its record is a statement of its     *)
(* own.  What a process keeps in memory, the signup limiter's buckets, is  *)
(* composed in: a restart forgets it.                                      *)
(***************************************************************************)
EXTENDS RateLimiter

CONSTANTS
  Process,
  Migrations,   \* how many files there are
  Fragile,      \* those whose statements fail when they have been applied
                \* (CREATE TABLE, INDEX, TRIGGER without IF NOT EXISTS)
  Seeds,        \* how many tunnels Seed inserts
  Handler,      \* goroutines of a process serving signup requests of one key
  NoTime,
  MaxDeaths,    \* bound on crashes and on statements that fail
  MaxTime       \* bound on the clock

ASSUME StartupAssumption ==
  /\ Migrations \in Nat /\ Seeds \in Nat /\ MaxDeaths \in Nat /\ MaxTime \in Nat
  /\ Fragile \subseteq 1 .. Migrations /\ NoTime \notin Nat
  /\ IsFiniteSet(Handler) /\ Handler # {}

VARIABLES
  now,       \* the clock
  pc, at,    \* where each process is, and at which migration or seed
  applied,   \* the migrations that have taken effect
  recorded,  \* schema_migrations
  seeds,     \* the seeded tunnels' rows
  bucket,    \* the limiter's entries of each process
  arrived,   \* when the request each handler is working on read the clock
  deaths,
  lives,     \* history: how many limiters each process has made
  admitted   \* history: the entries of all requests it has admitted

dbVars == <<applied, recorded, seeds>>
limiterVars == <<bucket, arrived, lives, admitted>>
startupVars == <<now, pc, at, dbVars, limiterVars, deaths>>

(* The time a request read from the clock, which is all that the limiter     *)
(* compares; life and nth tell the entries of the same time apart.           *)
Entry == [at : 0 .. MaxTime, life : Nat, nth : Nat]

StartupInit ==
  /\ now = 0
  /\ pc = [p \in Process |-> "down"] /\ at = [p \in Process |-> 0]
  /\ applied = {} /\ recorded = {}
  /\ seeds = [s \in 1 .. Seeds |-> "absent"]
  /\ bucket = [p \in Process |-> {}]
  /\ arrived = [p \in Process |-> [h \in Handler |-> NoTime]]
  /\ deaths = 0
  /\ lives = [p \in Process |-> 0] /\ admitted = [p \in Process |-> {}]

-----------------------------------------------------------------------------
GoTo(p, label, n) == pc' = [pc EXCEPT ![p] = label] /\ at' = [at EXCEPT ![p] = n]
Exit(p) == GoTo(p, "down", 0)

(* Connect, and CREATE TABLE IF NOT EXISTS schema_migrations. *)
Connect(p) ==
  /\ pc[p] = "down"
  /\ GoTo(p, "check", 1)
  /\ UNCHANGED <<now, dbVars, limiterVars, deaths>>

(* Mutant: the loop runs once too often. *)
CheckOneMore(p) ==
  /\ pc[p] = "check"
  /\ CASE at[p] > Migrations + 1 -> GoTo(p, "seed", 1)
       [] at[p] \in recorded -> GoTo(p, "check", at[p] + 1)
       [] OTHER -> GoTo(p, "body", at[p])
  /\ UNCHANGED <<now, dbVars, limiterVars, deaths>>

(* Apply: is the migration recorded? *)
CheckMigration(p) ==
  /\ pc[p] = "check"
  /\ CASE at[p] > Migrations -> GoTo(p, "seed", 1)
       [] at[p] \in recorded -> GoTo(p, "check", at[p] + 1)
       [] OTHER -> GoTo(p, "body", at[p])
  /\ UNCHANGED <<now, dbVars, limiterVars, deaths>>

(* Its file is executed ... *)
ApplyBody(p) ==
  /\ pc[p] = "body"
  /\ IF at[p] \in Fragile \cap applied
     THEN Exit(p) /\ UNCHANGED applied
     ELSE applied' = applied \cup {at[p]} /\ GoTo(p, "record", at[p])
  /\ UNCHANGED <<now, recorded, seeds, limiterVars, deaths>>

(* ... and its name recorded, once: version is the primary key. *)
RecordMigration(p) ==
  /\ pc[p] = "record"
  /\ IF at[p] \in recorded
     THEN Exit(p) /\ UNCHANGED recorded
     ELSE recorded' = recorded \cup {at[p]} /\ GoTo(p, "check", at[p] + 1)
  /\ UNCHANGED <<now, applied, seeds, limiterVars, deaths>>

(* Mutant: a row that is there is an error. *)
SeedOnce(p) ==
  /\ pc[p] = "seed" /\ at[p] <= Seeds
  /\ IF seeds[at[p]] # "absent"
     THEN Exit(p) /\ UNCHANGED seeds
     ELSE seeds' = [seeds EXCEPT ![at[p]] = "present"] /\ GoTo(p, "seed", at[p] + 1)
  /\ UNCHANGED <<now, applied, recorded, limiterVars, deaths>>

(* Seed: ON CONFLICT (id) DO NOTHING forgives a row that is there, but not  *)
(* a host name that another tunnel has; of processes that insert one row at *)
(* the same time, those that come second may meet the host name first, and  *)
(* exit.                                                                    *)
SeedRow(p) ==
  /\ pc[p] = "seed" /\ at[p] <= Seeds
  /\ \/ seeds[at[p]] = "claimed" /\ Exit(p) /\ UNCHANGED seeds
     \/ seeds[at[p]] = "present" /\ GoTo(p, "seed", at[p] + 1) /\ UNCHANGED seeds
     \/ /\ seeds[at[p]] = "absent"
        /\ seeds' = [seeds EXCEPT ![at[p]] = "present"]
        /\ \E second \in SUBSET {q \in Process \ {p} : pc[q] = "seed" /\ at[q] = at[p]} :
             /\ pc' = [q \in Process |-> IF q \in second THEN "down" ELSE pc[q]]
             /\ at' = [q \in Process |-> IF q = p THEN at[p] + 1
                                         ELSE IF q \in second THEN 0 ELSE at[q]]
  /\ UNCHANGED <<now, applied, recorded, limiterVars, deaths>>

(* NewRouter, with new limiters, and ListenAndServe. *)
Serve(p) ==
  /\ pc[p] = "seed" /\ at[p] > Seeds
  /\ GoTo(p, "serving", 0)
  /\ lives' = [lives EXCEPT ![p] = @ + 1]
  /\ UNCHANGED <<now, dbVars, bucket, arrived, admitted, deaths>>

(* A statement fails, or the process crashes; its memory is gone. *)
Die(p) ==
  /\ deaths < MaxDeaths
  /\ pc[p] # "down"
  /\ deaths' = deaths + 1
  /\ Exit(p)
  /\ bucket' = [bucket EXCEPT ![p] = {}]
  /\ arrived' = [arrived EXCEPT ![p] = [h \in Handler |-> NoTime]]
  /\ UNCHANGED <<now, dbVars, lives, admitted>>

(* Through a process that serves, a seeded tunnel is deleted, and its host *)
(* name taken or given up by a tunnel with another id.                     *)
EditTunnels(s) ==
  /\ \E p \in Process : pc[p] = "serving"
  /\ \/ seeds[s] = "present" /\ seeds' = [seeds EXCEPT ![s] = "absent"]
     \/ seeds[s] = "absent"  /\ seeds' = [seeds EXCEPT ![s] = "claimed"]
     \/ seeds[s] = "claimed" /\ seeds' = [seeds EXCEPT ![s] = "absent"]
  /\ UNCHANGED <<now, pc, at, applied, recorded, limiterVars, deaths>>

(* The signup handlers of one key, SignupRequest or SignupVerify: a request  *)
(* reads the clock ...                                                       *)
Arrive(p, h) ==
  /\ pc[p] = "serving"
  /\ arrived[p][h] = NoTime
  /\ arrived' = [arrived EXCEPT ![p][h] = now]
  /\ UNCHANGED <<now, pc, at, dbVars, bucket, lives, admitted, deaths>>

(* ... and gets the mutex of the limiter: it is served, or answered 429. *)
Decide(p, h) ==
  LET t == arrived[p][h]
      same == {e \in admitted[p] : e.at = t /\ e.life = lives[p]}
      entry == [at |-> t, life |-> lives[p], nth |-> Cardinality(same)]
  IN /\ t # NoTime
     /\ bucket' = [bucket EXCEPT ![p] = Allow(@, entry)]
     /\ admitted' = [admitted EXCEPT ![p] = @ \cup IF Admits(bucket[p], t) THEN {entry} ELSE {}]
     /\ arrived' = [arrived EXCEPT ![p][h] = NoTime]
     /\ UNCHANGED <<now, pc, at, dbVars, lives, deaths>>

Tick ==
  /\ now < MaxTime
  /\ now' = now + 1
  /\ UNCHANGED <<pc, at, dbVars, limiterVars, deaths>>

Advance(p) ==
  Connect(p) \/ CheckMigration(p) \/ ApplyBody(p) \/ RecordMigration(p) \/ SeedRow(p) \/ Serve(p)

StartupNext ==
  \/ \E p \in Process :
       Advance(p) \/ Die(p) \/ \E h \in Handler : Arrive(p, h) \/ Decide(p, h)
  \/ \E s \in 1 .. Seeds : EditTunnels(s)
  \/ Tick

(* Statements are answered, and the supervisor restarts what has ended. *)
StartupSpec ==
  StartupInit /\ [][StartupNext]_startupVars /\ \A p \in Process : WF_startupVars(Advance(p))

-----------------------------------------------------------------------------
(* Properties *)

(* The variables have the shapes above. *)
StartupTypeOK ==
  /\ now \in 0 .. MaxTime /\ deaths \in 0 .. MaxDeaths
  /\ pc \in [Process -> {"down", "check", "body", "record", "seed", "serving"}]
  /\ at \in [Process -> Nat]
  /\ applied \subseteq 1 .. Migrations /\ recorded \subseteq applied
  /\ seeds \in [1 .. Seeds -> {"absent", "present", "claimed"}]
  /\ lives \in [Process -> Nat]
  /\ bucket \in [Process -> SUBSET Entry] /\ admitted \in [Process -> SUBSET Entry]
  /\ arrived \in [Process -> [Handler -> 0 .. MaxTime \cup {NoTime}]]

Serving(p) == pc[p] = "serving"

(* A process died between a fragile migration and its record: the file now  *)
(* fails at every start (migrate.go:55, :58).                               *)
Torn ==
  \E m \in (Fragile \cap applied) \ recorded :
    \A p \in Process : ~(pc[p] = "record" /\ at[p] = m)

(* The host name of a seeded tunnel belongs to another one: the seed fails   *)
(* at every start (seed.go:14).                                              *)
Blocked == \E s \in 1 .. Seeds : seeds[s] = "claimed"

(* A process that serves has its whole schema, ... *)
ServesWholeSchema ==
  \A p \in Process : Serving(p) => applied = 1 .. Migrations /\ recorded = applied

(* ... and whatever dies, and whichever processes race for a migration, some *)
(* process serves again and again, unless one of the two states above is     *)
(* reached.                                                                  *)
StartupRecovers ==
  /\ []ServesWholeSchema
  /\ []<>(Torn \/ Blocked \/ \E p \in Process : Serving(p))

(* Of the requests of one key that read the clock within one window, a       *)
(* process admits the limit, and at most one more for each other request at  *)
(* work, which may have read the clock before a later one emptied the bucket *)
(* (ratelimit.go:30); each restart adds as many again.                       *)
AdmissionsBounded ==
  \A p \in Process, t \in 0 .. MaxTime :
    Cardinality({e \in admitted[p] : e.at \in t - Window + 1 .. t})
      <= lives[p] * (Limit + Cardinality(Handler) - 1)
=============================================================================
