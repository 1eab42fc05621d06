--------------------------- MODULE ServerDatabase ---------------------------
(***************************************************************************)
(* How requests of the API server get their database                       *)
(* (apps/server/src/index.ts, the second middleware of createApp, and      *)
(* packages/core/src/db/migrate.ts): the first request without a D1        *)
(* binding opens the local database, requests that come meanwhile wait for *)
(* the same promise, a failed opening is forgotten, and with               *)
(* AUTO_MIGRATE=1 every request applies the migrations it finds.           *)
(*                                                                         *)
(* A request runs without interruption from one await to the next: up to   *)
(* the promise of the adapter, from there into its handler (migrating on   *)
(* its way: drizzle's migrator is synchronous for bun:sqlite), and to its  *)
(* answer.  Opening the file and setting its PRAGMAs is one such step, the *)
(* constructor of BunSqliteAdapter (db/adapters/bun-sqlite.ts).            *)
(***************************************************************************)
EXTENDS Naturals

CONSTANTS
    Requests,       \* clients, each with one request at a time
    MaxOpenings,    \* times the database is opened (a bound)
    MaxFaults,      \* openings and migrations that fail (a bound)
    LatestVersion,  \* migrations that may come into the folder (a bound)
    AutoMigrate     \* is AUTO_MIGRATE 1?

ASSUME ServerAssumption ==
    /\ MaxOpenings \in Nat
    /\ MaxFaults \in Nat
    /\ LatestVersion \in Nat
    /\ AutoMigrate \in BOOLEAN

Openings == 1 .. MaxOpenings

OpeningState ==
    {"none", "pending", "open",
     "failed",      \* it threw, and has no handle
     "leaked"}      \* it threw with the file open: the handle lives on, and
                    \* no variable of the program refers to it

VARIABLES
    adapterPromise, \* localAdapterPromise: the opening it stands for, or 0
    opening,        \* how the openings stand
    at,             \* where a request is
    waitsFor,       \* the opening whose promise a request awaits
    folder,         \* migrations in the folder
    schema,         \* migrations applied to the database file
    due,            \* history: migrations in the folder when a request came
    unmigrated,     \* history: requests whose migration failed
    faults

serverVars ==
    <<adapterPromise, opening, at, waitsFor, folder, schema, due, unmigrated, faults>>

ServerTypeOK ==
    /\ adapterPromise \in Openings \cup {0}
    /\ opening \in [Openings -> OpeningState]
    /\ at \in [Requests -> {"idle", "waiting", "handler", "failed"}]
    /\ waitsFor \in [Requests -> Openings \cup {0}]
    /\ \A r \in Requests :
          at[r] = "waiting" => waitsFor[r] \in {k \in Openings : opening[k] # "none"}
    /\ folder \in 0 .. LatestVersion
    /\ schema \in 0 .. LatestVersion
    /\ due \in [Requests -> 0 .. LatestVersion]
    /\ unmigrated \subseteq Requests
    /\ faults \in 0 .. MaxFaults

ServerInit ==
    /\ adapterPromise = 0
    /\ opening = [k \in Openings |-> "none"]
    /\ at = [r \in Requests |-> "idle"]
    /\ waitsFor = [r \in Requests |-> 0]
    /\ folder \in 0 .. LatestVersion
    /\ schema \in 0 .. folder
    /\ due = [r \in Requests |-> 0]
    /\ unmigrated = {}
    /\ faults = 0

Fault ==
    /\ faults < MaxFaults
    /\ faults' = faults + 1

NextOpening(k) ==
    /\ opening[k] = "none"
    /\ \A i \in Openings : i < k => opening[i] # "none"

\* (Mutation) The adapter is kept once it is open, and not while it is opened.
AwaitWithoutSharing(r) ==
    IF adapterPromise # 0 /\ opening[adapterPromise] = "open"
    THEN /\ waitsFor' = [waitsFor EXCEPT ![r] = adapterPromise]
         /\ UNCHANGED <<adapterPromise, opening>>
    ELSE \E k \in Openings :
            /\ NextOpening(k)
            /\ opening' = [opening EXCEPT ![k] = "pending"]
            /\ adapterPromise' = k
            /\ waitsFor' = [waitsFor EXCEPT ![r] = k]

\* (Mutation) The request that opens the database does not await it.
OpenWithoutAwait(r) ==
    IF adapterPromise # 0
    THEN /\ waitsFor' = [waitsFor EXCEPT ![r] = adapterPromise]
         /\ UNCHANGED <<adapterPromise, opening>>
    ELSE \E k \in Openings :
            /\ NextOpening(k)
            /\ opening' = [opening EXCEPT ![k] = "pending"]
            /\ adapterPromise' = k
            /\ UNCHANGED waitsFor

\* localAdapterPromise ??= createDbAdapter(...)
AwaitAdapter(r) ==
    IF adapterPromise # 0
    THEN /\ waitsFor' = [waitsFor EXCEPT ![r] = adapterPromise]
         /\ UNCHANGED <<adapterPromise, opening>>
    ELSE \E k \in Openings :
            /\ NextOpening(k)
            /\ opening' = [opening EXCEPT ![k] = "pending"]
            /\ adapterPromise' = k
            /\ waitsFor' = [waitsFor EXCEPT ![r] = k]

Arrive(r) ==
    /\ at[r] = "idle"
    /\ AwaitAdapter(r)
    /\ at' = [at EXCEPT ![r] = "waiting"]
    /\ due' = [due EXCEPT ![r] = folder]
    /\ unmigrated' = unmigrated \ {r}
    /\ UNCHANGED <<folder, schema, faults>>

\* The constructor: the file is opened and all three PRAGMAs are set.
Opens(k) ==
    /\ opening[k] = "pending"
    /\ opening' = [opening EXCEPT ![k] = "open"]
    /\ UNCHANGED <<adapterPromise, at, waitsFor, folder, schema, due, unmigrated, faults>>

\* (Mutation) The catch clause lets the rejected promise stand.
Keep == UNCHANGED adapterPromise

Forget == adapterPromise' = 0

\* The constructor throws, before the file is open or, at a PRAGMA, after it:
\* nothing closes the handle then.  The catch clause runs before any request
\* that awaits the promise goes on.
OpenFails(k) ==
    /\ opening[k] = "pending"
    /\ Fault
    /\ \E how \in {"failed", "leaked"} : opening' = [opening EXCEPT ![k] = how]
    /\ Forget
    /\ UNCHANGED <<at, waitsFor, folder, schema, due, unmigrated>>

\* The runtime closes a handle nobody can reach, some time or never.
Collect(k) ==
    /\ opening[k] = "leaked"
    /\ opening' = [opening EXCEPT ![k] = "failed"]
    /\ UNCHANGED <<adapterPromise, at, waitsFor, folder, schema, due, unmigrated, faults>>

\* (Mutation) Migrations are applied to a new database only.
MigrateIfNew(r) ==
    /\ schema' = IF AutoMigrate /\ schema = 0 THEN folder ELSE schema
    /\ UNCHANGED <<unmigrated, faults>>

\* applyMigrations: all that are missing or, when one fails, none; the error
\* is logged and the request goes on.
Migrate(r) ==
    IF AutoMigrate
    THEN \/ /\ schema' = folder
            /\ UNCHANGED <<unmigrated, faults>>
         \/ /\ Fault
            /\ unmigrated' = unmigrated \cup {r}
            /\ UNCHANGED schema
    ELSE UNCHANGED <<schema, unmigrated, faults>>

Proceed(r) ==
    /\ at[r] = "waiting"
    /\ \/ /\ opening[waitsFor[r]] = "open"
          /\ Migrate(r)
          /\ at' = [at EXCEPT ![r] = "handler"]
       \/ /\ opening[waitsFor[r]] \in {"failed", "leaked"}
          /\ at' = [at EXCEPT ![r] = "failed"]
          /\ UNCHANGED <<schema, unmigrated, faults>>
    /\ UNCHANGED <<adapterPromise, opening, waitsFor, folder, due>>

\* The handler, or the error handler of the app, answers.
Answer(r) ==
    /\ at[r] \in {"handler", "failed"}
    /\ at' = [at EXCEPT ![r] = "idle"]
    /\ UNCHANGED <<adapterPromise, opening, waitsFor, folder, schema, due, unmigrated, faults>>

\* A deployment puts a new migration into the folder.
Ship ==
    /\ folder < LatestVersion
    /\ folder' = folder + 1
    /\ UNCHANGED <<adapterPromise, opening, at, waitsFor, schema, due, unmigrated, faults>>

ServerNext ==
    \/ \E r \in Requests : Arrive(r) \/ Proceed(r) \/ Answer(r)
    \/ \E k \in Openings : Opens(k) \/ OpenFails(k) \/ Collect(k)
    \/ Ship

ServerSpec == ServerInit /\ [][ServerNext]_serverVars

\* Openings end and requests that can go on do so; clients need not come.
ServerFairness ==
    /\ \A r \in Requests : WF_serverVars(Proceed(r) \/ Answer(r))
    /\ \A k \in Openings : WF_serverVars(Opens(k) \/ OpenFails(k))

ServerFairSpec == ServerSpec /\ ServerFairness

-----------------------------------------------------------------------------
\* All handlers that run have one and the same handle on the database, and no
\* other is in use or about to be: what else is open was left so by a PRAGMA
\* that failed, and no handler has it.
OneHandleInUse ==
    /\ \A i, k \in Openings :
          opening[i] \in {"pending", "open"} /\ opening[k] \in {"pending", "open"} => i = k
    /\ \A r \in Requests : at[r] = "handler" => opening[waitsFor[r]] = "open"

\* A request fails only with the opening it waited for, never with one that had
\* failed before it came.
FailureIsForgotten ==
    [][\A r \in Requests : at[r] = "idle" /\ at'[r] = "waiting" =>
          opening'[waitsFor'[r]] \in {"pending", "open"}]_serverVars

\* With AUTO_MIGRATE=1 a handler that was not told of a failed migration finds
\* the migrations that were in the folder when its request came applied.
HandlersFindMigratedSchema ==
    \A r \in Requests :
        AutoMigrate /\ at[r] = "handler" /\ r \notin unmigrated => schema >= due[r]

\* Once openings fail no more, requests fail no more.
Recovers == \A r \in Requests : <>[](at[r] # "failed")
=============================================================================
