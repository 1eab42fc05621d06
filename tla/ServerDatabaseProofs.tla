------------------------- MODULE ServerDatabaseProofs -------------------------
(***************************************************************************)
(* Proofs about ServerDatabase, for any number of requests, openings and   *)
(* failures: the handlers share one handle on the database, no request     *)
(* waits for an opening that had failed before, and with AUTO_MIGRATE=1    *)
(* handlers find the schema their request was due; and the type invariant. *)
(***************************************************************************)
EXTENDS ServerDatabase, TLAPS

\* localAdapterPromise is the one opening that is pending or open, if any is.
PromiseIsTheHandle ==
    /\ adapterPromise # 0 => opening[adapterPromise] \in {"pending", "open"}
    /\ \A k \in Openings : opening[k] \in {"pending", "open"} => adapterPromise = k

\* A handler runs on the opening its request waited for, which is open.
HandlersHaveIt ==
    \A r \in Requests :
        at[r] = "handler" => waitsFor[r] \in Openings /\ opening[waitsFor[r]] = "open"

\* The folder only grows, so it is never behind a request or the database.
FolderLeads ==
    /\ schema <= folder
    /\ \A r \in Requests : due[r] <= folder

ServerInv ==
    /\ ServerTypeOK
    /\ PromiseIsTheHandle
    /\ HandlersHaveIt
    /\ FolderLeads
    /\ HandlersFindMigratedSchema

-----------------------------------------------------------------------------
LEMMA ServerInitInv == ServerInit => ServerInv
<1> SUFFICES ASSUME ServerInit
             PROVE  ServerInv
    OBVIOUS
<1>1. /\ MaxFaults \in Nat
      /\ LatestVersion \in Nat
      /\ folder \in 0 .. LatestVersion
      /\ schema \in 0 .. folder
    BY ServerAssumption DEF ServerAssumption, ServerInit
<1>2. \A r \in Requests : at[r] = "idle" /\ due[r] = 0 /\ waitsFor[r] = 0
    BY DEF ServerInit
<1>3. \A k \in Openings : opening[k] = "none"
    BY DEF ServerInit
<1>8. HandlersHaveIt
    BY <1>2 DEF HandlersHaveIt
<1>4. ServerTypeOK
  <2>1. folder \in 0 .. LatestVersion /\ schema \in 0 .. LatestVersion
      BY <1>1
  <2>2. due \in [Requests -> 0 .. LatestVersion]
      BY <1>1 DEF ServerInit
  <2> QED  BY <1>1, <1>2, <2>1, <2>2 DEF ServerInit, ServerTypeOK, OpeningState
<1>5. PromiseIsTheHandle
    BY <1>3 DEF ServerInit, PromiseIsTheHandle
<1>6. FolderLeads
    BY <1>1, <1>2 DEF FolderLeads
<1>7. HandlersFindMigratedSchema
    BY <1>2 DEF HandlersFindMigratedSchema
<1> QED  BY <1>4, <1>5, <1>6, <1>7, <1>8 DEF ServerInv

-----------------------------------------------------------------------------
\* An opening that is awaited is under way or open when the request comes.
LEMMA AwaitedOpeningLives ==
    ASSUME ServerInv, NEW r \in Requests, AwaitAdapter(r)
    PROVE  /\ waitsFor' = [waitsFor EXCEPT ![r] = adapterPromise']
           /\ adapterPromise' \in Openings
           /\ opening'[adapterPromise'] \in {"pending", "open"}
           /\ opening' \in [Openings -> OpeningState]
           /\ \A k \in Openings : opening[k] # "none" => opening'[k] = opening[k]
           /\ PromiseIsTheHandle'
<1>1. CASE adapterPromise # 0
    BY <1>1 DEF AwaitAdapter, ServerInv, ServerTypeOK, PromiseIsTheHandle
<1>2. CASE adapterPromise = 0
  <2>1. PICK k \in Openings :
           /\ opening[k] = "none"
           /\ opening' = [opening EXCEPT ![k] = "pending"]
           /\ adapterPromise' = k
           /\ waitsFor' = [waitsFor EXCEPT ![r] = k]
      BY <1>2 DEF AwaitAdapter, NextOpening
  <2>2. \A i \in Openings : opening[i] \notin {"pending", "open"}
      BY <1>2 DEF ServerInv, PromiseIsTheHandle, Openings
  <2>3. /\ opening' \in [Openings -> OpeningState]
        /\ opening'[k] = "pending"
        /\ \A i \in Openings : i # k => opening'[i] = opening[i]
      BY <2>1 DEF ServerInv, ServerTypeOK, OpeningState
  <2> QED  BY <2>1, <2>2, <2>3 DEF PromiseIsTheHandle
<1> QED  BY <1>1, <1>2

LEMMA ArriveKeeps ==
    ASSUME ServerInv, NEW r \in Requests, Arrive(r)
    PROVE  ServerInv'
<1>1. /\ at[r] = "idle"
      /\ AwaitAdapter(r)
      /\ at' = [at EXCEPT ![r] = "waiting"]
      /\ due' = [due EXCEPT ![r] = folder]
      /\ unmigrated' = unmigrated \ {r}
      /\ UNCHANGED <<folder, schema, faults>>
    BY DEF Arrive
<1>2. ServerTypeOK'
  <2>1. /\ waitsFor' \in [Requests -> Openings \cup {0}]
        /\ at' \in [Requests -> {"idle", "waiting", "handler", "failed"}]
        /\ due' \in [Requests -> 0 .. LatestVersion]
        /\ adapterPromise' \in Openings \cup {0}
        /\ opening' \in [Openings -> OpeningState]
      BY <1>1, AwaitedOpeningLives DEF ServerInv, ServerTypeOK
  <2>2. ASSUME NEW q \in Requests, at'[q] = "waiting"
        PROVE  waitsFor'[q] \in {k \in Openings : opening'[k] # "none"}
    <3>1. CASE q = r
        BY <1>1, <3>1, AwaitedOpeningLives DEF ServerInv, ServerTypeOK
    <3>2. CASE q # r
      <4>1. at[q] = "waiting" /\ waitsFor'[q] = waitsFor[q]
          BY <1>1, <2>2, <3>2, AwaitedOpeningLives DEF ServerInv, ServerTypeOK
      <4>2. waitsFor[q] \in Openings /\ opening[waitsFor[q]] # "none"
          BY <4>1 DEF ServerInv, ServerTypeOK
      <4>3. opening'[waitsFor[q]] = opening[waitsFor[q]]
          BY <1>1, <4>2, AwaitedOpeningLives
      <4> QED  BY <4>1, <4>2, <4>3
    <3> QED  BY <3>1, <3>2
  <2>3. /\ folder' \in 0 .. LatestVersion
        /\ schema' \in 0 .. LatestVersion
        /\ unmigrated' \subseteq Requests
        /\ faults' \in 0 .. MaxFaults
      BY <1>1 DEF ServerInv, ServerTypeOK
  <2> QED  BY <2>1, <2>2, <2>3 DEF ServerTypeOK
<1>3. PromiseIsTheHandle'
    BY <1>1, AwaitedOpeningLives
<1>4. FolderLeads'
  <2>1. folder <= folder
      BY ServerAssumption DEF ServerAssumption, ServerInv, ServerTypeOK
  <2> QED  BY <1>1, <2>1 DEF ServerInv, ServerTypeOK, FolderLeads
<1>5. HandlersFindMigratedSchema'
    BY <1>1 DEF ServerInv, ServerTypeOK, HandlersFindMigratedSchema
<1>6. HandlersHaveIt'
  <2> SUFFICES ASSUME NEW q \in Requests, at'[q] = "handler"
               PROVE  waitsFor'[q] \in Openings /\ opening'[waitsFor'[q]] = "open"
      BY DEF HandlersHaveIt
  <2>1. q # r /\ at[q] = "handler" /\ waitsFor'[q] = waitsFor[q]
      BY <1>1, AwaitedOpeningLives DEF ServerInv, ServerTypeOK
  <2>2. waitsFor[q] \in Openings /\ opening[waitsFor[q]] = "open"
      BY <2>1 DEF ServerInv, HandlersHaveIt
  <2> QED  BY <1>1, <2>1, <2>2, AwaitedOpeningLives
<1> QED  BY <1>2, <1>3, <1>4, <1>5, <1>6 DEF ServerInv

LEMMA OpeningKeeps ==
    ASSUME ServerInv, NEW k \in Openings, Opens(k) \/ OpenFails(k) \/ Collect(k)
    PROVE  ServerInv'
<1>1. /\ opening[k] \in {"pending", "leaked"}
      /\ UNCHANGED <<at, waitsFor, folder, schema, due, unmigrated>>
    BY DEF Opens, OpenFails, Collect
<1>2. \/ /\ opening[k] = "pending"
         /\ opening' = [opening EXCEPT ![k] = "open"]
         /\ UNCHANGED <<adapterPromise, faults>>
      \/ /\ opening[k] = "pending"
         /\ \E how \in {"failed", "leaked"} : opening' = [opening EXCEPT ![k] = how]
         /\ adapterPromise' = 0
         /\ faults < MaxFaults
         /\ faults' = faults + 1
      \/ /\ opening[k] = "leaked"
         /\ opening' = [opening EXCEPT ![k] = "failed"]
         /\ UNCHANGED <<adapterPromise, faults>>
    BY DEF Opens, OpenFails, Collect, Fault, Forget
<1>3. /\ \A i \in Openings : i # k => opening'[i] = opening[i]
      /\ \A i \in Openings : opening[i] # "none" => opening'[i] # "none"
      /\ opening' \in [Openings -> OpeningState]
      /\ opening'[k] \in {"open", "failed", "leaked"}
    BY <1>2 DEF ServerInv, ServerTypeOK, OpeningState
<1>4. ServerTypeOK'
  <2>1. faults' \in 0 .. MaxFaults
      BY <1>2, ServerAssumption DEF ServerAssumption, ServerInv, ServerTypeOK
  <2>2. adapterPromise' \in Openings \cup {0}
      BY <1>2 DEF ServerInv, ServerTypeOK
  <2>3. \A q \in Requests :
          at'[q] = "waiting" => waitsFor'[q] \in {i \in Openings : opening'[i] # "none"}
      BY <1>1, <1>3 DEF ServerInv, ServerTypeOK
  <2> QED  BY <1>1, <1>3, <2>1, <2>2, <2>3 DEF ServerInv, ServerTypeOK
<1>5. PromiseIsTheHandle'
  <2>1. CASE opening[k] = "pending"
    <3>1. adapterPromise = k /\ \A i \in Openings : i # k => opening'[i] \notin {"pending", "open"}
        BY <1>3, <2>1 DEF ServerInv, PromiseIsTheHandle
    <3>2. \/ opening'[k] = "open" /\ adapterPromise' = k
          \/ opening'[k] \in {"failed", "leaked"} /\ adapterPromise' = 0
        BY <1>2, <2>1, <3>1 DEF ServerInv, ServerTypeOK
    <3> QED  BY <3>1, <3>2 DEF PromiseIsTheHandle
  <2>2. CASE opening[k] = "leaked"
    <3>1. opening'[k] = "failed" /\ adapterPromise' = adapterPromise
        BY <1>2, <2>2 DEF ServerInv, ServerTypeOK
    <3>2. adapterPromise # 0 => adapterPromise \in Openings /\ adapterPromise # k
        BY <2>2 DEF ServerInv, ServerTypeOK, PromiseIsTheHandle
    <3> QED  BY <1>3, <3>1, <3>2 DEF ServerInv, PromiseIsTheHandle
  <2> QED  BY <1>1, <2>1, <2>2
<1>6. FolderLeads' /\ HandlersFindMigratedSchema'
    BY <1>1 DEF ServerInv, FolderLeads, HandlersFindMigratedSchema
<1>7. HandlersHaveIt'
    BY <1>1, <1>3 DEF ServerInv, HandlersHaveIt
<1> QED  BY <1>4, <1>5, <1>6, <1>7 DEF ServerInv

LEMMA ProceedKeeps ==
    ASSUME ServerInv, NEW r \in Requests, Proceed(r)
    PROVE  ServerInv'
<1>1. UNCHANGED <<adapterPromise, opening, waitsFor, folder, due>>
    BY DEF Proceed
<1>2. PICK where \in {"handler", "failed"} :
         /\ at[r] = "waiting"
         /\ at' = [at EXCEPT ![r] = where]
         /\ where = "handler" => opening[waitsFor[r]] = "open"
         /\ where = "handler" => Migrate(r)
         /\ where = "failed" => UNCHANGED <<schema, unmigrated, faults>>
    BY DEF Proceed
<1>3. \/ /\ AutoMigrate
         /\ schema' = folder
         /\ UNCHANGED <<unmigrated, faults>>
      \/ /\ AutoMigrate
         /\ where = "handler"
         /\ faults < MaxFaults
         /\ faults' = faults + 1
         /\ unmigrated' = unmigrated \cup {r}
         /\ UNCHANGED schema
      \/ /\ ~AutoMigrate \/ where = "failed"
         /\ UNCHANGED <<schema, unmigrated, faults>>
    BY <1>2 DEF Migrate, Fault
<1>4. ServerTypeOK'
  <2>1. schema' \in 0 .. LatestVersion /\ unmigrated' \subseteq Requests
      BY <1>3 DEF ServerInv, ServerTypeOK
  <2>2. faults' \in 0 .. MaxFaults
      BY <1>3, ServerAssumption DEF ServerAssumption, ServerInv, ServerTypeOK
  <2>3. at' \in [Requests -> {"idle", "waiting", "handler", "failed"}]
      BY <1>2 DEF ServerInv, ServerTypeOK
  <2>4. \A q \in Requests : at'[q] = "waiting" => at[q] = "waiting"
      BY <1>2 DEF ServerInv, ServerTypeOK
  <2> QED  BY <1>1, <2>1, <2>2, <2>3, <2>4 DEF ServerInv, ServerTypeOK
<1>5. PromiseIsTheHandle'
    BY <1>1 DEF ServerInv, PromiseIsTheHandle
<1>6. /\ folder \in Nat
      /\ schema \in Nat
      /\ schema <= folder
      /\ schema' = schema \/ schema' = folder
      /\ \A q \in Requests : due[q] \in Nat /\ due[q] <= folder
    BY <1>3, ServerAssumption
       DEF ServerAssumption, ServerInv, ServerTypeOK, FolderLeads
<1>7. FolderLeads'
    BY <1>1, <1>6 DEF FolderLeads
<1>8. HandlersFindMigratedSchema'
  <2> SUFFICES ASSUME NEW q \in Requests, AutoMigrate, at'[q] = "handler",
                      q \notin unmigrated'
               PROVE  schema' >= due[q]
      BY <1>1 DEF HandlersFindMigratedSchema
  <2>1. CASE schema' = folder
      BY <1>6, <2>1
  <2>2. CASE q # r /\ UNCHANGED schema
    <3>1. at[q] = "handler" /\ q \notin unmigrated
        BY <1>2, <1>3, <2>2 DEF ServerInv, ServerTypeOK
    <3> QED  BY <2>2, <3>1 DEF ServerInv, HandlersFindMigratedSchema
  <2>3. CASE q = r /\ schema' # folder
    <3>1. where = "handler"
        BY <1>2, <2>3 DEF ServerInv, ServerTypeOK
    <3> QED  BY <1>3, <2>3, <3>1
  <2> QED  BY <1>6, <2>1, <2>2, <2>3
<1>9. HandlersHaveIt'
  <2>1. waitsFor[r] \in Openings
      BY <1>2 DEF ServerInv, ServerTypeOK
  <2>2. \A q \in Requests :
          at'[q] = "handler" => IF q = r THEN where = "handler" ELSE at[q] = "handler"
      BY <1>2 DEF ServerInv, ServerTypeOK
  <2> QED  BY <1>1, <1>2, <2>1, <2>2 DEF ServerInv, HandlersHaveIt
<1> QED  BY <1>4, <1>5, <1>7, <1>8, <1>9 DEF ServerInv

\* Answer and Ship.
LEMMA RestKeeps ==
    ASSUME ServerInv, (\E r \in Requests : Answer(r)) \/ Ship
    PROVE  ServerInv'
<1>1. UNCHANGED <<adapterPromise, opening, waitsFor, schema, due, unmigrated, faults>>
    BY DEF Answer, Ship
<1>2. /\ at' \in [Requests -> {"idle", "waiting", "handler", "failed"}]
      /\ \A q \in Requests : at'[q] \in {"waiting", "handler"} => at'[q] = at[q]
    BY DEF Answer, Ship, ServerInv, ServerTypeOK
<1>3. /\ folder' \in 0 .. LatestVersion
      /\ folder <= folder'
    BY ServerAssumption DEF ServerAssumption, Answer, Ship, ServerInv, ServerTypeOK
<1>4. ServerTypeOK'
    BY <1>1, <1>2, <1>3 DEF ServerInv, ServerTypeOK
<1>5. PromiseIsTheHandle'
    BY <1>1 DEF ServerInv, PromiseIsTheHandle
<1>6. FolderLeads'
  <2>1. folder \in Nat /\ schema \in Nat /\ \A q \in Requests : due[q] \in Nat
      BY ServerAssumption DEF ServerAssumption, ServerInv, ServerTypeOK
  <2> QED  BY <1>1, <1>3, <2>1 DEF ServerInv, FolderLeads
<1>7. HandlersFindMigratedSchema'
    BY <1>1, <1>2 DEF ServerInv, HandlersFindMigratedSchema
<1>8. HandlersHaveIt'
    BY <1>1, <1>2 DEF ServerInv, HandlersHaveIt
<1> QED  BY <1>4, <1>5, <1>6, <1>7, <1>8 DEF ServerInv

LEMMA ServerStepKeeps == ServerInv /\ [ServerNext]_serverVars => ServerInv'
<1> SUFFICES ASSUME ServerInv, [ServerNext]_serverVars
             PROVE  ServerInv'
    OBVIOUS
<1>1. CASE UNCHANGED serverVars
    BY <1>1 DEF serverVars, ServerInv, ServerTypeOK, PromiseIsTheHandle, HandlersHaveIt,
                FolderLeads, HandlersFindMigratedSchema
<1> QED  BY <1>1, ArriveKeeps, OpeningKeeps, ProceedKeeps, RestKeeps DEF ServerNext

LEMMA ServerInvHolds == ServerSpec => []ServerInv
BY ServerInitInv, ServerStepKeeps, PTL DEF ServerSpec

-----------------------------------------------------------------------------
\* Openings, requests and versions stay what they can be; in particular a
\* request that waits awaits an opening that was started
\* (apps/server/src/index.ts:218).
THEOREM ServerTyped == ServerSpec => []ServerTypeOK
<1>1. ServerInv => ServerTypeOK
    BY DEF ServerInv
<1> QED  BY ServerInvHolds, <1>1, PTL

\* The handlers of any number of requests share one handle on the database, and
\* no other is in use or about to be, however requests overlap with openings
\* that fail before the file is open or, at a PRAGMA, after it.
THEOREM HandlersShareOneHandle == ServerSpec => []OneHandleInUse
<1>1. ServerInv => OneHandleInUse
    BY DEF ServerInv, PromiseIsTheHandle, HandlersHaveIt, OneHandleInUse
<1> QED  BY ServerInvHolds, <1>1, PTL

\* No request waits for an opening that had failed before it came.
THEOREM FailuresAreForgotten == ServerSpec => FailureIsForgotten
<1>1. ASSUME ServerInv, [ServerNext]_serverVars
      PROVE  [\A r \in Requests : at[r] = "idle" /\ at'[r] = "waiting" =>
                opening'[waitsFor'[r]] \in {"pending", "open"}]_serverVars
  <2> SUFFICES ASSUME ServerNext, NEW r \in Requests, at[r] = "idle", at'[r] = "waiting"
               PROVE  opening'[waitsFor'[r]] \in {"pending", "open"}
      BY <1>1
  <2>1. at \in [Requests -> {"idle", "waiting", "handler", "failed"}]
      BY <1>1 DEF ServerInv, ServerTypeOK
  <2>2. Arrive(r)
      BY <2>1 DEF ServerNext, Arrive, Proceed, Answer, Opens, OpenFails, Collect, Ship
  <2> QED  BY <1>1, <2>2, AwaitedOpeningLives DEF Arrive, ServerInv, ServerTypeOK
<1> QED  BY ServerInvHolds, <1>1, PTL DEF ServerSpec, FailureIsForgotten

\* With AUTO_MIGRATE=1 no handler runs on a schema older than its request.
THEOREM SchemaIsMigrated == ServerSpec => []HandlersFindMigratedSchema
<1>1. ServerInv => HandlersFindMigratedSchema
    BY DEF ServerInv
<1> QED  BY ServerInvHolds, <1>1, PTL
=============================================================================
