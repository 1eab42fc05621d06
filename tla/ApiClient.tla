------------------------------ MODULE ApiClient ------------------------------
(***************************************************************************)
(* Measured operations, on top of Telemetry: requests of the outbound HTTP *)
(* client (packages/core/src/api-client.ts, whose body is read by          *)
(* packages/contracts/src/http-client.ts) step by step, and, as a whole    *)
(* each, requests of the server and operations of a DAO.                   *)
(*                                                                         *)
(* The peer may answer anything at any time, or nothing ever.  What an     *)
(* operation adds to its instruments goes to the counters of the provider  *)
(* an instrument was made with, and nowhere if that one is shut down.      *)
(***************************************************************************)
EXTENDS Telemetry

CONSTANTS
    Requests,       \* operations
    KindOf,         \* their kinds
    Cap             \* MAX_RESPONSE_PAYLOAD_BYTES, in chunks (a bound)

ASSUME ClientAssumption ==
    /\ IsFiniteSet(Requests)
    /\ KindOf \in [Requests -> Kinds]
    /\ Cap \in Nat

VARIABLES
    req,            \* the operations; under is the metrics' provider at their end
    recorded        \* per provider, how often each instrument was added to

clientVars == <<tel, cached, calls, req, recorded>>

Providers == 1 .. MaxProviders

NotSent == [pc |-> "unsent", timer |-> "none", received |-> 0,
            result |-> "none", under |-> Noop]

ClientTypeOK ==
    /\ TelemetryTypeOK
    /\ \A r \in Requests :
         /\ req[r].pc \in {"unsent", "malformed", "fetch", "text", "read", "cancel",
                           "settled"}
         /\ req[r].timer \in {"none", "armed", "fired"}
         /\ req[r].received \in 0 .. Cap + 1
         /\ req[r].result \in {"none", "value", "nothing", "rejected"}
         /\ req[r].under \in 0 .. MaxProviders
    /\ recorded \in [Providers -> [Instruments -> Nat]]

ClientInit ==
    /\ TelemetryInit
    /\ req = [r \in Requests |-> NotSent]
    /\ recorded = [p \in Providers |-> [i \in Instruments |-> 0]]

-----------------------------------------------------------------------------
At(r, pc) == req[r].pc = pc
Unmeasured == UNCHANGED <<tel, cached, calls, recorded>>
Goes(r, pc) == req' = [req EXCEPT ![r].pc = pc] /\ Unmeasured

\* (Mutation) The RangeError of the cap is counted where it is thrown as well.
CaughtTwice(r, result, i) ==
    IF i = <<KindOf[r], "errors">> /\ result = "rejected"
    THEN IF At(r, "cancel") THEN 2 ELSE 1
    ELSE 0

\* What the clause catch of request and withMetrics adds to an instrument: one
\* error for each operation that throws.  The server's middleware counts an
\* answer of 500 or more as well.
Caught(r, result, i) ==
    IF i = <<KindOf[r], "errors">> /\ result = "rejected" THEN 1 ELSE 0

\* The clause finally, however the operation ends.
Finally(r, i) ==
    IF i \in {<<KindOf[r], "total">>, <<KindOf[r], "duration">>} THEN 1 ELSE 0

\* Nothing is awaited between the end of an operation and these clauses.
Conclude(r, result) ==
    LET adds == [i \in Instruments |-> Caught(r, result, i) + Finally(r, i)]
    IN /\ UseInstruments({i \in Instruments : adds[i] > 0})
       /\ recorded' = [p \in Providers |-> [i \in Instruments |->
            IF p = Made(i) /\ p \in tel["metrics"].live
            THEN recorded[p][i] + adds[i] ELSE recorded[p][i]]]
       /\ req' = [req EXCEPT
            ![r].pc = "settled", ![r].result = result,
            ![r].timer = IF @ = "fired" THEN @ ELSE "none",
            ![r].under = tel["metrics"].current]

\* request, up to the call of fetch; buildSignal arms a timer unless the timeout
\* is 0.
Send(r, timed) ==
    /\ At(r, "unsent") /\ KindOf[r] = "client"
    /\ req' = [req EXCEPT ![r].pc = "fetch",
                          ![r].timer = IF timed THEN "armed" ELSE "none"]
    /\ Unmeasured

\* A URL, a header or a body that cannot be formed: thrown outside the clauses
\* that measure.
Malformed(r) ==
    /\ At(r, "unsent") /\ KindOf[r] = "client"
    /\ req' = [req EXCEPT ![r].pc = "malformed", ![r].result = "rejected"]
    /\ Unmeasured

Elapse(r) ==
    /\ req[r].timer = "armed"
    /\ req' = [req EXCEPT ![r].timer = "fired"]
    /\ Unmeasured

\* The network, the timer or the caller's own signal, at any time.
FetchFails(r) == At(r, "fetch") /\ Conclude(r, "rejected")

\* An answer without a body to read: a status that is not 2xx, an APIError; a
\* Content-Length past the cap, a RangeError; 204 and 205.
Answer(r) ==
    At(r, "fetch") /\ \E result \in {"rejected", "nothing"} : Conclude(r, result)

\* A body that is a stream, or one that has only text().
AnswerBody(r) == At(r, "fetch") /\ \E pc \in {"read", "text"} : Goes(r, pc)

\* readBoundedText without a stream.
TextArrives(r) ==
    /\ At(r, "text")
    /\ \E size \in 0 .. Cap + 1 :
         Conclude(r, IF size > Cap THEN "rejected"
                     ELSE IF size = 0 THEN "nothing" ELSE "value")

\* (Mutation) The cap is not looked at.
ChunkUncapped(r) ==
    /\ At(r, "read")
    /\ req' = [req EXCEPT ![r].received = @ + 1]
    /\ Unmeasured

\* readBoundedText, one chunk: past the cap the reader is cancelled first.
ChunkArrives(r) ==
    /\ At(r, "read") /\ req[r].received <= Cap
    /\ req' = [req EXCEPT ![r].received = @ + 1,
                 ![r].pc = IF req[r].received + 1 > Cap THEN "cancel" ELSE "read"]
    /\ Unmeasured

BodyEnds(r) ==
    /\ At(r, "read")
    /\ Conclude(r, IF req[r].received = 0 THEN "nothing" ELSE "value")

Cancelled(r) == At(r, "cancel") /\ Conclude(r, "rejected")

\* (Mutation) A failing read is taken up again.
ReadAgain(r) ==
    /\ At(r, "read") \/ At(r, "text") \/ At(r, "cancel")
    /\ Goes(r, "read")

\* Any other error while the body is read or cancelled is swallowed, that of
\* the timer or the caller's signal among them: the request resolves to nothing.
ReadFails(r) ==
    /\ At(r, "read") \/ At(r, "text") \/ At(r, "cancel")
    /\ Conclude(r, "nothing")

\* What the timer does to the promise that is awaited.
Interrupt(r) == req[r].timer = "fired" /\ (FetchFails(r) \/ ReadFails(r))

\* A request of the server that is answered with 500 or more, and an operation
\* of a DAO that throws, count as errors.
Perform(r) ==
    /\ At(r, "unsent") /\ KindOf[r] # "client"
    /\ \E result \in {"value", "rejected"} : Conclude(r, result)

ClientStep(r) ==
    \/ \E timed \in BOOLEAN : Send(r, timed)
    \/ Malformed(r) \/ Elapse(r) \/ Interrupt(r) \/ FetchFails(r) \/ Answer(r)
    \/ AnswerBody(r) \/ TextArrives(r) \/ ChunkArrives(r) \/ BodyEnds(r)
    \/ Cancelled(r) \/ ReadFails(r) \/ Perform(r)

ClientNext ==
    \/ TelemetryNext /\ UNCHANGED <<req, recorded>>
    \/ \E r \in Requests : ClientStep(r)

\* Timers fire, and the runtime rejects what an aborted request awaits.
\* Nothing is assumed of the peer, or of who starts and shuts down.
ClientFairness ==
    \A r \in Requests :
        /\ WF_clientVars(Elapse(r))
        /\ WF_clientVars(Interrupt(r))

ClientSpec == ClientInit /\ [][ClientNext]_clientVars /\ ClientFairness

-----------------------------------------------------------------------------
\* The operations that ended while p was the metrics' provider and belong in
\* instrument i: all of its kind, or those whose caller saw them fail.
Belongs(r, i, p) ==
    /\ At(r, "settled") /\ req[r].under = p /\ KindOf[r] = i[1]
    /\ i[2] = "errors" => req[r].result = "rejected"

\* What the current provider has counted is what the callers saw since it was
\* started: each operation that ended under it once, with one duration, and as
\* an error exactly if it was rejected, be it by the network, the status, the
\* cap or the timer.  This holds under the terms of SignalsArrive, whatever
\* starts, shutdowns and resets came while the operations were under way
\* (api-client.ts:189, base-dao.ts:74).
CountsAddUp ==
    Arrives("metrics") =>
        LET p == tel["metrics"].current
        IN \A i \in Instruments :
             recorded[p][i] = Cardinality({r \in Requests : Belongs(r, i, p)})

\* A request with a timeout settles, whatever the peer does: no chunk that
\* arrives puts the end off (api-client.ts:232, http-client.ts:72).
TimedRequestsSettle ==
    \A r \in Requests : req[r].timer = "armed" ~> At(r, "settled")
=============================================================================
