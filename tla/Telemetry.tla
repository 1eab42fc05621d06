------------------------------ MODULE Telemetry ------------------------------
(***************************************************************************)
(* The two providers of packages/core/src/telemetry: traces (sdk.ts) and   *)
(* metrics (metrics.ts), started, shut down and reset by whoever holds the *)
(* package, and the instruments that are made when they are first used.    *)
(*                                                                         *)
(* A shutdown awaits the provider's own, and touches the state of the      *)
(* module only afterwards: everything else may run in between.             *)
(***************************************************************************)
EXTENDS Naturals, FiniteSets

CONSTANTS
    Environments,   \* values of TELEMETRY_ENABLED and OTEL_SDK_DISABLED
    MaxProviders,   \* providers of a signal ever made (a bound)
    MaxCalls        \* starts, shutdowns and resets (a bound)

ASSUME TelemetryAssumption == {MaxProviders, MaxCalls} \subseteq Nat

Signals == {"traces", "metrics"}
Kinds == {"client", "server", "db"}
Instruments == Kinds \X {"total", "duration", "errors"}

\* No provider: what is recorded goes nowhere.
Noop == 0
Unmade == MaxProviders + 1

VARIABLES
    tel,            \* per signal, the variables of its module, and history
    cached,         \* the provider each instrument was made with
    calls           \* starts, shutdowns and resets so far

telemetryVars == <<tel, cached, calls>>

TelemetryTypeOK ==
    /\ \A s \in Signals :
         /\ tel[s].on \in BOOLEAN
         /\ tel[s].current \in 0 .. tel[s].made
         /\ tel[s].made \in 0 .. MaxProviders
         /\ tel[s].live \subseteq 1 .. tel[s].made
         /\ tel[s].pending \in 0 .. MaxCalls
         /\ tel[s].global \in 0 .. tel[s].made
    /\ cached \in [Instruments -> 0 .. Unmade]
    /\ calls \in 0 .. MaxCalls

TelemetryInit ==
    /\ tel = [s \in Signals |->
                [on |-> FALSE,      \* initialized
                 current |-> Noop,  \* provider
                 made |-> 0,        \* providers made so far
                 live |-> {},       \* those not shut down
                 pending |-> 0,     \* calls of shutdown that are awaited
                 global |-> Noop,   \* what the OpenTelemetry API has
                 closed |-> FALSE,  \* history: shut down since the last reset
                 early |-> FALSE,   \* history: used before it was started
                 failed |-> FALSE,  \* history: a shutdown failed, and no start since
                 overlap |-> FALSE]]  \* history: a shutdown or reset came
                                      \* while a shutdown was awaited
    /\ cached = [i \in Instruments |-> Unmade]
    /\ calls = 0

-----------------------------------------------------------------------------
\* getTelemetryConfig: TELEMETRY_ENABLED decides if it is set.
Enabled(env) ==
    IF env.enabled # "unset" THEN env.enabled = "true"
                             ELSE env.disabled # "true"

\* (Mutation) A second start is not noticed.
StartAgain(s, env) ==
    /\ tel[s].made < MaxProviders /\ Enabled(env)
    /\ tel' = [tel EXCEPT ![s].on = TRUE, ![s].made = @ + 1,
                          ![s].current = tel[s].made + 1,
                          ![s].live = @ \cup {tel[s].made + 1},
                          ![s].failed = FALSE]
    /\ UNCHANGED cached

\* initTelemetry and initMetrics: a no-op as long as initialized holds, and
\* that is until an awaited shutdown has ended.  Only traces register their
\* provider with the OpenTelemetry API, which keeps the first it was given.
StartSignal(s, env) ==
    /\ ~tel[s].on
    /\ \/ ~Enabled(env) /\ tel' = [tel EXCEPT ![s].on = TRUE]
       \/ /\ Enabled(env) /\ tel[s].made < MaxProviders
          /\ LET new == tel[s].made + 1 IN
             tel' = [tel EXCEPT ![s].on = TRUE, ![s].made = new,
                       ![s].current = new, ![s].live = @ \cup {new},
                       ![s].failed = FALSE,
                       ![s].global = IF s = "traces" /\ @ = Noop THEN new ELSE @]
    /\ UNCHANGED cached

\* shutdownTelemetry and shutdownMetrics, up to the await.  The provider stops
\* taking records at once.
Shutdown(s) ==
    /\ IF tel[s].current = Noop
       THEN tel' = [tel EXCEPT ![s].on = FALSE]
       ELSE tel' = [tel EXCEPT ![s].pending = @ + 1,
                      ![s].live = @ \ {tel[s].current}, ![s].closed = TRUE,
                      ![s].overlap = @ \/ tel[s].pending > 0]
    /\ UNCHANGED cached

\* The rest of it: whatever provider is current by then is dropped.
ShutdownEnds(s) ==
    /\ tel[s].pending > 0
    /\ tel' = [tel EXCEPT ![s].pending = @ - 1, ![s].current = Noop, ![s].on = FALSE]
    /\ UNCHANGED cached

\* The provider's shutdown rejects (its last export failed): initialized stays.
ShutdownFails(s) ==
    /\ tel[s].pending > 0
    /\ tel' = [tel EXCEPT ![s].pending = @ - 1, ![s].failed = TRUE]
    /\ UNCHANGED cached

ResetState(s) ==
    [tel EXCEPT ![s].on = FALSE, ![s].current = Noop, ![s].global = Noop,
                ![s].live = @ \ {tel[s].current},
                ![s].early = FALSE, ![s].failed = FALSE,
                ![s].closed = tel[s].pending > 0,
                ![s].overlap = @ \/ tel[s].pending > 0]

\* (Mutation) The instruments survive.
ResetMetricsOnly(s) == tel' = ResetState(s) /\ UNCHANGED cached

\* _resetTelemetry and _resetMetrics: the shutdown is not awaited.
Reset(s) ==
    /\ tel' = ResetState(s)
    /\ cached' = IF s = "metrics" THEN [i \in Instruments |-> Unmade] ELSE cached

\* The getters of the instruments: made on first use with the provider of that
\* moment, the no-op provider if there is none, and kept.
Made(i) == IF cached[i] = Unmade THEN tel["metrics"].current ELSE cached[i]

UseInstruments(used) ==
    /\ cached' = [i \in Instruments |-> IF i \in used THEN Made(i) ELSE cached[i]]
    /\ tel' = [tel EXCEPT !["metrics"].early = @ \/ tel["metrics"].current = Noop]
    /\ UNCHANGED calls

TelemetryNext ==
    \E s \in Signals :
        \/ /\ calls < MaxCalls /\ calls' = calls + 1
           /\ \/ \E env \in Environments : StartSignal(s, env)
              \/ Shutdown(s) \/ Reset(s)
        \/ UNCHANGED calls /\ (ShutdownEnds(s) \/ ShutdownFails(s))

-----------------------------------------------------------------------------
\* As long as shutdowns and resets do not overlap, no provider goes on
\* exporting that the module has lost; and a module that has a provider, with no
\* shutdown in progress or failed, is on and its provider takes records, although
\* starts come while shutdowns are awaited (sdk.ts:84, metrics.ts:71).
LifecycleIsSound ==
    \A s \in Signals :
        /\ ~tel[s].overlap => tel[s].live \subseteq {tel[s].current}
        /\ tel[s].current # Noop /\ tel[s].pending = 0 /\ ~tel[s].failed
           => tel[s].on /\ tel[s].current \in tel[s].live

Arrives(s) == tel[s].current # Noop /\ ~tel[s].closed /\ ~tel[s].early

\* Without a shutdown since the last reset, and if nothing was measured too
\* early, every instrument there is belongs to the current provider, and the
\* provider of the spans is the one that was registered, whatever came before
\* the reset (sdk.ts:108, metrics.ts:87).
SignalsArrive ==
    /\ Arrives("metrics") =>
         \A i \in Instruments : cached[i] \in {Unmade, tel["metrics"].current}
    /\ Arrives("traces") => tel["traces"].global = tel["traces"].current
=============================================================================
