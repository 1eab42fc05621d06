--------------------------- MODULE ApiClientProofs ---------------------------
(***************************************************************************)
(* Proofs about Telemetry and ApiClient, for any number of operations,     *)
(* providers, starts, shutdowns and resets: no provider is lost or used    *)
(* dead, instruments belong to the current provider, its counters add up   *)
(* to what the callers saw, and no body outgrows its cap.                  *)
(***************************************************************************)
EXTENDS ApiClient, FiniteSetTheorems, TLAPS

\* The variables of one signal's module, as a record.
SignalState ==
    [on : BOOLEAN, current : 0 .. MaxProviders, made : 0 .. MaxProviders,
     live : SUBSET (1 .. MaxProviders), pending : Nat, global : 0 .. MaxProviders,
     closed : BOOLEAN, early : BOOLEAN, failed : BOOLEAN, overlap : BOOLEAN]

Bounded(t, n) ==
    /\ t.current <= t.made /\ t.global <= t.made
    /\ t.live \subseteq 1 .. t.made
    /\ t.pending <= n

\* What LifecycleIsSound needs to be kept: while no calls overlapped, a shutdown
\* that is awaited has found the module on and taken the one live provider.
Sound(t) ==
    /\ t.current # Noop => t.on
    /\ t.current # Noop /\ t.pending = 0 /\ ~t.failed => t.current \in t.live
    /\ ~t.overlap =>
        /\ t.pending \in {0, 1}
        /\ t.pending = 1 => t.on /\ t.current # Noop /\ t.live = {}
        /\ t.live \subseteq {t.current}

\* What SignalsArrive needs: since a reset without a shutdown, a provider that
\* is there is live, and its module is on, so that no second one is made.
Fresh(t) ==
    ~t.closed =>
        /\ t.pending = 0
        /\ t.current # Noop => t.on /\ t.current \in t.live

\* n is the number of calls so far.
Good(t, n) == t \in SignalState /\ Bounded(t, n) /\ Sound(t) /\ Fresh(t)

Registered(t) == ~t.closed => t.global = t.current

\* No instrument was made before its provider.
InstrumentsFollow ==
    LET t == tel["metrics"] IN
    ~t.closed /\ ~t.early =>
        \A i \in Instruments :
            cached[i] # Unmade => cached[i] = t.current /\ t.current # Noop

TelemetryInv ==
    /\ calls \in 0 .. MaxCalls
    /\ cached \in [Instruments -> 0 .. Unmade]
    /\ tel \in [Signals -> SignalState]
    /\ \A s \in Signals : Good(tel[s], calls)
    /\ Registered(tel["traces"])
    /\ InstrumentsFollow

Operation ==
    [pc : {"unsent", "malformed", "fetch", "text", "read", "cancel", "settled"},
     timer : {"none", "armed", "fired"}, received : 0 .. Cap + 1,
     result : {"none", "value", "nothing", "rejected"}, under : 0 .. MaxProviders]

\* A provider that is not made yet has counted nothing, and nothing ended under it.
NothingAhead ==
    /\ \A r \in Requests : req[r].under <= tel["metrics"].made
    /\ \A p \in Providers : \A i \in Instruments :
         p > tel["metrics"].made => recorded[p][i] = 0

ClientInv ==
    /\ TelemetryInv
    /\ req \in [Requests -> Operation]
    /\ recorded \in [Providers -> [Instruments -> Nat]]
    /\ NothingAhead
    /\ CountsAddUp

-----------------------------------------------------------------------------
(* Telemetry *)

LEMMA TelemetryStarts == TelemetryInit => TelemetryInv
<1> SUFFICES ASSUME TelemetryInit PROVE TelemetryInv
    OBVIOUS
<1>1. MaxProviders \in Nat /\ MaxCalls \in Nat /\ Unmade \in Nat
    BY TelemetryAssumption DEF TelemetryAssumption, Unmade
<1>2. tel \in [Signals -> SignalState]
    BY <1>1 DEF TelemetryInit, SignalState, Noop
<1>3. \A s \in Signals : Good(tel[s], calls)
    BY <1>1, <1>2 DEF TelemetryInit, SignalState, Noop, Good, Bounded, Sound, Fresh
<1>4. Registered(tel["traces"])
    BY DEF TelemetryInit, Registered, Signals
<1>5. InstrumentsFollow
    BY DEF TelemetryInit, InstrumentsFollow
<1>6. cached \in [Instruments -> 0 .. Unmade] /\ calls \in 0 .. MaxCalls
    BY <1>1 DEF TelemetryInit
<1> QED BY <1>2, <1>3, <1>4, <1>5, <1>6 DEF TelemetryInv

\* A step of one signal that leaves it good keeps the invariant.
LEMMA OneSignalChanges ==
    ASSUME TelemetryInv, NEW s \in Signals, NEW t,
           tel' = [tel EXCEPT ![s] = t],
           calls' \in 0 .. MaxCalls, calls <= calls', Good(t, calls'),
           s = "traces" => Registered(t),
           cached' \in [Instruments -> 0 .. Unmade], InstrumentsFollow'
    PROVE  TelemetryInv'
<1>1. tel' \in [Signals -> SignalState] /\ tel'[s] = t
    BY DEF TelemetryInv, Good
<1>2. ASSUME NEW u \in Signals, u # s
      PROVE  Good(tel'[u], calls') /\ tel'[u] = tel[u]
  <2>1. tel'[u] = tel[u] /\ tel[u] \in SignalState
      BY <1>2 DEF TelemetryInv
  <2>2. calls \in Nat /\ calls' \in Nat /\ tel[u].pending \in Nat
      BY <2>1, TelemetryAssumption DEF TelemetryInv, SignalState, TelemetryAssumption
  <2>3. Good(tel[u], calls)
      BY DEF TelemetryInv
  <2> QED  BY <2>1, <2>2, <2>3 DEF Good, Bounded, Sound, Fresh
<1>3. \A u \in Signals : Good(tel'[u], calls')
    BY <1>1, <1>2
<1>4. Registered(tel["traces"])'
    BY <1>1, <1>2 DEF TelemetryInv, Registered, Signals
<1> QED BY <1>1, <1>3, <1>4 DEF TelemetryInv

\* What is known of a signal before its step.
LEMMA SignalFacts ==
    ASSUME TelemetryInv, NEW s \in Signals
    PROVE  /\ tel[s] \in SignalState /\ Good(tel[s], calls)
           /\ s = "traces" => Registered(tel[s])
           /\ MaxProviders \in Nat /\ MaxCalls \in Nat /\ calls \in Nat
           /\ Unmade = MaxProviders + 1
BY TelemetryAssumption DEF TelemetryInv, Good, TelemetryAssumption, Unmade

\* Without a new provider and with the same or fewer instruments, those there
\* are follow: only a reset of metrics makes fresh what was not.
LEMMA InstrumentsStay ==
    ASSUME TelemetryInv, NEW s \in Signals, NEW t,
           tel' = [tel EXCEPT ![s] = t], UNCHANGED cached,
           s = "metrics" /\ ~t.closed /\ ~t.early =>
               /\ ~tel[s].closed /\ ~tel[s].early
               /\ t.current = tel[s].current \/ tel[s].current = Noop
    PROVE  /\ InstrumentsFollow'
           /\ cached' \in [Instruments -> 0 .. Unmade]
<1>1. tel'["metrics"] = IF s = "metrics" THEN t ELSE tel["metrics"]
    BY DEF TelemetryInv, Signals
<1>2. InstrumentsFollow
    BY DEF TelemetryInv
<1> QED BY <1>1, <1>2 DEF InstrumentsFollow, TelemetryInv, Signals

LEMMA StartKeeps ==
    ASSUME TelemetryInv, NEW s \in Signals, NEW env, StartSignal(s, env),
           calls < MaxCalls, calls' = calls + 1
    PROVE  TelemetryInv'
<1> DEFINE new == tel[s].made + 1
           off == [tel[s] EXCEPT !.on = TRUE]
           up == [tel[s] EXCEPT !.on = TRUE, !.made = new, !.current = new,
                    !.live = @ \cup {new}, !.failed = FALSE,
                    !.global = IF s = "traces" /\ @ = Noop THEN new ELSE @]
<1>1. calls' \in 0 .. MaxCalls /\ calls <= calls'
    BY SignalFacts
<1>2. CASE tel' = [tel EXCEPT ![s].on = TRUE]
  <2>1. tel' = [tel EXCEPT ![s] = off]
      BY <1>2, SignalFacts DEF TelemetryInv, SignalState
  <2>2. Good(off, calls') /\ (s = "traces" => Registered(off))
    <3>1. off \in SignalState
        BY SignalFacts DEF SignalState
    <3>2. Bounded(off, calls')
        BY SignalFacts DEF Good, SignalState, Bounded
    <3>3. Sound(off)
        BY SignalFacts DEF Good, SignalState, Sound, StartSignal
    <3>4. Fresh(off)
        BY SignalFacts DEF Good, SignalState, Fresh, StartSignal
    <3>5. s = "traces" => Registered(off)
        BY SignalFacts DEF SignalState, Registered
    <3> QED  BY <3>1, <3>2, <3>3, <3>4, <3>5 DEF Good
  <2>3. InstrumentsFollow' /\ cached' \in [Instruments -> 0 .. Unmade]
    <3>1. /\ off.closed = tel[s].closed /\ off.early = tel[s].early
          /\ off.current = tel[s].current
        BY SignalFacts DEF SignalState
    <3>2. UNCHANGED cached
        BY DEF StartSignal
    <3> HIDE DEF off
    <3> QED  BY <2>1, <3>1, <3>2, InstrumentsStay
  <2> QED  BY <1>1, <2>1, <2>2, <2>3, OneSignalChanges
<1>3. CASE /\ tel[s].made < MaxProviders
           /\ tel' = [tel EXCEPT ![s].on = TRUE, ![s].made = new,
                       ![s].current = new, ![s].live = @ \cup {new},
                       ![s].failed = FALSE,
                       ![s].global = IF s = "traces" /\ @ = Noop THEN new ELSE @]
  <2>1. tel' = [tel EXCEPT ![s] = up]
      BY <1>3, SignalFacts DEF TelemetryInv, SignalState
  <2>2. ~tel[s].on
      BY DEF StartSignal
  <2>3. up \in SignalState
    <3>1. new \in 1 .. MaxProviders /\ new \in 0 .. MaxProviders
        BY <1>3, SignalFacts DEF SignalState
    <3>2. tel[s].live \cup {new} \in SUBSET (1 .. MaxProviders)
        BY <3>1, SignalFacts DEF SignalState
    <3> HIDE DEF new
    <3> QED  BY <3>1, <3>2, SignalFacts DEF SignalState
  <2>4. Bounded(up, calls')
      BY <1>3, SignalFacts DEF Good, SignalState, Bounded
  <2>5. Sound(up)
    <3>1. /\ up.on /\ up.current = new /\ up.live = tel[s].live \cup {new}
          /\ up.pending = tel[s].pending /\ up.overlap = tel[s].overlap
        BY SignalFacts DEF SignalState
    <3>2. ~tel[s].overlap => tel[s].pending = 0 /\ tel[s].live = {}
      <4>1. /\ Sound(tel[s]) /\ tel[s] \in SignalState /\ Bounded(tel[s], calls)
          BY SignalFacts DEF Good
      <4> QED  BY <2>2, <4>1 DEF Sound, Bounded, SignalState, Noop
    <3> HIDE DEF up, new
    <3> QED  BY <3>1, <3>2 DEF Sound
  <2>6. Fresh(up) /\ (s = "traces" => Registered(up))
      BY <1>3, <2>2, SignalFacts DEF Good, SignalState, Bounded, Fresh, Registered, Noop
  <2>7. InstrumentsFollow' /\ cached' \in [Instruments -> 0 .. Unmade]
    <3>1. ~up.closed => ~tel[s].closed /\ tel[s].current = Noop
        BY <2>2, SignalFacts DEF SignalState, Good, Fresh
    <3>2. up.early = tel[s].early
        BY SignalFacts DEF SignalState
    <3> QED  BY <2>1, <3>1, <3>2, InstrumentsStay DEF StartSignal
  <2>8. Good(up, calls')
      BY <2>3, <2>4, <2>5, <2>6 DEF Good, Sound, Fresh
  <2> QED  BY <1>1, <2>1, <2>6, <2>7, <2>8, OneSignalChanges
<1> QED BY <1>2, <1>3 DEF StartSignal

LEMMA ShutdownKeeps ==
    ASSUME TelemetryInv, NEW s \in Signals, Shutdown(s),
           calls < MaxCalls, calls' = calls + 1
    PROVE  TelemetryInv'
<1> DEFINE off == [tel[s] EXCEPT !.on = FALSE]
           down == [tel[s] EXCEPT !.pending = @ + 1,
                      !.live = @ \ {tel[s].current}, !.closed = TRUE,
                      !.overlap = @ \/ tel[s].pending > 0]
<1>1. calls' \in 0 .. MaxCalls /\ calls <= calls'
    BY SignalFacts
<1>2. CASE tel[s].current = Noop
  <2>1. tel' = [tel EXCEPT ![s] = off]
      BY <1>2, SignalFacts DEF TelemetryInv, SignalState, Shutdown
  <2>2. off \in SignalState
      BY SignalFacts DEF SignalState
  <2>3. Bounded(off, calls')
      BY SignalFacts DEF Good, SignalState, Bounded
  <2>4. Sound(off) /\ Fresh(off)
      BY <1>2, SignalFacts DEF Good, SignalState, Sound, Fresh
  <2>5. s = "traces" => Registered(off)
      BY SignalFacts DEF SignalState, Registered
  <2>6. InstrumentsFollow' /\ cached' \in [Instruments -> 0 .. Unmade]
    <3>1. /\ off.closed = tel[s].closed /\ off.early = tel[s].early
          /\ off.current = tel[s].current
        BY SignalFacts DEF SignalState
    <3>2. UNCHANGED cached
        BY DEF Shutdown
    <3> HIDE DEF off
    <3> QED  BY <2>1, <3>1, <3>2, InstrumentsStay
  <2> QED  BY <1>1, <2>1, <2>2, <2>3, <2>4, <2>5, <2>6, OneSignalChanges DEF Good
<1>3. CASE tel[s].current # Noop
  <2>1. tel' = [tel EXCEPT ![s] = down]
      BY <1>3, SignalFacts DEF TelemetryInv, SignalState, Shutdown
  <2>2. down \in SignalState
    <3>1. tel[s].live \ {tel[s].current} \in SUBSET (1 .. MaxProviders)
        BY SignalFacts DEF SignalState
    <3>2. tel[s].pending + 1 \in Nat /\ (tel[s].overlap \/ tel[s].pending > 0) \in BOOLEAN
        BY SignalFacts DEF SignalState
    <3> QED  BY <3>1, <3>2, SignalFacts DEF SignalState
  <2>3. Bounded(down, calls')
      BY SignalFacts DEF Good, SignalState, Bounded
  <2>4. Sound(down)
      BY <1>3, SignalFacts DEF Good, SignalState, Sound
  <2>5. Fresh(down) /\ (s = "traces" => Registered(down))
      BY SignalFacts DEF SignalState, Fresh, Registered
  <2>6. InstrumentsFollow' /\ cached' \in [Instruments -> 0 .. Unmade]
    <3>1. down.closed
        BY SignalFacts DEF SignalState
    <3> QED  BY <2>1, <3>1, InstrumentsStay DEF Shutdown
  <2> QED  BY <1>1, <2>1, <2>2, <2>3, <2>4, <2>5, <2>6, OneSignalChanges DEF Good
<1> QED BY <1>2, <1>3

LEMMA ShutdownEndKeeps ==
    ASSUME TelemetryInv, NEW s \in Signals, ShutdownEnds(s) \/ ShutdownFails(s),
           UNCHANGED calls
    PROVE  TelemetryInv'
<1> DEFINE down == [tel[s] EXCEPT !.pending = @ - 1, !.current = Noop, !.on = FALSE]
           kept == [tel[s] EXCEPT !.pending = @ - 1, !.failed = TRUE]
<1>1. calls' \in 0 .. MaxCalls /\ calls <= calls' /\ calls' = calls
    BY SignalFacts DEF TelemetryInv
<1>2. tel[s].pending > 0 /\ UNCHANGED cached /\ tel[s].closed
    BY SignalFacts DEF ShutdownEnds, ShutdownFails, Good, Fresh, SignalState
<1>3. CASE ShutdownEnds(s)
  <2>1. tel' = [tel EXCEPT ![s] = down]
      BY <1>3, SignalFacts DEF TelemetryInv, SignalState, ShutdownEnds
  <2>2. down \in SignalState
    <3>1. tel[s].pending - 1 \in Nat /\ Noop \in 0 .. MaxProviders
        BY <1>2, SignalFacts DEF SignalState, Noop
    <3> QED  BY <3>1, SignalFacts DEF SignalState
  <2>3. Bounded(down, calls')
      BY <1>1, SignalFacts DEF Good, SignalState, Bounded, Noop
  <2>4. Sound(down)
      BY <1>2, SignalFacts DEF Good, SignalState, Sound
  <2>5. down.closed
      BY <1>2, SignalFacts DEF SignalState
  <2>6. InstrumentsFollow' /\ cached' \in [Instruments -> 0 .. Unmade]
      BY <1>2, <2>1, <2>5, InstrumentsStay
  <2> QED  BY <1>1, <2>1, <2>2, <2>3, <2>4, <2>5, <2>6, OneSignalChanges
           DEF Good, Fresh, Registered
<1>4. CASE ShutdownFails(s)
  <2>1. tel' = [tel EXCEPT ![s] = kept]
      BY <1>4, SignalFacts DEF TelemetryInv, SignalState, ShutdownFails
  <2>2. kept \in SignalState
    <3>1. tel[s].pending - 1 \in Nat
        BY <1>2, SignalFacts DEF SignalState
    <3> QED  BY <3>1, SignalFacts DEF SignalState
  <2>3. Bounded(kept, calls')
      BY <1>1, SignalFacts DEF Good, SignalState, Bounded
  <2>4. Sound(kept)
      BY <1>2, SignalFacts DEF Good, SignalState, Sound
  <2>5. kept.closed
      BY <1>2, SignalFacts DEF SignalState
  <2>6. InstrumentsFollow' /\ cached' \in [Instruments -> 0 .. Unmade]
      BY <1>2, <2>1, <2>5, InstrumentsStay
  <2> QED  BY <1>1, <2>1, <2>2, <2>3, <2>4, <2>5, <2>6, OneSignalChanges
           DEF Good, Fresh, Registered
<1> QED BY <1>3, <1>4

LEMMA ResetKeeps ==
    ASSUME TelemetryInv, NEW s \in Signals, Reset(s),
           calls < MaxCalls, calls' = calls + 1
    PROVE  TelemetryInv'
<1> DEFINE blank ==
              [tel[s] EXCEPT !.on = FALSE, !.current = Noop, !.global = Noop,
                !.live = @ \ {tel[s].current},
                !.early = FALSE, !.failed = FALSE,
                !.closed = tel[s].pending > 0,
                !.overlap = @ \/ tel[s].pending > 0]
<1>1. calls' \in 0 .. MaxCalls /\ calls <= calls'
    BY SignalFacts
<1>2. tel' = [tel EXCEPT ![s] = blank]
    BY SignalFacts DEF TelemetryInv, SignalState, Reset, ResetState
<1>3. blank \in SignalState
  <2>1. tel[s].live \ {tel[s].current} \in SUBSET (1 .. MaxProviders)
      BY SignalFacts DEF SignalState
  <2>2. /\ Noop \in 0 .. MaxProviders
        /\ (tel[s].pending > 0) \in BOOLEAN
        /\ (tel[s].overlap \/ tel[s].pending > 0) \in BOOLEAN
      BY SignalFacts DEF SignalState, Noop
  <2> QED  BY <2>1, <2>2, SignalFacts DEF SignalState
<1>4. Bounded(blank, calls')
    BY SignalFacts DEF Good, SignalState, Bounded, Noop
<1>5. Sound(blank) /\ Fresh(blank)
    BY SignalFacts DEF Good, SignalState, Sound, Fresh
<1>6. Registered(blank)
    BY SignalFacts DEF SignalState, Registered
<1>7. InstrumentsFollow' /\ cached' \in [Instruments -> 0 .. Unmade]
  <2>1. CASE s = "metrics"
    <3>1. cached' = [i \in Instruments |-> Unmade]
        BY <2>1 DEF Reset
    <3> QED  BY <3>1, SignalFacts DEF InstrumentsFollow
  <2>2. CASE s = "traces"
    <3>1. UNCHANGED cached
        BY <2>2 DEF Reset
    <3> QED  BY <1>2, <2>2, <3>1, InstrumentsStay
  <2> QED  BY <2>1, <2>2 DEF Signals
<1> QED BY <1>1, <1>2, <1>3, <1>4, <1>5, <1>6, <1>7, OneSignalChanges DEF Good

LEMMA MadeType ==
    ASSUME TelemetryInv, NEW i \in Instruments
    PROVE  /\ Made(i) \in 0 .. MaxProviders
           /\ Made(i) # Unmade
<1>1. "metrics" \in Signals
    BY DEF Signals
<1>2. tel["metrics"].current \in 0 .. MaxProviders
    BY <1>1, SignalFacts DEF SignalState
<1> QED BY <1>1, <1>2, SignalFacts DEF Made, TelemetryInv

LEMMA UseKeeps ==
    ASSUME TelemetryInv, NEW used, UseInstruments(used)
    PROVE  TelemetryInv'
<1> DEFINE m == [tel["metrics"] EXCEPT !.early = @ \/ tel["metrics"].current = Noop]
<1>1. "metrics" \in Signals /\ calls' = calls
      /\ calls' \in 0 .. MaxCalls /\ calls <= calls'
    BY SignalFacts DEF Signals, UseInstruments, TelemetryInv
<1>2. tel' = [tel EXCEPT !["metrics"] = m]
    BY <1>1, SignalFacts DEF TelemetryInv, SignalState, UseInstruments
<1>3. m \in SignalState
    BY <1>1, SignalFacts DEF SignalState
<1>4. Bounded(m, calls')
    BY <1>1, SignalFacts DEF Good, SignalState, Bounded
<1>5. Sound(m) /\ Fresh(m)
    BY <1>1, SignalFacts DEF Good, SignalState, Sound, Fresh
<1>6. cached' \in [Instruments -> 0 .. Unmade]
    BY <1>1, MadeType, SignalFacts DEF UseInstruments, TelemetryInv
<1>7. InstrumentsFollow'
  <2>1. tel'["metrics"] = m /\ m.closed = tel["metrics"].closed
        /\ m.current = tel["metrics"].current
        /\ (~m.early => ~tel["metrics"].early /\ m.current # Noop)
      BY <1>1, <1>2, SignalFacts DEF TelemetryInv, SignalState
  <2>2. ASSUME ~m.closed, ~m.early, NEW i \in Instruments, cached'[i] # Unmade
        PROVE  cached'[i] = m.current /\ m.current # Noop
      BY <2>1, <2>2 DEF UseInstruments, Made, TelemetryInv, InstrumentsFollow
  <2> QED  BY <2>1, <2>2 DEF InstrumentsFollow
<1> QED BY <1>1, <1>2, <1>3, <1>4, <1>5, <1>6, <1>7, OneSignalChanges DEF Good

LEMMA TelemetryKeeps == TelemetryInv /\ TelemetryNext => TelemetryInv'
BY StartKeeps, ShutdownKeeps, ShutdownEndKeeps, ResetKeeps DEF TelemetryNext

LEMMA TelemetryStays ==
    TelemetryInv /\ UNCHANGED telemetryVars => TelemetryInv'
<1> SUFFICES ASSUME TelemetryInv, UNCHANGED telemetryVars
             PROVE  TelemetryInv'
    OBVIOUS
<1>1. tel' = tel /\ cached' = cached /\ calls' = calls
    BY DEF telemetryVars
<1>2. InstrumentsFollow'
    BY <1>1 DEF TelemetryInv, InstrumentsFollow
<1> QED BY <1>1, <1>2 DEF TelemetryInv

-----------------------------------------------------------------------------
(* Operations *)

LEMMA ClientStarts == ClientInit => ClientInv
<1> SUFFICES ASSUME ClientInit PROVE ClientInv
    OBVIOUS
<1>1. TelemetryInv /\ MaxProviders \in Nat
    BY TelemetryStarts, TelemetryAssumption DEF ClientInit, TelemetryAssumption
<1>2. NotSent \in Operation
    BY <1>1, ClientAssumption DEF ClientAssumption, NotSent, Operation, Noop
<1>3. req \in [Requests -> Operation] /\ \A r \in Requests : req[r].under = 0
    BY <1>2 DEF ClientInit, NotSent, Noop
<1>4. recorded \in [Providers -> [Instruments -> Nat]]
    BY DEF ClientInit
<1>5. tel["metrics"].made = 0 /\ ~Arrives("metrics")
    BY DEF ClientInit, TelemetryInit, Signals, Arrives
<1>6. NothingAhead /\ CountsAddUp
    BY <1>3, <1>5 DEF ClientInit, NothingAhead, CountsAddUp
<1> QED BY <1>1, <1>3, <1>4, <1>6 DEF ClientInv

\* After a step of the telemetry, metrics that are in order were so before, with
\* the same provider, or have a provider made in this step.
LEMMA MetricsMove ==
    ASSUME TelemetryInv, TelemetryNext
    PROVE  LET m == tel["metrics"]
               n == tel'["metrics"]
           IN /\ m.made \in Nat /\ n.made \in Nat /\ m.made <= n.made
              /\ Arrives("metrics")' =>
                   \/ Arrives("metrics") /\ n.current = m.current
                   \/ n.current = m.made + 1
<1> DEFINE m == tel["metrics"]
           n == tel'["metrics"]
<1>1. "metrics" \in Signals /\ m \in SignalState /\ tel \in [Signals -> SignalState]
      /\ m.made \in Nat
    BY SignalFacts DEF Signals, SignalState, TelemetryInv
<1>2. PICK s \in Signals :
         \/ \E env \in Environments : StartSignal(s, env)
         \/ Shutdown(s) \/ Reset(s) \/ ShutdownEnds(s) \/ ShutdownFails(s)
    BY DEF TelemetryNext
<1>3. CASE s # "metrics"
  <2>1. n = m
      BY <1>1, <1>2, <1>3 DEF StartSignal, Shutdown, Reset, ResetState,
                              ShutdownEnds, ShutdownFails
  <2> QED  BY <1>1, <2>1 DEF Arrives
<1>4. ASSUME s = "metrics", NEW env \in Environments, StartSignal(s, env)
      PROVE  /\ m.made <= n.made /\ n.made \in Nat
             /\ n.closed = m.closed /\ n.early = m.early
             /\ n.current = m.current \/ n.current = m.made + 1
    BY <1>1, <1>4 DEF StartSignal, SignalState
<1>5. ASSUME s = "metrics", Shutdown(s) \/ Reset(s) \/ ShutdownEnds(s) \/ ShutdownFails(s)
      PROVE  /\ n.made = m.made
             /\ n.current = Noop \/ n.current = m.current
             /\ n.current # Noop =>
                  (n.closed = m.closed \/ n.closed) /\ n.early = m.early
    BY <1>1, <1>5 DEF Shutdown, Reset, ResetState, ShutdownEnds, ShutdownFails,
                      SignalState
<1> QED BY <1>1, <1>2, <1>3, <1>4, <1>5 DEF Arrives

LEMMA TelemetryStepKeeps ==
    ASSUME ClientInv, TelemetryNext, UNCHANGED <<req, recorded>>
    PROVE  ClientInv'
<1>1. TelemetryInv /\ TelemetryInv'
    BY TelemetryKeeps DEF ClientInv
<1> DEFINE m == tel["metrics"]
           n == tel'["metrics"]
<1>2. /\ m.made \in Nat /\ n.made \in Nat /\ m.made <= n.made
      /\ Arrives("metrics")' =>
           \/ Arrives("metrics") /\ n.current = m.current
           \/ n.current = m.made + 1
    BY <1>1, MetricsMove
<1>3. \A r \in Requests : req[r].under \in Nat
    BY TelemetryAssumption DEF TelemetryAssumption, ClientInv, Operation
<1>4. Providers \subseteq Nat
    BY DEF Providers
<1>5. NothingAhead'
    BY <1>2, <1>3, <1>4 DEF ClientInv, NothingAhead
<1>6. CountsAddUp'
  <2> SUFFICES ASSUME Arrives("metrics")', NEW i \in Instruments
               PROVE  recorded[n.current][i]
                        = Cardinality({r \in Requests : Belongs(r, i, n.current)})
      BY DEF CountsAddUp, Belongs, At
  <2>1. CASE Arrives("metrics") /\ n.current = m.current
      BY <2>1 DEF ClientInv, CountsAddUp
  <2>2. CASE n.current = m.made + 1
    <3>1. n \in SignalState /\ n.current # Noop
        BY <1>1 DEF TelemetryInv, Signals, Arrives
    <3>2. n.current \in Providers
        BY <3>1, TelemetryAssumption
           DEF TelemetryAssumption, SignalState, Providers, Noop
    <3>3. recorded[n.current][i] = 0
        BY <1>2, <2>2, <3>2 DEF ClientInv, NothingAhead
    <3>4. \A r \in Requests : req[r].under # n.current
        BY <1>2, <1>3, <2>2 DEF ClientInv, NothingAhead
    <3>5. {r \in Requests : Belongs(r, i, n.current)} = {}
        BY <3>4 DEF Belongs
    <3> QED  BY <3>3, <3>5, FS_EmptySet
  <2> QED  BY <1>2, <2>1, <2>2
<1> QED BY <1>1, <1>5, <1>6 DEF ClientInv

\* One operation goes on without being measured, and had not ended before or
\* keeps how it ended.
LEMMA OperationGoesOn ==
    ASSUME ClientInv, NEW r \in Requests, Unmeasured,
           NEW o \in Operation, req' = [req EXCEPT ![r] = o],
           o.under = req[r].under,
           o.pc = "settled" <=> req[r].pc = "settled",
           o.pc = "settled" => o.result = req[r].result
    PROVE  ClientInv'
<1>1. /\ tel' = tel /\ recorded' = recorded
      /\ req \in [Requests -> Operation] /\ req' \in [Requests -> Operation]
      /\ TelemetryInv'
    BY TelemetryStays DEF ClientInv, Unmeasured, telemetryVars
<1>2. \A q \in Requests : /\ req'[q].under = req[q].under
                          /\ req'[q].pc = "settled" <=> req[q].pc = "settled"
                          /\ req'[q].pc = "settled" => req'[q].result = req[q].result
    BY <1>1
<1>3. NothingAhead'
    BY <1>1, <1>2 DEF ClientInv, NothingAhead
<1>4. CountsAddUp'
  <2> DEFINE p == tel["metrics"].current
  <2>1. \A i \in Instruments : {q \in Requests : Belongs(q, i, p)}
                                = {q \in Requests : Belongs(q, i, p)'}
      BY <1>1, <1>2 DEF Belongs, At
  <2>2. Arrives("metrics")' <=> Arrives("metrics")
      BY <1>1 DEF Arrives
  <2> SUFFICES ASSUME Arrives("metrics"), NEW i \in Instruments
               PROVE  recorded[p][i] = Cardinality({q \in Requests : Belongs(q, i, p)'})
      BY <1>1, <2>2 DEF CountsAddUp, Belongs, At
  <2> QED  BY <2>1 DEF ClientInv, CountsAddUp
<1> QED BY <1>1, <1>3, <1>4 DEF ClientInv, Unmeasured

\* The clauses catch and finally add one to an instrument or leave it.
LEMMA OneMeasurement ==
    ASSUME NEW r \in Requests, NEW result, NEW i \in Instruments
    PROVE  Caught(r, result, i) + Finally(r, i)
             = IF KindOf[r] = i[1] /\ (i[2] = "errors" => result = "rejected")
               THEN 1 ELSE 0
<1>1. PICK k \in Kinds, m \in {"total", "duration", "errors"} : i = <<k, m>>
    BY DEF Instruments
<1>2. i[1] = k /\ i[2] = m
    BY <1>1
<1>3. CASE m = "errors"
    BY <1>1, <1>2, <1>3 DEF Caught, Finally
<1>4. CASE m \in {"total", "duration"}
    BY <1>1, <1>2, <1>4 DEF Caught, Finally
<1> QED BY <1>3, <1>4

LEMMA ConcludeKeeps ==
    ASSUME ClientInv, NEW r \in Requests, ~At(r, "settled"),
           NEW result \in {"value", "nothing", "rejected"}, Conclude(r, result)
    PROVE  ClientInv'
<1> DEFINE adds(i) == Caught(r, result, i) + Finally(r, i)
           m == tel["metrics"]
           o == [req[r] EXCEPT !.pc = "settled", !.result = result,
                   !.timer = IF @ = "fired" THEN @ ELSE "none", !.under = m.current]
<1>1. /\ req \in [Requests -> Operation] /\ req[r] \in Operation
      /\ recorded \in [Providers -> [Instruments -> Nat]]
      /\ TelemetryInv
    BY DEF ClientInv
<1>2. "metrics" \in Signals /\ m \in SignalState /\ Good(m, calls)
    BY <1>1, SignalFacts DEF Signals
<1>3. PICK used : UseInstruments(used)
    BY DEF Conclude
<1>4. TelemetryInv'
    BY <1>1, <1>3, UseKeeps
<1>5. /\ tel'["metrics"].current = m.current /\ tel'["metrics"].made = m.made
      /\ Arrives("metrics")' => Arrives("metrics")
    BY <1>1, <1>2, <1>3 DEF UseInstruments, Arrives, TelemetryInv, SignalState
<1>6. o \in Operation /\ req' = [req EXCEPT ![r] = o]
    BY <1>1, <1>2 DEF Conclude, Operation, SignalState
<1>7. req' \in [Requests -> Operation]
    BY <1>1, <1>6
<1>8. /\ req'[r].pc = "settled" /\ req'[r].result = result /\ req'[r].under = m.current
      /\ \A q \in Requests \ {r} : req'[q] = req[q]
    BY <1>1, <1>6 DEF Operation
<1>9. \A i \in Instruments : adds(i) \in {0, 1}
    BY OneMeasurement
<1>10. recorded' = [p \in Providers |-> [i \in Instruments |->
                     IF p = Made(i) /\ p \in m.live
                     THEN recorded[p][i] + adds(i) ELSE recorded[p][i]]]
    BY DEF Conclude
<1>11. recorded' \in [Providers -> [Instruments -> Nat]]
  <2> HIDE DEF adds, m
  <2>1. \A p \in Providers : \A i \in Instruments :
          (IF p = Made(i) /\ p \in m.live
           THEN recorded[p][i] + adds(i) ELSE recorded[p][i]) \in Nat
      BY <1>1, <1>9
  <2> QED  BY <1>10, <2>1
<1>12. NothingAhead'
  <2>1. m.current <= m.made /\ m.live \subseteq 1 .. m.made /\ m.made \in Nat
      BY <1>2 DEF Good, Bounded, SignalState
  <2>2. \A q \in Requests : req'[q].under <= m.made
      BY <1>8, <2>1 DEF ClientInv, NothingAhead
  <2>3. ASSUME NEW p \in Providers, NEW i \in Instruments, p > m.made
        PROVE  recorded'[p][i] = 0
    <3>1. p \notin m.live
        BY <2>1, <2>3 DEF Providers
    <3> HIDE DEF adds, m
    <3>2. recorded'[p][i] = recorded[p][i]
        BY <1>10, <3>1
    <3> QED  BY <2>3, <3>2 DEF ClientInv, NothingAhead, m
  <2> QED  BY <1>5, <2>2, <2>3 DEF NothingAhead
<1>13. CountsAddUp'
  <2> DEFINE p == m.current
  <2> SUFFICES ASSUME Arrives("metrics"), NEW i \in Instruments
               PROVE  recorded'[p][i] = Cardinality({q \in Requests : Belongs(q, i, p)'})
      BY <1>5 DEF CountsAddUp, Belongs, At
  <2> DEFINE S == {q \in Requests : Belongs(q, i, p)}
             T == {q \in Requests : Belongs(q, i, p)'}
  <2>1. p \in m.live /\ p \in Providers /\ Made(i) = p
    <3>1. p \in m.live
        BY <1>2 DEF Good, Fresh, Arrives
    <3>2. cached[i] # Unmade => cached[i] = p
        BY <1>1 DEF TelemetryInv, InstrumentsFollow, Arrives
    <3> QED  BY <1>2, <3>1, <3>2 DEF Made, SignalState, Providers
  <2>2. recorded'[p][i] = recorded[p][i] + adds(i)
    <3> HIDE DEF adds, p, m
    <3> QED  BY <1>10, <2>1
  <2>3. recorded[p][i] = Cardinality(S) /\ recorded[p][i] \in Nat
      BY <1>1, <2>1 DEF ClientInv, CountsAddUp
  <2>4. IsFiniteSet(S)
      BY ClientAssumption, FS_Subset DEF ClientAssumption
  <2>5. r \notin S
      BY DEF Belongs
  <2>6. CASE KindOf[r] = i[1] /\ (i[2] = "errors" => result = "rejected")
    <3>1. adds(i) = 1
        BY <2>6, OneMeasurement
    <3>2. T = S \cup {r}
        BY <1>5, <1>8, <2>6 DEF Belongs, At
    <3>3. Cardinality(T) = Cardinality(S) + 1
        BY <2>4, <2>5, <3>2, FS_AddElement
    <3> QED  BY <2>2, <2>3, <3>1, <3>3
  <2>7. CASE ~(KindOf[r] = i[1] /\ (i[2] = "errors" => result = "rejected"))
    <3>1. adds(i) = 0
        BY <2>7, OneMeasurement
    <3>2. T = S
        BY <1>5, <1>8, <2>5, <2>7 DEF Belongs, At
    <3> QED  BY <2>2, <2>3, <3>1, <3>2
  <2> QED  BY <2>6, <2>7
<1> QED BY <1>4, <1>7, <1>11, <1>12, <1>13 DEF ClientInv

LEMMA ClientStepKeeps ==
    ASSUME ClientInv, NEW r \in Requests, ClientStep(r)
    PROVE  ClientInv'
<1>0. req[r] \in Operation /\ req \in [Requests -> Operation] /\ Cap \in Nat
    BY ClientAssumption DEF ClientInv, ClientAssumption
<1>1. ASSUME NEW timed \in BOOLEAN, Send(r, timed) PROVE ClientInv'
  <2> DEFINE o == [req[r] EXCEPT !.pc = "fetch",
                     !.timer = IF timed THEN "armed" ELSE "none"]
  <2>1. o \in Operation /\ req' = [req EXCEPT ![r] = o]
      BY <1>0, <1>1 DEF Send, Operation
  <2>2. o.under = req[r].under /\ o.pc = "fetch"
      BY <1>0 DEF Operation
  <2> HIDE DEF o
  <2> QED  BY <1>1, <2>1, <2>2, OperationGoesOn DEF Send, At
<1>2. CASE Malformed(r)
  <2> DEFINE o == [req[r] EXCEPT !.pc = "malformed", !.result = "rejected"]
  <2>1. o \in Operation /\ req' = [req EXCEPT ![r] = o]
      BY <1>0, <1>2 DEF Malformed, Operation
  <2>2. o.under = req[r].under /\ o.pc = "malformed"
      BY <1>0 DEF Operation
  <2> HIDE DEF o
  <2> QED  BY <1>2, <2>1, <2>2, OperationGoesOn DEF Malformed, At
<1>3. CASE Elapse(r)
  <2> DEFINE o == [req[r] EXCEPT !.timer = "fired"]
  <2>1. o \in Operation /\ req' = [req EXCEPT ![r] = o]
      BY <1>0, <1>3 DEF Elapse, Operation
  <2>2. o.under = req[r].under
        /\ o.pc = req[r].pc /\ o.result = req[r].result
      BY <1>0 DEF Operation
  <2> HIDE DEF o
  <2> QED  BY <1>3, <2>1, <2>2, OperationGoesOn DEF Elapse
<1>4. ASSUME NEW pc \in {"read", "text"}, At(r, "fetch"), Goes(r, pc)
      PROVE  ClientInv'
  <2> DEFINE o == [req[r] EXCEPT !.pc = pc]
  <2>1. o \in Operation /\ req' = [req EXCEPT ![r] = o]
      BY <1>0, <1>4 DEF Goes, Operation
  <2>2. o.under = req[r].under /\ o.pc = pc
      BY <1>0 DEF Operation
  <2> HIDE DEF o
  <2> QED  BY <1>4, <2>1, <2>2, OperationGoesOn DEF Goes, At
<1>5. CASE ChunkArrives(r)
  <2> DEFINE pc == IF req[r].received + 1 > Cap THEN "cancel" ELSE "read"
             o == [req[r] EXCEPT !.received = @ + 1, !.pc = pc]
  <2>1. req[r].received + 1 \in 0 .. Cap + 1
      BY <1>0, <1>5 DEF ChunkArrives, Operation
  <2>2. o \in Operation /\ req' = [req EXCEPT ![r] = o]
      BY <1>0, <1>5, <2>1 DEF ChunkArrives, Operation
  <2>3. o.under = req[r].under /\ o.pc = pc
        /\ pc # "settled"
      BY <1>0 DEF Operation
  <2> HIDE DEF o, pc
  <2> QED  BY <1>5, <2>2, <2>3, OperationGoesOn DEF ChunkArrives, At
<1>6. CASE FetchFails(r) \/ Answer(r) \/ TextArrives(r) \/ BodyEnds(r)
           \/ Cancelled(r) \/ ReadFails(r) \/ Perform(r) \/ Interrupt(r)
  <2>1. ~At(r, "settled")
      BY <1>6 DEF FetchFails, Answer, TextArrives, BodyEnds, Cancelled,
                  ReadFails, Perform, Interrupt, At
  <2>2. PICK result \in {"value", "nothing", "rejected"} : Conclude(r, result)
      BY <1>6 DEF FetchFails, Answer, TextArrives, BodyEnds, Cancelled,
                  ReadFails, Perform, Interrupt
  <2> QED  BY <2>1, <2>2, ConcludeKeeps
<1> QED BY <1>1, <1>2, <1>3, <1>4, <1>5, <1>6 DEF ClientStep, AnswerBody

LEMMA ClientKeeps == ClientInv /\ [ClientNext]_clientVars => ClientInv'
<1> SUFFICES ASSUME ClientInv, [ClientNext]_clientVars PROVE ClientInv'
    OBVIOUS
<1>1. CASE TelemetryNext /\ UNCHANGED <<req, recorded>>
    BY <1>1, TelemetryStepKeeps
<1>2. ASSUME NEW r \in Requests, ClientStep(r) PROVE ClientInv'
    BY <1>2, ClientStepKeeps
<1>3. CASE UNCHANGED clientVars
  <2>1. TelemetryInv' /\ tel' = tel /\ req' = req /\ recorded' = recorded
      BY <1>3, TelemetryStays DEF ClientInv, clientVars, telemetryVars
  <2>2. NothingAhead' /\ CountsAddUp'
      BY <2>1 DEF ClientInv, NothingAhead, CountsAddUp, Arrives, Belongs, At
  <2> QED  BY <2>1, <2>2 DEF ClientInv
<1> QED BY <1>1, <1>2, <1>3 DEF ClientNext

LEMMA ClientAlways == ClientSpec => []ClientInv
<1>1. ClientInit => ClientInv
    BY ClientStarts
<1>2. ClientInv /\ [ClientNext]_clientVars => ClientInv'
    BY ClientKeeps
<1> QED BY <1>1, <1>2, PTL DEF ClientSpec

-----------------------------------------------------------------------------
(* What a reader should know *)

LEMMA InvImpliesType == ClientInv => ClientTypeOK
<1> SUFFICES ASSUME ClientInv PROVE ClientTypeOK
    OBVIOUS
<1>1. TelemetryTypeOK
  <2>1. ASSUME NEW s \in Signals
        PROVE  /\ tel[s].on \in BOOLEAN
               /\ tel[s].current \in 0 .. tel[s].made
               /\ tel[s].made \in 0 .. MaxProviders
               /\ tel[s].live \subseteq 1 .. tel[s].made
               /\ tel[s].pending \in 0 .. MaxCalls
               /\ tel[s].global \in 0 .. tel[s].made
    <3>1. TelemetryInv /\ calls <= MaxCalls
        BY SignalFacts DEF ClientInv, TelemetryInv
    <3>2. tel[s] \in SignalState /\ Bounded(tel[s], calls)
          /\ MaxProviders \in Nat /\ MaxCalls \in Nat /\ calls \in Nat
        BY <3>1, SignalFacts DEF Good
    <3> QED  BY <3>1, <3>2 DEF SignalState, Bounded
  <2> QED  BY <2>1 DEF ClientInv, TelemetryInv, TelemetryTypeOK
<1>2. ASSUME NEW r \in Requests
      PROVE  req[r] \in Operation
    BY DEF ClientInv
<1>3. recorded \in [Providers -> [Instruments -> Nat]]
    BY DEF ClientInv
<1> QED BY <1>1, <1>2, <1>3 DEF ClientTypeOK, Operation

\* Every state has the types the model declares; in particular no more than one
\* chunk past the cap is ever read of a body (http-client.ts:77).
THEOREM ClientTypeCorrect == ClientSpec => []ClientTypeOK
BY ClientAlways, InvImpliesType, PTL

\* As long as shutdowns and resets do not overlap, no live provider is lost; and
\* none that is dead is in use, however starts and awaited shutdowns interleave.
THEOREM LifecyclesAreSound == ClientSpec => []LifecycleIsSound
<1>1. ClientInv => LifecycleIsSound
    BY DEF LifecycleIsSound, ClientInv, TelemetryInv, Good, Sound
<1> QED BY <1>1, ClientAlways, PTL

\* Without a shutdown since the last reset, and if nothing was measured too
\* early, instruments and spans belong to the current provider.
THEOREM SignalsDoArrive == ClientSpec => []SignalsArrive
<1>1. ClientInv => SignalsArrive
    BY DEF ClientInv, TelemetryInv, InstrumentsFollow, Registered,
           SignalsArrive, Arrives
<1> QED BY <1>1, ClientAlways, PTL

\* The counters of the current provider add up to what the callers saw, for any
\* number of operations, whatever starts, shutdowns and resets came meanwhile:
\* none is counted twice, none is missed, and the errors are the rejections.
THEOREM CountersAddUp == ClientSpec => []CountsAddUp
<1>1. ClientInv => CountsAddUp
    BY DEF ClientInv
<1> QED BY <1>1, ClientAlways, PTL
=============================================================================
