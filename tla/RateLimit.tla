------------------------------ MODULE RateLimit ------------------------------
(***************************************************************************)
(* The rate limiter (apps/server/src/middleware/rate-limit.ts).  A request *)
(* is judged, and its client's entry updated, before the one await of the  *)
(* middleware, so it is one step whatever runs at the same time.           *)
(*                                                                         *)
(* Times are distances to the present: left is resetTime - now, -1 once    *)
(* resetTime has passed.  An entry that has passed and one that was never  *)
(* made are the same to the code.                                          *)
(***************************************************************************)
EXTENDS Integers, Sequences

CONSTANTS
    Clients,        \* the keys: addresses, or "unknown"
    Limit,
    Window          \* windowMs, in ticks

ASSUME RateAssumption ==
    /\ Limit \in Nat
    /\ Window \in Nat \ {0}

VARIABLES
    count,          \* per client, the count of its entry
    left,           \* per client, the time to the resetTime of its entry
    passed          \* history: per client, how long ago its requests of the
                    \* last Window milliseconds were let through, newest first

rateVars == <<count, left, passed>>

Ages == 0 .. Window

\* The first request of a window is never refused, even under a limit of 0.
Allowance == IF Limit = 0 THEN 1 ELSE Limit

RateTypeOK ==
    /\ count \in [Clients -> 0 .. Allowance]
    /\ left \in [Clients -> -1 .. Window]
    /\ passed \in [Clients -> Seq(Ages)]

RateInit ==
    /\ count = [c \in Clients |-> 0]
    /\ left = [c \in Clients |-> -1]
    /\ passed = [c \in Clients |-> <<>>]

-----------------------------------------------------------------------------
LetThrough(c) == passed' = [passed EXCEPT ![c] = <<0>> \o @]

Expired(c) == left[c] < 0

\* (Mutation) The new window takes the count of the old one over.
CarryOver(c) ==
    /\ count' = [count EXCEPT ![c] = IF @ < Allowance THEN @ + 1 ELSE @]
    /\ left' = [left EXCEPT ![c] = Window]

NewWindow(c) ==
    /\ count' = [count EXCEPT ![c] = 1]
    /\ left' = [left EXCEPT ![c] = Window]

CountIn(c) ==
    /\ count' = [count EXCEPT ![c] = @ + 1]
    /\ UNCHANGED left

\* (Mutation) The comparison leaves room for one more.
OverLimit(c) == count[c] > Limit

AtLimit(c) == count[c] >= Limit

Accepts(c) ==
    /\ \/ Expired(c) /\ NewWindow(c)
       \/ ~Expired(c) /\ ~AtLimit(c) /\ CountIn(c)
    /\ LetThrough(c)

\* (Mutation) A refused request starts the window anew.
RefusesAndExtends(c) ==
    /\ ~Expired(c)
    /\ AtLimit(c)
    /\ left' = [left EXCEPT ![c] = Window]
    /\ UNCHANGED <<count, passed>>

\* The answer is 429, and the entry stays as it is.
Refuses(c) ==
    /\ ~Expired(c)
    /\ AtLimit(c)
    /\ UNCHANGED rateVars

\* What a millisecond more makes of ages: those of the whole window drop out.
Older(ages) == [i \in {k \in DOMAIN ages : ages[k] < Window} |-> ages[i] + 1]

\* A millisecond passes.
Tick ==
    /\ left' = [c \in Clients |-> IF left[c] < 0 THEN -1 ELSE left[c] - 1]
    /\ passed' = [c \in Clients |-> Older(passed[c])]
    /\ UNCHANGED count

RateNext ==
    \/ \E c \in Clients : Accepts(c) \/ Refuses(c)
    \/ Tick

RateSpec == RateInit /\ [][RateNext]_rateVars

-----------------------------------------------------------------------------
\* The requests of c let through in the last Window milliseconds and this one.
Recent(c) == Len(passed[c])

\* Windows are fixed, so a client that spends one budget at the end of a window
\* and one at the start of the next gets two within Window milliseconds, but
\* never more, wherever its windows begin.
AtMostTwoBudgets == \A c \in Clients : Recent(c) <= 2 * Allowance

\* A client is refused only if it had all of its budget in the time the window
\* covers, and never because of what it did before or of other clients.
RefusalsAreEarned ==
    \A c \in Clients : ~Expired(c) /\ AtLimit(c) => Recent(c) >= Limit

\* A client that is refused is let through later, even if it keeps asking.
RefusalsEnd == \A c \in Clients : (~Expired(c) /\ AtLimit(c)) ~> Expired(c)

RateFairSpec == RateSpec /\ WF_rateVars(Tick)
=============================================================================
