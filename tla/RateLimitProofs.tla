--------------------------- MODULE RateLimitProofs ---------------------------
(***************************************************************************)
(* Proofs about RateLimit, for any clients, limit and window: a client     *)
(* gets at most two budgets within a window's length, wherever its windows *)
(* begin, and is refused only if it had its budget in that time.           *)
(*                                                                         *)
(* The idea: of the requests let through in the last Window milliseconds,  *)
(* those of the client's current window are the newest, as many as its     *)
(* entry counts, and all others are of the one window before.              *)
(***************************************************************************)
EXTENDS RateLimit, TLAPS

\* Ages rise along the list: the requests let through at most w milliseconds
\* ago are its first m.
NewestFirst ==
    \A c \in Clients : \A w \in Ages :
        \E m \in 0 .. Len(passed[c]) :
            \A i \in 1 .. Len(passed[c]) : passed[c][i] <= w <=> i <= m

\* As long as the window of c lasts, its count is that of the requests that are
\* at most as old as the window.
CountIsOfWindow ==
    \A c \in Clients : ~Expired(c) =>
        /\ count[c] <= Len(passed[c])
        /\ Len(passed[c]) - count[c] <= Allowance
        /\ \A i \in 1 .. Len(passed[c]) : passed[c][i] <= Window - left[c] <=> i <= count[c]

\* After it, no request is from this very millisecond and none from before it.
OneBudgetLeft ==
    \A c \in Clients : Expired(c) =>
        /\ Len(passed[c]) <= Allowance
        /\ \A i \in 1 .. Len(passed[c]) : passed[c][i] >= 1

RateInv ==
    /\ RateTypeOK
    /\ NewestFirst
    /\ CountIsOfWindow
    /\ OneBudgetLeft

-----------------------------------------------------------------------------
LEMMA RateConstants ==
    /\ Limit \in Nat /\ Window \in Nat /\ Window >= 1
    /\ Allowance \in Nat /\ Allowance >= 1 /\ Limit <= Allowance
    /\ \A a \in Ages : a \in Nat /\ a <= Window
    /\ 0 \in Ages
BY RateAssumption DEF RateAssumption, Allowance, Ages

\* The lists of ages, as sequences.
LEMMA AgesFacts ==
    ASSUME RateTypeOK, NEW c \in Clients
    PROVE  /\ passed[c] \in Seq(Ages)
           /\ Len(passed[c]) \in Nat
           /\ DOMAIN passed[c] = 1 .. Len(passed[c])
           /\ \A i \in 1 .. Len(passed[c]) : passed[c][i] \in Nat /\ passed[c][i] <= Window
           /\ count[c] \in Nat /\ count[c] <= Allowance
           /\ left[c] \in Int /\ left[c] >= -1 /\ left[c] <= Window
<1>1. passed[c] \in Seq(Ages)
    BY DEF RateTypeOK
<1>2. \A i \in 1 .. Len(passed[c]) : passed[c][i] \in Ages
    BY <1>1
<1> QED  BY <1>1, <1>2, RateConstants DEF RateTypeOK

\* One more request of this millisecond.
LEMMA OneMore ==
    ASSUME NEW ages \in Seq(Ages)
    PROVE  /\ <<0>> \o ages \in Seq(Ages)
           /\ Len(<<0>> \o ages) = Len(ages) + 1
           /\ (<<0>> \o ages)[1] = 0
           /\ \A i \in 2 .. Len(ages) + 1 : (<<0>> \o ages)[i] = ages[i - 1]
<1>1. <<0>> \in Seq(Ages) /\ Len(<<0>>) = 1 /\ <<0>>[1] = 0
    BY RateConstants
<1> QED  BY <1>1

\* A millisecond later: the list loses its end.
LEMMA OlderFacts ==
    ASSUME NEW ages \in Seq(Ages), NEW m \in 0 .. Len(ages),
           \A i \in 1 .. Len(ages) : ages[i] < Window <=> i <= m
    PROVE  /\ Older(ages) \in Seq(Ages)
           /\ Len(Older(ages)) = m
           /\ \A i \in 1 .. m : Older(ages)[i] = ages[i] + 1
<1>1. /\ DOMAIN ages = 1 .. Len(ages) /\ Len(ages) \in Nat
      /\ \A i \in 1 .. Len(ages) : ages[i] \in Ages
    OBVIOUS
<1>2. {k \in DOMAIN ages : ages[k] < Window} = 1 .. m
    BY <1>1
<1>3. Older(ages) = [i \in 1 .. m |-> ages[i] + 1]
    BY <1>2 DEF Older
<1>4. \A i \in 1 .. m : ages[i] + 1 \in Ages
    BY <1>1, RateConstants DEF Ages
<1>5. Older(ages) \in [1 .. m -> Ages]
    BY <1>3, <1>4
<1> QED  BY <1>3, <1>5

-----------------------------------------------------------------------------
LEMMA RateInitInv == RateInit => RateInv
<1> SUFFICES ASSUME RateInit PROVE RateInv
    OBVIOUS
<1>1. \A c \in Clients : /\ passed[c] = <<>> /\ Len(passed[c]) = 0
                         /\ count[c] = 0 /\ left[c] = -1
    BY DEF RateInit
<1>2. RateTypeOK
  <2>1. count \in [Clients -> 0 .. Allowance] /\ left \in [Clients -> -1 .. Window]
      BY RateConstants DEF RateInit
  <2>2. passed \in [Clients -> Seq(Ages)]
    <3>1. <<>> \in Seq(Ages)
        OBVIOUS
    <3> QED  BY <3>1 DEF RateInit
  <2> QED  BY <2>1, <2>2 DEF RateTypeOK
<1>3. NewestFirst
    BY <1>1 DEF NewestFirst
<1>4. CountIsOfWindow /\ OneBudgetLeft
    BY <1>1, RateConstants DEF CountIsOfWindow, OneBudgetLeft, Expired
<1> QED  BY <1>2, <1>3, <1>4 DEF RateInv

\* Other clients are not touched.
LEMMA AcceptsKeeps ==
    ASSUME RateInv, NEW c \in Clients, Accepts(c)
    PROVE  RateInv'
<1> DEFINE ages == passed[c]
<1>1. /\ passed' = [passed EXCEPT ![c] = <<0>> \o @]
      /\ ages \in Seq(Ages) /\ Len(ages) \in Nat
      /\ \A i \in 1 .. Len(ages) : ages[i] \in Nat /\ ages[i] <= Window
      /\ count[c] \in Nat /\ left[c] \in Int /\ left[c] >= -1 /\ left[c] <= Window
    BY AgesFacts DEF RateInv, Accepts, LetThrough
<1> DEFINE n == count'[c]
           l == left'[c]
<1>2. /\ count' = [count EXCEPT ![c] = n]
      /\ left' = [left EXCEPT ![c] = l]
      /\ \/ left[c] < 0 /\ n = 1 /\ l = Window
         \/ ~(left[c] < 0) /\ count[c] < Limit /\ n = count[c] + 1 /\ l = left[c]
  <2>1. count \in [Clients -> 0 .. Allowance] /\ left \in [Clients -> -1 .. Window]
      BY DEF RateInv, RateTypeOK
  <2>2. CASE Expired(c) /\ NewWindow(c)
      BY <2>1, <2>2 DEF Expired, NewWindow
  <2>3. CASE ~Expired(c) /\ ~AtLimit(c) /\ CountIn(c)
    <3>1. count[c] < Limit /\ ~(left[c] < 0)
        BY <1>1, <2>3, RateConstants DEF Expired, AtLimit
    <3>2. count' = [count EXCEPT ![c] = count[c] + 1] /\ left' = left
        BY <2>3 DEF CountIn
    <3> QED  BY <2>1, <3>1, <3>2
  <2> QED  BY <2>2, <2>3 DEF Accepts
<1> HIDE DEF n, l
<1> DEFINE now == <<0>> \o ages
<1>3. /\ now \in Seq(Ages) /\ Len(now) = Len(ages) + 1 /\ now[1] = 0
      /\ \A i \in 2 .. Len(now) : now[i] = ages[i - 1]
    BY <1>1, OneMore
<1>4. /\ passed'[c] = now /\ count'[c] = n /\ left'[c] = l
      /\ \A d \in Clients \ {c} : /\ passed'[d] = passed[d]
                                  /\ count'[d] = count[d]
                                  /\ left'[d] = left[d]
    BY <1>1, <1>2 DEF RateInv, RateTypeOK, n, l
<1> HIDE DEF now
<1> HIDE DEF ages
<1>5. RateTypeOK'
  <2>1. n \in 0 .. Allowance /\ l \in -1 .. Window
      BY <1>1, <1>2, RateConstants
  <2>2. passed' = [passed EXCEPT ![c] = now]
      BY <1>1 DEF now, ages
  <2> QED  BY <1>2, <1>3, <2>1, <2>2 DEF RateInv, RateTypeOK
<1>6. NewestFirst'
  <2> SUFFICES ASSUME NEW d \in Clients, NEW w \in Ages
               PROVE  \E m \in 0 .. Len(passed'[d]) :
                        \A i \in 1 .. Len(passed'[d]) : passed'[d][i] <= w <=> i <= m
      BY DEF NewestFirst
  <2>1. CASE d # c
      BY <1>4, <2>1 DEF RateInv, NewestFirst
  <2>2. CASE d = c
    <3>1. PICK m \in 0 .. Len(ages) : \A i \in 1 .. Len(ages) : ages[i] <= w <=> i <= m
        BY DEF RateInv, NewestFirst, ages
    <3>2. ASSUME NEW i \in 1 .. Len(now)
          PROVE  now[i] <= w <=> i <= m + 1
      <4>1. CASE i = 1
          BY <1>3, <3>1, <4>1, RateConstants
      <4>2. CASE i # 1
        <5>1. i - 1 \in 1 .. Len(ages) /\ now[i] = ages[i - 1]
            BY <1>1, <1>3, <4>2
        <5>2. ages[i - 1] <= w <=> i - 1 <= m
            BY <3>1, <5>1
        <5> QED  BY <1>1, <5>1, <5>2
      <4> QED  BY <4>1, <4>2
    <3>3. m + 1 \in 0 .. Len(now)
        BY <1>1, <1>3
    <3> QED  BY <1>4, <2>2, <3>2, <3>3
  <2> QED  BY <2>1, <2>2
<1>7. CountIsOfWindow'
  <2> SUFFICES ASSUME NEW d \in Clients, ~Expired(d)'
               PROVE  /\ count'[d] <= Len(passed'[d])
                      /\ Len(passed'[d]) - count'[d] <= Allowance
                      /\ \A i \in 1 .. Len(passed'[d]) :
                            passed'[d][i] <= Window - left'[d] <=> i <= count'[d]
      BY DEF CountIsOfWindow, Allowance
  <2>1. CASE d # c
      BY <1>4, <2>1 DEF RateInv, CountIsOfWindow, Expired
  <2>2. CASE d = c /\ left[c] < 0
    <3>1. n = 1 /\ l = Window
        BY <1>2, <2>2
    <3>2. Len(ages) <= Allowance /\ \A i \in 1 .. Len(ages) : ages[i] >= 1
        BY <2>2 DEF RateInv, OneBudgetLeft, Expired, ages
    <3>3. ASSUME NEW i \in 1 .. Len(now)
          PROVE  now[i] <= 0 <=> i <= 1
      <4>1. CASE i = 1
          BY <1>3, <4>1
      <4>2. CASE i # 1
        <5>1. i - 1 \in 1 .. Len(ages) /\ now[i] = ages[i - 1]
            BY <1>1, <1>3, <4>2
        <5> QED  BY <1>1, <3>2, <4>2, <5>1
      <4> QED  BY <4>1, <4>2
    <3>4. Window - l = 0 /\ n <= Len(now) /\ Len(now) - n <= Allowance
        BY <1>1, <1>3, <3>1, <3>2, RateConstants
    <3> QED  BY <1>4, <2>2, <3>1, <3>3, <3>4
  <2>3. CASE d = c /\ ~(left[c] < 0)
    <3>1. n = count[c] + 1 /\ l = left[c]
        BY <1>2, <2>3
    <3>2. /\ count[c] <= Len(ages)
          /\ Len(ages) - count[c] <= Allowance
          /\ \A i \in 1 .. Len(ages) : ages[i] <= Window - left[c] <=> i <= count[c]
        BY <2>3 DEF RateInv, CountIsOfWindow, Expired, ages
    <3>3. ASSUME NEW i \in 1 .. Len(now)
          PROVE  now[i] <= Window - left[c] <=> i <= count[c] + 1
      <4>1. CASE i = 1
          BY <1>1, <1>3, <4>1, RateConstants
      <4>2. CASE i # 1
        <5>1. i - 1 \in 1 .. Len(ages) /\ now[i] = ages[i - 1]
            BY <1>1, <1>3, <4>2
        <5>2. ages[i - 1] <= Window - left[c] <=> i - 1 <= count[c]
            BY <3>2, <5>1
        <5> QED  BY <1>1, <5>1, <5>2
      <4> QED  BY <4>1, <4>2
    <3>4. n <= Len(now) /\ Len(now) - n <= Allowance
        BY <1>1, <1>3, <3>1, <3>2, RateConstants
    <3> QED  BY <1>4, <2>3, <3>1, <3>3, <3>4
  <2> QED  BY <2>1, <2>2, <2>3
<1>8. OneBudgetLeft'
  <2> SUFFICES ASSUME NEW d \in Clients, Expired(d)'
               PROVE  /\ Len(passed'[d]) <= Allowance
                      /\ \A i \in 1 .. Len(passed'[d]) : passed'[d][i] >= 1
      BY DEF OneBudgetLeft, Allowance
  <2>1. d # c
      BY <1>1, <1>2, <1>4, RateConstants DEF Expired
  <2> QED  BY <1>4, <2>1 DEF RateInv, OneBudgetLeft, Expired
<1> QED  BY <1>5, <1>6, <1>7, <1>8 DEF RateInv

\* Time makes every request older, and lets go of those from before the window.
LEMMA TickKeeps ==
    ASSUME RateInv, Tick
    PROVE  RateInv'
<1>1. /\ count' = count
      /\ \A c \in Clients : /\ left'[c] = IF left[c] < 0 THEN -1 ELSE left[c] - 1
                            /\ passed'[c] = Older(passed[c])
    BY DEF Tick
<1>2. ASSUME NEW c \in Clients
      PROVE  \E m \in 0 .. Len(passed[c]) :
                /\ \A i \in 1 .. Len(passed[c]) : passed[c][i] < Window <=> i <= m
                /\ passed'[c] \in Seq(Ages)
                /\ Len(passed'[c]) = m
                /\ \A i \in 1 .. m : passed'[c][i] = passed[c][i] + 1
  <2>1. Window - 1 \in Ages
      BY RateConstants DEF Ages
  <2>2. PICK m \in 0 .. Len(passed[c]) :
            \A i \in 1 .. Len(passed[c]) : passed[c][i] <= Window - 1 <=> i <= m
      BY <2>1 DEF RateInv, NewestFirst
  <2>3. \A i \in 1 .. Len(passed[c]) : passed[c][i] < Window <=> i <= m
      BY <2>2, AgesFacts, RateConstants DEF RateInv
  <2>4. passed[c] \in Seq(Ages)
      BY AgesFacts DEF RateInv
  <2>5. /\ Older(passed[c]) \in Seq(Ages)
        /\ Len(Older(passed[c])) = m
        /\ \A i \in 1 .. m : Older(passed[c])[i] = passed[c][i] + 1
      BY <2>3, <2>4, OlderFacts
  <2> QED  BY <1>1, <2>3, <2>5
<1>3. RateTypeOK'
  <2>1. \A c \in Clients : passed'[c] \in Seq(Ages) /\ left'[c] \in -1 .. Window
      BY <1>1, <1>2, AgesFacts, RateConstants DEF RateInv
  <2>2. passed' = [c \in Clients |-> passed'[c]] /\ left' = [c \in Clients |-> left'[c]]
      BY DEF Tick
  <2> QED  BY <1>1, <2>1, <2>2 DEF RateInv, RateTypeOK
<1>4. NewestFirst'
  <2> SUFFICES ASSUME NEW c \in Clients, NEW w \in Ages
               PROVE  \E k \in 0 .. Len(passed'[c]) :
                        \A i \in 1 .. Len(passed'[c]) : passed'[c][i] <= w <=> i <= k
      BY DEF NewestFirst
  <2>1. PICK m \in 0 .. Len(passed[c]) :
                /\ Len(passed'[c]) = m
                /\ \A i \in 1 .. m : passed'[c][i] = passed[c][i] + 1
      BY <1>2
  <2>2. /\ Len(passed[c]) \in Nat
        /\ \A i \in 1 .. Len(passed[c]) : passed[c][i] \in Nat
        /\ w \in Nat /\ w <= Window
      BY AgesFacts, RateConstants DEF RateInv
  <2>3. CASE w = 0
      BY <2>1, <2>2, <2>3
  <2>4. CASE w > 0
    <3>1. w - 1 \in Ages
        BY <2>2, <2>4, RateConstants DEF Ages
    <3>2. PICK k \in 0 .. Len(passed[c]) :
              \A i \in 1 .. Len(passed[c]) : passed[c][i] <= w - 1 <=> i <= k
        BY <3>1 DEF RateInv, NewestFirst
    <3>3. \A i \in 1 .. m : passed'[c][i] <= w <=> i <= k
        BY <2>1, <2>2, <3>2
    <3>4. CASE k <= m
      <4>1. k \in 0 .. m
          BY <2>2, <3>4
      <4> QED  BY <2>1, <3>3, <4>1
    <3>5. CASE k > m
      <4>1. m \in 0 .. m /\ \A i \in 1 .. m : passed'[c][i] <= w <=> i <= m
          BY <2>2, <3>3, <3>5
      <4> QED  BY <2>1, <4>1
    <3> QED  BY <2>2, <3>2, <3>4, <3>5
  <2> QED  BY <2>2, <2>3, <2>4
<1>5. CountIsOfWindow'
  <2> SUFFICES ASSUME NEW c \in Clients, ~Expired(c)'
               PROVE  /\ count[c] <= Len(passed'[c])
                      /\ Len(passed'[c]) - count[c] <= Allowance
                      /\ \A i \in 1 .. Len(passed'[c]) :
                            passed'[c][i] <= Window - left'[c] <=> i <= count[c]
      BY <1>1 DEF CountIsOfWindow, Allowance
  <2>1. /\ Len(passed[c]) \in Nat /\ count[c] \in Nat
        /\ left[c] \in Int /\ left[c] <= Window
        /\ \A i \in 1 .. Len(passed[c]) : passed[c][i] \in Nat
      BY AgesFacts DEF RateInv
  <2>2. left[c] > 0 /\ left'[c] = left[c] - 1
      BY <1>1, <2>1 DEF Expired
  <2>3. /\ count[c] <= Len(passed[c])
        /\ Len(passed[c]) - count[c] <= Allowance
        /\ \A i \in 1 .. Len(passed[c]) : passed[c][i] <= Window - left[c] <=> i <= count[c]
      BY <2>1, <2>2 DEF RateInv, CountIsOfWindow, Expired
  <2>4. PICK m \in 0 .. Len(passed[c]) :
                /\ \A i \in 1 .. Len(passed[c]) : passed[c][i] < Window <=> i <= m
                /\ Len(passed'[c]) = m
                /\ \A i \in 1 .. m : passed'[c][i] = passed[c][i] + 1
      BY <1>2
  <2>5. count[c] <= m
    <3>1. CASE count[c] = 0
        BY <2>4, <3>1
    <3>2. CASE count[c] \in 1 .. Len(passed[c])
      <4>1. passed[c][count[c]] < Window
          BY <2>1, <2>2, <2>3, <3>2, RateConstants
      <4> QED  BY <2>4, <3>2, <4>1
    <3> QED  BY <2>1, <2>3, <3>1, <3>2
  <2>6. ASSUME NEW i \in 1 .. m
        PROVE  passed'[c][i] <= Window - left'[c] <=> i <= count[c]
    <3>1. i \in 1 .. Len(passed[c]) /\ passed'[c][i] = passed[c][i] + 1
        BY <2>1, <2>4
    <3>2. passed[c][i] <= Window - left[c] <=> i <= count[c]
        BY <2>3, <3>1
    <3> QED  BY <2>1, <2>2, <3>1, <3>2, RateConstants
  <2> QED  BY <2>1, <2>3, <2>4, <2>5, <2>6, RateConstants
<1>6. OneBudgetLeft'
  <2> SUFFICES ASSUME NEW c \in Clients, Expired(c)'
               PROVE  /\ Len(passed'[c]) <= Allowance
                      /\ \A i \in 1 .. Len(passed'[c]) : passed'[c][i] >= 1
      BY DEF OneBudgetLeft, Allowance
  <2>1. /\ Len(passed[c]) \in Nat /\ count[c] \in Nat /\ count[c] <= Allowance
        /\ left[c] \in Int /\ left[c] >= -1
        /\ \A i \in 1 .. Len(passed[c]) : passed[c][i] \in Nat /\ passed[c][i] <= Window
      BY AgesFacts DEF RateInv
  <2>2. PICK m \in 0 .. Len(passed[c]) :
                /\ Len(passed'[c]) = m
                /\ \A i \in 1 .. m : passed'[c][i] = passed[c][i] + 1
      BY <1>2
  <2>3. Len(passed[c]) <= Allowance
    <3>1. CASE left[c] < 0
        BY <3>1 DEF RateInv, OneBudgetLeft, Expired
    <3>2. CASE left[c] = 0
      <4>1. \A i \in 1 .. Len(passed[c]) : i <= count[c]
          BY <2>1, <3>2, RateConstants DEF RateInv, CountIsOfWindow, Expired
      <4>2. Len(passed[c]) <= count[c]
          BY <2>1, <4>1
      <4> QED  BY <2>1, <4>2, RateConstants
    <3>3. left[c] <= 0
        BY <1>1, <2>1 DEF Expired
    <3> QED  BY <2>1, <3>1, <3>2, <3>3
  <2> QED  BY <2>1, <2>2, <2>3, RateConstants
<1> QED  BY <1>3, <1>4, <1>5, <1>6 DEF RateInv

LEMMA RateStepKeeps == RateInv /\ [RateNext]_rateVars => RateInv'
<1> SUFFICES ASSUME RateInv, [RateNext]_rateVars PROVE RateInv'
    OBVIOUS
<1>1. CASE UNCHANGED rateVars
    BY <1>1 DEF rateVars, RateInv, RateTypeOK, NewestFirst, CountIsOfWindow, OneBudgetLeft,
                Expired, Allowance
<1>2. ASSUME NEW c \in Clients, Refuses(c)
      PROVE  RateInv'
    BY <1>1, <1>2 DEF Refuses
<1> QED  BY <1>1, <1>2, AcceptsKeeps, TickKeeps DEF RateNext

LEMMA RateInvHolds == RateSpec => []RateInv
BY RateInitInv, RateStepKeeps, PTL DEF RateSpec

-----------------------------------------------------------------------------
\* No entry counts more than the limit, or 1 under a limit of 0, and no window
\* is longer than it should be (rate-limit.ts:26).
THEOREM RateTypeCorrect == RateSpec => []RateTypeOK
<1>1. RateInv => RateTypeOK
    BY DEF RateInv
<1> QED  BY RateInvHolds, <1>1, PTL

\* A client gets at most two budgets in any windowMs milliseconds, wherever its
\* windows begin (rate-limit.ts:26).
THEOREM TwoBudgetsAtMost == RateSpec => []AtMostTwoBudgets
<1>1. ASSUME RateInv, NEW c \in Clients
      PROVE  Recent(c) <= 2 * Allowance
  <2>1. /\ Len(passed[c]) \in Nat /\ count[c] \in Nat /\ count[c] <= Allowance
        /\ left[c] \in Int
      BY <1>1, AgesFacts DEF RateInv
  <2>2. CASE Expired(c)
      BY <1>1, <2>1, <2>2, RateConstants DEF RateInv, OneBudgetLeft, Recent
  <2>3. CASE ~Expired(c)
      BY <1>1, <2>1, <2>3, RateConstants DEF RateInv, CountIsOfWindow, Recent
  <2> QED  BY <2>2, <2>3
<1>2. RateInv => AtMostTwoBudgets
    BY <1>1 DEF AtMostTwoBudgets
<1> QED  BY RateInvHolds, <1>2, PTL

\* A client that is refused was let through Limit times in the last windowMs
\* milliseconds: it pays neither for others nor for what it did before
\* (rate-limit.ts:34).
THEOREM RefusedHadItsBudget == RateSpec => []RefusalsAreEarned
<1>1. ASSUME RateInv, NEW c \in Clients, ~Expired(c), AtLimit(c)
      PROVE  Recent(c) >= Limit
  <2>1. Len(passed[c]) \in Nat /\ count[c] \in Nat
      BY <1>1, AgesFacts DEF RateInv
  <2>2. count[c] <= Len(passed[c])
      BY <1>1 DEF RateInv, CountIsOfWindow
  <2> QED  BY <1>1, <2>1, <2>2, RateConstants DEF AtLimit, Recent
<1>2. RateInv => RefusalsAreEarned
    BY <1>1 DEF RefusalsAreEarned
<1> QED  BY RateInvHolds, <1>2, PTL
=============================================================================
