----------------------------- MODULE RateLimiter -----------------------------
(***************************************************************************)
(* The fixed-window rate limiter of the relayer proxy: a Durable Object    *)
(* per name (one global, one per client IP) that answers one check at a    *)
(* time.  Time is counted in ticks.                                        *)
(***************************************************************************)
EXTENDS Integers, Sequences, FiniteSets

CONSTANTS
    Names,      \* the limiters
    Limit,      \* requests each of them admits per window
    Window,     \* length of a window, in ticks
    Second,     \* ticks per second, the unit of Retry-After
    MaxTime     \* bound: the clock stops here

ASSUME RateAssumption ==
    /\ Limit \in [Names -> Nat \ {0}]
    /\ Window \in Nat \ {0}
    /\ Second \in Nat \ {0}
    /\ MaxTime \in Nat

VARIABLES
    now,       \* Date.now()
    window,    \* the RateState each limiter keeps
    granted    \* history: when each limiter admitted something, in order

limiterVars == <<now, window, granted>>

-----------------------------------------------------------------------------

\* No RateState is stored: the next check starts a window, as it does when the
\* stored one is over.
NoWindow == [start |-> -Window, count |-> 0]

LimiterInit ==
    /\ now = 0
    /\ window = [n \in Names |-> NoWindow]
    /\ granted = [n \in Names |-> << >>]

Tick ==
    /\ now < MaxTime
    /\ now' = now + 1
    /\ UNCHANGED <<window, granted>>

\* The window the check counts in: the stored one while it lasts.
Current(n) ==
    IF now - window[n].start >= Window
    THEN [start |-> now, count |-> 0]
    ELSE window[n]

\* The slip of admitting one more than the limit.
AdmitsOneMore(n) == Current(n).count <= Limit[n]
Admits(n) == Current(n).count < Limit[n]

\* The slip of forgetting the count.
Uncounted(w) == w
Counted(w) == [w EXCEPT !.count = @ + 1]

\* A check that is allowed is counted and the window saved.
Admit(n) ==
    /\ Admits(n)
    /\ window' = [window EXCEPT ![n] = Counted(Current(n))]
    /\ granted' = [granted EXCEPT ![n] = Append(@, now)]
    /\ UNCHANGED now

\* A check that is denied saves nothing and is not counted.
Deny(n) ==
    /\ ~Admits(n)
    /\ UNCHANGED limiterVars

\* The seconds until the window is over, rounded up and at least one.
RetryAfter(n) ==
    LET seconds == (window[n].start + Window - now + Second - 1) \div Second
    IN  IF seconds < 1 THEN 1 ELSE seconds

LimiterNext == Tick \/ \E n \in Names : Admit(n) \/ Deny(n)

LimiterSpec == LimiterInit /\ [][LimiterNext]_limiterVars

-----------------------------------------------------------------------------
(* Properties. *)

LimiterTypeOK ==
    /\ now \in 0..MaxTime
    /\ window \in [Names -> [start : Int, count : Nat]]
    /\ granted \in [Names -> Seq(Nat)]

\* What a history of admissions has from time a on and before time b.
Between(history, a, b) ==
    {i \in DOMAIN history : a <= history[i] /\ history[i] < b}

\* The open window has admitted what its count says, which is at most the
\* limit, starting with the admission that opened it; the stretch of nearly the
\* same length before it misses one, for that is where the last window opened
\* (RequestRateLimiter.fetch saves the count with every admission).
WindowsKeepTheLimit ==
    \A n \in Names :
        /\ window[n].start <= now
        /\ window[n].count <= Limit[n]
        /\ \A i \in DOMAIN granted[n] :
              granted[n][i] <= now /\ granted[n][i] < window[n].start + Window
        /\ Cardinality(Between(granted[n], window[n].start, now + 1)) = window[n].count
        /\ window[n] # NoWindow => \E i \in DOMAIN granted[n] : granted[n][i] = window[n].start
        /\ Cardinality(Between(granted[n], window[n].start - Window + 1, window[n].start))
              < Limit[n]

\* A fixed window lets a burst straddle its edge, but no more than that:
\* whatever the moment, a stretch as long as a window admits less than twice the
\* limit (the reset of RequestRateLimiter.fetch, "Atomic fixed-window limiter").
NoBurstBeyondTwoWindows ==
    \A n \in Names : \A t \in 0..MaxTime :
        Cardinality(Between(granted[n], t, t + Window)) < 2 * Limit[n]

=============================================================================
