-------------------------- MODULE RelayerProxyProofs --------------------------
(***************************************************************************)
(* Proofs about the rate limiter and about the proxy composed with it.     *)
(***************************************************************************)
EXTENDS RelayerProxy, FiniteSetTheorems, TLAPS

-----------------------------------------------------------------------------
(* The rate limiter. *)

LIInv == LimiterTypeOK /\ WindowsKeepTheLimit /\ NoBurstBeyondTwoWindows

\* What a history has in a stretch is a finite set.
LEMMA BetweenFinite ==
    ASSUME NEW s \in Seq(Nat), NEW a \in Int, NEW b \in Int
    PROVE  IsFiniteSet(Between(s, a, b)) /\ Cardinality(Between(s, a, b)) \in Nat
  <1>1. Between(s, a, b) \in SUBSET (1..Len(s))
    BY DEF Between
  <1>2. IsFiniteSet(1..Len(s))
    BY FS_Interval
  <1>3. IsFiniteSet(Between(s, a, b))
    BY <1>1, <1>2, FS_Subset
  <1> QED
    BY <1>3, FS_CardinalityType

\* A stretch that another one contains has no more.
LEMMA BetweenSubset ==
    ASSUME NEW s \in Seq(Nat),
           NEW a \in Int, NEW b \in Int, NEW c \in Int, NEW d \in Int,
           Between(s, a, b) \subseteq Between(s, c, d)
    PROVE  Cardinality(Between(s, a, b)) <= Cardinality(Between(s, c, d))
  BY BetweenFinite, FS_Subset

\* A stretch covered by two others has no more than both of them.
LEMMA BetweenCover ==
    ASSUME NEW s \in Seq(Nat), NEW a \in Int, NEW b \in Int,
           NEW c \in Int, NEW d \in Int, NEW e \in Int, NEW f \in Int,
           Between(s, a, b) \subseteq Between(s, c, d) \cup Between(s, e, f)
    PROVE  Cardinality(Between(s, a, b))
              <= Cardinality(Between(s, c, d)) + Cardinality(Between(s, e, f))
  <1> DEFINE S == Between(s, c, d)
             T == Between(s, e, f)
  <1>1. IsFiniteSet(S) /\ IsFiniteSet(T) /\ Cardinality(S) \in Nat /\ Cardinality(T) \in Nat
    BY BetweenFinite
  <1>2. /\ IsFiniteSet(S \cup T)
        /\ Cardinality(S \cup T) = Cardinality(S) + Cardinality(T) - Cardinality(S \cap T)
    BY <1>1, FS_Union
  <1>3. IsFiniteSet(S \cap T) /\ Cardinality(S \cap T) \in Nat
    <2>1. (S \cap T) \in SUBSET S
      OBVIOUS
    <2> QED
      BY <1>1, <2>1, FS_Subset, FS_CardinalityType
  <1>4. Cardinality(Between(s, a, b)) <= Cardinality(S \cup T)
    BY <1>2, FS_Subset
  <1>5. Cardinality(Between(s, a, b)) \in Nat
    BY BetweenFinite
  <1> QED
    BY <1>1, <1>2, <1>3, <1>4, <1>5

\* An admission adds itself to the stretches around it and to no other.
LEMMA BetweenAppend ==
    ASSUME NEW s \in Seq(Nat), NEW t \in Nat, NEW a \in Int, NEW b \in Int
    PROVE  /\ ~(a <= t /\ t < b) => Between(Append(s, t), a, b) = Between(s, a, b)
           /\ (a <= t /\ t < b) =>
                 Cardinality(Between(Append(s, t), a, b)) = Cardinality(Between(s, a, b)) + 1
  <1> DEFINE h == Append(s, t)
  <1>1. /\ DOMAIN h = 1..(Len(s) + 1)
        /\ DOMAIN s = 1..Len(s)
        /\ Len(s) \in Nat
        /\ \A i \in 1..Len(s) : h[i] = s[i]
        /\ h[Len(s) + 1] = t
    OBVIOUS
  <1> HIDE DEF h
  <1>2. (a <= t /\ t < b) => Between(h, a, b) = Between(s, a, b) \cup {Len(s) + 1}
    BY <1>1 DEF Between
  <1>3. ~(a <= t /\ t < b) => Between(h, a, b) = Between(s, a, b)
    BY <1>1 DEF Between
  <1>4. Len(s) + 1 \notin Between(s, a, b)
    BY <1>1 DEF Between
  <1>5. Cardinality(Between(s, a, b) \cup {Len(s) + 1}) = Cardinality(Between(s, a, b)) + 1
    BY <1>4, BetweenFinite, FS_AddElement
  <1> QED
    BY <1>2, <1>3, <1>5 DEF h

\* A limiter begins with nothing admitted.
LEMMA LimiterInitInv ==
    ASSUME LimiterInit
    PROVE  LIInv
  <1>1. LimiterTypeOK
    BY RateAssumption DEF LimiterInit, LimiterTypeOK, NoWindow
  <1>2. ASSUME NEW n \in Names, NEW a, NEW b
        PROVE  Between(granted[n], a, b) = {}
    BY <1>2 DEF LimiterInit, Between
  <1>3. Cardinality({}) = 0
    BY FS_EmptySet
  <1>4. WindowsKeepTheLimit
    <2> SUFFICES ASSUME NEW n \in Names
                 PROVE  /\ window[n].start <= now
                        /\ window[n].count <= Limit[n]
                        /\ \A i \in DOMAIN granted[n] :
                              granted[n][i] <= now /\ granted[n][i] < window[n].start + Window
                        /\ Cardinality(Between(granted[n], window[n].start, now + 1)) = window[n].count
                        /\ window[n] # NoWindow => \E i \in DOMAIN granted[n] : granted[n][i] = window[n].start
                        /\ Cardinality(Between(granted[n], window[n].start - Window + 1, window[n].start))
                              < Limit[n]
      BY DEF WindowsKeepTheLimit
    <2>1. /\ window[n] = NoWindow /\ window[n].start = -Window /\ window[n].count = 0
          /\ now = 0 /\ granted[n] = << >>
      BY DEF LimiterInit, NoWindow
    <2>2. DOMAIN granted[n] = {}
      BY <2>1
    <2>3. Limit[n] \in Nat \ {0} /\ Window \in Nat \ {0}
      BY RateAssumption
    <2> QED
      <3>1. -Window <= 0
        BY <2>3
      <3>2. /\ Cardinality(Between(granted[n], window[n].start, now + 1)) = 0
            /\ Cardinality(Between(granted[n], window[n].start - Window + 1, window[n].start)) = 0
        BY <1>2, <1>3
      <3>3. 0 < Limit[n]
        BY <2>3
      <3> QED
        <4>1. window[n].start <= now /\ window[n].count <= Limit[n]
          BY <2>1, <2>3, <3>1
        <4>2. \A i \in DOMAIN granted[n] :
                 granted[n][i] <= now /\ granted[n][i] < window[n].start + Window
          BY <2>2
        <4> QED
          BY <2>1, <3>2, <3>3, <4>1, <4>2
  <1>5. NoBurstBeyondTwoWindows
    BY <1>2, <1>3, RateAssumption DEF NoBurstBeyondTwoWindows
  <1> QED
    BY <1>1, <1>4, <1>5 DEF LIInv

\* Time alone admits nothing.
LEMMA LimiterTickInv ==
    ASSUME LIInv, Tick
    PROVE  LIInv'
  <1> USE DEF LIInv
  <1>1. LimiterTypeOK'
    BY RateAssumption DEF Tick, LimiterTypeOK
  <1>2. granted' = granted /\ window' = window
    BY DEF Tick
  <1>3. WindowsKeepTheLimit'
    <2> SUFFICES ASSUME NEW n \in Names
                 PROVE  /\ window'[n].start <= now'
                        /\ window'[n].count <= Limit[n]
                        /\ \A i \in DOMAIN granted'[n] :
                              granted'[n][i] <= now' /\ granted'[n][i] < window'[n].start + Window
                        /\ Cardinality(Between(granted'[n], window'[n].start, now' + 1)) = window'[n].count
                        /\ window'[n] # NoWindow => \E i \in DOMAIN granted'[n] : granted'[n][i] = window'[n].start
                        /\ Cardinality(Between(granted'[n], window'[n].start - Window + 1, window'[n].start))
                              < Limit[n]
      BY DEF WindowsKeepTheLimit
    <2>1. /\ window' = window /\ granted' = granted /\ now' = now + 1
          /\ now \in Nat /\ window[n].start \in Int
          /\ \A i \in DOMAIN granted[n] : granted[n][i] \in Nat
      BY DEF Tick, LimiterTypeOK
    <2>3. \A i \in DOMAIN granted[n] : granted[n][i] <= now
      BY DEF WindowsKeepTheLimit
    <2>4. now + 1 + 1 = now + 2
      BY <2>1
    <2>2. Between(granted[n], window[n].start, now + 2) = Between(granted[n], window[n].start, now + 1)
      BY <2>1, <2>3 DEF Between
    <2> QED
      BY <1>2, <2>1, <2>2, <2>4 DEF WindowsKeepTheLimit
  <1>4. NoBurstBeyondTwoWindows'
    BY <1>2 DEF NoBurstBeyondTwoWindows
  <1> QED
    BY <1>1, <1>3, <1>4

\* An admission counts in the open window, or opens one when that is over.
LEMMA LimiterAdmitInv ==
    ASSUME LIInv, NEW n \in Names, Admit(n)
    PROVE  LIInv'
  <1> DEFINE c == Current(n)
             w == window[n]
  <1>1. /\ LimiterTypeOK /\ WindowsKeepTheLimit /\ NoBurstBeyondTwoWindows
        /\ Window \in Nat \ {0} /\ Limit[n] \in Nat \ {0} /\ MaxTime \in Nat
    BY RateAssumption DEF LIInv
  <1>2. /\ now \in Nat /\ now' = now
        /\ w \in [start : Int, count : Nat]
        /\ w.start <= now /\ w.count <= Limit[n]
        /\ granted' = [granted EXCEPT ![n] = Append(@, now)]
        /\ window' = [window EXCEPT ![n] = Counted(c)]
        /\ c.count < Limit[n]
    BY <1>1 DEF Admit, Admits, LimiterTypeOK, WindowsKeepTheLimit
  <1>3. \/ now - w.start >= Window /\ c = [start |-> now, count |-> 0]
        \/ now - w.start < Window /\ c = w
    BY <1>1, <1>2 DEF Current
  <1>4. /\ c \in [start : Int, count : Nat]
        /\ c.start <= now /\ now < c.start + Window
    BY <1>1, <1>2, <1>3
  <1>5. window'[n] = [start |-> c.start, count |-> c.count + 1]
    BY <1>1, <1>2, <1>4 DEF LimiterTypeOK, Counted
  <1>6. LimiterTypeOK'
    <2>1. Counted(c) \in [start : Int, count : Nat]
      BY <1>4 DEF Counted
    <2>2. now \in Nat /\ granted \in [Names -> Seq(Nat)]
      BY <1>1, <1>2 DEF LimiterTypeOK
    <2>3. granted' \in [Names -> Seq(Nat)]
      BY <1>2, <2>2
    <2> QED
      BY <1>1, <1>2, <2>1, <2>3 DEF LimiterTypeOK
  <1>7. \A m \in Names \ {n} : window'[m] = window[m] /\ granted'[m] = granted[m]
    BY <1>1, <1>2 DEF LimiterTypeOK
  <1>13. /\ granted[n] \in Seq(Nat) /\ granted'[n] = Append(granted[n], now)
         /\ w.start \in Int /\ w.count \in Nat /\ c.start \in Int /\ c.count \in Nat
         /\ w.start - Window + 1 \in Int /\ c.start - Window + 1 \in Int
         /\ now \in Int /\ now + 1 \in Int /\ now - Window + 1 \in Int
    BY <1>1, <1>2, <1>4 DEF LimiterTypeOK
  <1>8. \A i \in DOMAIN granted[n] :
           granted[n][i] \in Nat /\ granted[n][i] <= now /\ granted[n][i] < w.start + Window
    BY <1>1 DEF LimiterTypeOK, WindowsKeepTheLimit
  <1>9. /\ Cardinality(Between(granted[n], w.start, now + 1)) = w.count
        /\ Cardinality(Between(granted[n], w.start - Window + 1, w.start)) < Limit[n]
        /\ w # NoWindow => \E i \in DOMAIN granted[n] : granted[n][i] = w.start
    BY <1>1 DEF WindowsKeepTheLimit
  \* What the window that is counted in has admitted, and the stretch before it.
  <1>10. /\ Cardinality(Between(granted[n], c.start, now + 1)) = c.count
         /\ Cardinality(Between(granted[n], c.start - Window + 1, c.start)) < Limit[n]
    <2>1. CASE now - w.start < Window /\ c = w
      BY <1>9, <2>1
    <2>2. CASE now - w.start >= Window /\ c = [start |-> now, count |-> 0]
      <3>1. Between(granted[n], now, now + 1) = {}
        BY <1>1, <1>2, <1>8, <2>2 DEF Between
      <3>2. Between(granted[n], now - Window + 1, now) \subseteq Between(granted[n], w.start, now + 1)
        BY <1>1, <1>2, <1>8, <2>2 DEF Between
      <3>4. Cardinality(Between(granted[n], now - Window + 1, now)) \in Nat
        BY <1>13, BetweenFinite
      <3>3. Cardinality(Between(granted[n], now - Window + 1, now)) < Limit[n]
        <4> DEFINE past == Between(granted[n], now - Window + 1, now)
                   all  == Between(granted[n], w.start, now + 1)
        <4>1. IsFiniteSet(all) /\ Cardinality(all) = w.count /\ Cardinality(past) \in Nat
          BY <1>9, <1>13, <3>4, BetweenFinite
        <4>2. CASE w = NoWindow
          <5>1. Cardinality(past) <= w.count
            BY <1>9, <1>13, <3>2, BetweenSubset
          <5>2. w.count = 0
            BY <4>2 DEF NoWindow
          <5> HIDE DEF past
          <5> QED
            BY <1>1, <4>1, <5>1, <5>2 DEF past
        <4>3. CASE w # NoWindow
          <5>1. PICK i \in DOMAIN granted[n] : granted[n][i] = w.start
            BY <1>9, <4>3
          <5>2. i \in all /\ i \notin past
            <6>1. w.start < now - Window + 1 /\ w.start <= now /\ w.start < now + 1
              <7> HIDE DEF w, c
              <7> QED
                BY <1>1, <1>2, <1>13, <2>2
            <6> HIDE DEF w
            <6> QED
              BY <1>13, <5>1, <6>1 DEF Between
          <5>3. past \subseteq all \ {i}
            BY <3>2, <5>2
          <5> HIDE DEF past, all
          <5>4. IsFiniteSet(all \ {i}) /\ Cardinality(all \ {i}) = Cardinality(all) - 1
            BY <4>1, <5>2, FS_RemoveElement
          <5>5. Cardinality(past) <= Cardinality(all \ {i})
            BY <5>3, <5>4, FS_Subset
          <5>6. Cardinality(past) < Limit[n]
            <6>1. Cardinality(all) = w.count /\ Cardinality(past) \in Nat
              BY <4>1 DEF all, past
            <6>2. w.count \in Nat /\ w.count <= Limit[n] /\ Limit[n] \in Nat
              BY <1>1, <1>2, <1>13
            <6>3. Cardinality(all \ {i}) = w.count - 1
              BY <5>4, <6>1
            <6> HIDE DEF w
            <6> QED
              BY <5>5, <6>1, <6>2, <6>3
          <5> QED
            BY <5>6 DEF past
        <4> QED
          BY <4>2, <4>3
      <3> QED
        <4>1. c.start = now /\ c.count = 0
          BY <2>2
        <4> HIDE DEF c
        <4> QED
          <5>1. Cardinality(Between(granted[n], c.start, now + 1)) = c.count
            BY <3>1, <4>1, FS_EmptySet
          <5> QED
            BY <3>3, <4>1, <5>1
    <2> QED
      BY <1>3, <2>1, <2>2
  <1>11. WindowsKeepTheLimit'
    <2> SUFFICES ASSUME NEW m \in Names
                 PROVE  /\ window'[m].start <= now'
                        /\ window'[m].count <= Limit[m]
                        /\ \A i \in DOMAIN granted'[m] :
                              granted'[m][i] <= now' /\ granted'[m][i] < window'[m].start + Window
                        /\ Cardinality(Between(granted'[m], window'[m].start, now' + 1)) = window'[m].count
                        /\ window'[m] # NoWindow => \E i \in DOMAIN granted'[m] : granted'[m][i] = window'[m].start
                        /\ Cardinality(Between(granted'[m], window'[m].start - Window + 1, window'[m].start))
                              < Limit[m]
      BY DEF WindowsKeepTheLimit
    <2>1. CASE m # n
      <3>1. window'[m] = window[m] /\ granted'[m] = granted[m]
        BY <1>7, <2>1
      <3> QED
        BY <1>1, <1>2, <3>1 DEF WindowsKeepTheLimit
    <2>2. CASE m = n
      <3>1. Cardinality(Between(granted'[n], c.start, now + 1)) = c.count + 1
        BY <1>2, <1>4, <1>10, <1>13, BetweenAppend
      <3>4. \E i \in DOMAIN granted'[n] : granted'[n][i] = c.start
        <4>1. CASE now - w.start < Window /\ c = w
          <5>1. w # NoWindow
            BY <1>1, <1>2, <4>1 DEF NoWindow
          <5>2. PICK i \in DOMAIN granted[n] : granted[n][i] = w.start
            BY <1>9, <5>1
          <5>3. i \in DOMAIN granted'[n] /\ granted'[n][i] = c.start
            BY <1>13, <4>1, <5>2
          <5> QED
            BY <5>3
        <4>2. CASE c = [start |-> now, count |-> 0]
          <5>1. Len(granted[n]) + 1 \in DOMAIN granted'[n] /\ granted'[n][Len(granted[n]) + 1] = now
            BY <1>13
          <5>2. c.start = now
            BY <4>2
          <5> QED
            BY <5>1, <5>2
        <4> QED
          BY <1>3, <4>1, <4>2
      <3>2. Cardinality(Between(granted'[n], c.start - Window + 1, c.start)) < Limit[n]
        <4>1. Between(granted'[n], c.start - Window + 1, c.start) = Between(granted[n], c.start - Window + 1, c.start)
          <5>1. ~(c.start - Window + 1 <= now /\ now < c.start)
            BY <1>4, <1>13
          <5> QED
            BY <1>2, <1>13, <5>1, BetweenAppend
        <4> QED
          BY <1>10, <4>1
      <3>3. \A i \in DOMAIN granted'[n] : granted'[n][i] <= now /\ granted'[n][i] < c.start + Window
        <4> SUFFICES ASSUME NEW i \in DOMAIN granted'[n]
                     PROVE  granted'[n][i] <= now /\ granted'[n][i] < c.start + Window
          OBVIOUS
        <4>1. granted[n] \in Seq(Nat) /\ granted'[n] = Append(granted[n], now)
          BY <1>1, <1>2 DEF LimiterTypeOK
        <4>2. CASE i \in DOMAIN granted[n]
          <5>1. granted'[n][i] = granted[n][i]
            BY <4>1, <4>2
          <5> QED
            BY <1>1, <1>2, <1>4, <1>8, <4>2, <5>1
        <4>3. CASE i \notin DOMAIN granted[n]
          <5>1. granted'[n][i] = now
            BY <4>1, <4>3
          <5> QED
            BY <1>2, <1>4, <5>1
        <4> QED
          BY <4>2, <4>3
      <3> QED
        <4>1. window'[n].start = c.start /\ window'[n].count = c.count + 1
          BY <1>5
        <4>2. c.count + 1 <= Limit[n]
          BY <1>1, <1>2, <1>13
        <4> HIDE DEF c
        <4> QED
          BY <1>2, <1>4, <2>2, <3>1, <3>2, <3>3, <3>4, <4>1, <4>2
    <2> QED
      BY <2>1, <2>2
  <1>12. NoBurstBeyondTwoWindows'
    <2> SUFFICES ASSUME NEW m \in Names, NEW t \in 0..MaxTime
                 PROVE  Cardinality(Between(granted'[m], t, t + Window)) < 2 * Limit[m]
      BY DEF NoBurstBeyondTwoWindows
    <2>1. Cardinality(Between(granted[m], t, t + Window)) < 2 * Limit[m]
      BY <1>1 DEF NoBurstBeyondTwoWindows
    <2>2. CASE m # n
      BY <1>7, <2>1, <2>2
    <2>3. CASE m = n /\ ~(t <= now /\ now < t + Window)
      <3>1. Between(granted'[n], t, t + Window) = Between(granted[n], t, t + Window)
        BY <1>1, <1>2, <1>13, <2>3, BetweenAppend
      <3> QED
        BY <2>1, <2>3, <3>1
    <2>4. CASE m = n /\ t <= now /\ now < t + Window
      <3>1. t \in Int /\ t + Window \in Int
        BY <1>1
      <3>2. Between(granted[n], t, t + Window)
               \subseteq Between(granted[n], c.start - Window + 1, c.start) \cup Between(granted[n], c.start, now + 1)
        <4> SUFFICES ASSUME NEW i \in Between(granted[n], t, t + Window)
                     PROVE  \/ i \in Between(granted[n], c.start - Window + 1, c.start)
                            \/ i \in Between(granted[n], c.start, now + 1)
          OBVIOUS
        <4>1. i \in DOMAIN granted[n] /\ t <= granted[n][i]
          BY DEF Between
        <4>2. granted[n][i] \in Nat /\ granted[n][i] <= now
          BY <1>8, <4>1
        <4>3. c.start - Window + 1 <= granted[n][i]
          BY <1>1, <1>2, <1>4, <2>4, <3>1, <4>1, <4>2
        <4> QED
          BY <1>2, <1>4, <4>1, <4>2, <4>3 DEF Between
      <3>3. Cardinality(Between(granted[n], t, t + Window))
               <= Cardinality(Between(granted[n], c.start - Window + 1, c.start))
                  + Cardinality(Between(granted[n], c.start, now + 1))
        BY <1>13, <3>1, <3>2, BetweenCover
      <3>4. Cardinality(Between(granted'[n], t, t + Window)) = Cardinality(Between(granted[n], t, t + Window)) + 1
        BY <1>2, <1>13, <2>4, <3>1, BetweenAppend
      <3>5. Cardinality(Between(granted[n], c.start - Window + 1, c.start)) \in Nat
        BY <1>13, BetweenFinite
      <3>6. Cardinality(Between(granted[n], t, t + Window)) \in Nat
        BY <1>13, <3>1, BetweenFinite
      <3> QED
        <4> HIDE DEF c
        <4> QED
          <5> DEFINE all  == Cardinality(Between(granted[n], t, t + Window))
                     past == Cardinality(Between(granted[n], c.start - Window + 1, c.start))
                     open == Cardinality(Between(granted[n], c.start, now + 1))
          <5>1. /\ all \in Nat /\ past \in Nat /\ open \in Nat /\ Limit[n] \in Nat
                /\ all <= past + open /\ past < Limit[n] /\ open < Limit[n]
            BY <1>1, <1>2, <1>10, <1>13, <3>3, <3>5, <3>6
          <5>2. all + 1 < 2 * Limit[n]
            <6> HIDE DEF all, past, open
            <6> QED
              BY <5>1
          <5> QED
            BY <2>4, <3>4, <5>2
    <2> QED
      BY <2>2, <2>3, <2>4
  <1> QED
    BY <1>6, <1>11, <1>12 DEF LIInv

\* The limiter keeps its invariant whatever is asked of it.
LEMMA LimiterInductive == LIInv /\ [LimiterNext]_limiterVars => LIInv'
  <1> SUFFICES ASSUME LIInv, [LimiterNext]_limiterVars
               PROVE  LIInv'
    OBVIOUS
  <1>1. CASE Tick
    BY <1>1, LimiterTickInv
  <1>2. ASSUME NEW n \in Names, Admit(n)
        PROVE  LIInv'
    BY <1>2, LimiterAdmitInv
  <1>3. CASE UNCHANGED limiterVars
    BY <1>3 DEF LIInv, LimiterTypeOK, WindowsKeepTheLimit, NoBurstBeyondTwoWindows,
                Between, limiterVars
  <1> QED
    BY <1>1, <1>2, <1>3 DEF LimiterNext, Deny

\* Any number of checks, at any time, of any of the limiters: no stretch as long
\* as a window admits as much as twice the limit (RequestRateLimiter.fetch).
THEOREM LimiterKeepsTheLimit ==
    LimiterSpec => [](WindowsKeepTheLimit /\ NoBurstBeyondTwoWindows)
  <1>1. LimiterInit => LIInv
    BY LimiterInitInv
  <1>2. LIInv /\ [LimiterNext]_limiterVars => LIInv'
    BY LimiterInductive
  <1>3. LIInv => WindowsKeepTheLimit /\ NoBurstBeyondTwoWindows
    BY DEF LIInv
  <1> QED
    BY <1>1, <1>2, <1>3, PTL DEF LimiterSpec

-----------------------------------------------------------------------------
(* The proxy composed with its limiters. *)

\* Friendbot has paid the channels, on testnet: once each that it has said so of,
\* and otherwise as often as its answer was lost.
PaymentsOK(q) ==
    \A a \in Channels \cup {"shared"} :
        /\ ~Testnet \/ a = "shared" => q.paid[a] = 0
        /\ q.paid[a] <= q.lost[a] + IF a \in q.funded THEN 1 ELSE 0

\* What holds of the record q of one request at time t when the keys were minted
\* for the clients m.
ReqOK(q, t, m) ==
    /\ q \in Request
    /\ q.step \notin {"idle", "done"} => q.ip \in Ips
    /\ q.step = "fund" =>
          Testnet /\ q.missing \in Channels /\ q.missing \notin q.funded /\ q.late = 0
    /\ q.late # 0 => q.step = "submit" /\ q.late = 1 /\ q.deadline <= t
    /\ PaymentsOK(q)
    /\ q.step = "store" => q.key # NoKey
    /\ q.key # NoKey => q.step \in {"store", "submit", "fund"}
    /\ q.key # NoKey => q.ip \in Ips /\ m[q.key] = q.ip
    /\ q.step \in {"idle", "limit"} => q.over <= t + Second * q.wait
    /\ q.status = 429 => q.step = "done" /\ q.over <= q.wait

KeysOK ==
    /\ kv \in [Ips -> KvValues]
    /\ mintedFor \in [ApiKeys -> Ips \cup {UnknownIp}]
    /\ \A ip \in Ips : kv[ip].key # NoKey => mintedFor[kv[ip].key] = ip

PIInv ==
    /\ LimiterTypeOK
    /\ KeysOK
    /\ req \in [Requests -> Request]
    /\ \A r \in Requests : ReqOK(req[r], now, mintedFor)

\* The other requests bear with the clock and with keys minted for anybody.
LEMMA Bears ==
    ASSUME NEW q, NEW t \in Nat, NEW u \in Nat, NEW m, NEW o, t <= u,
           ReqOK(q, t, m),
           \A k \in ApiKeys : m[k] \in Ips => o[k] = m[k]
    PROVE  ReqOK(q, u, o)
  <1>1. Second \in Nat /\ q.deadline \in Nat /\ q.over \in Int /\ q.wait \in Nat
        /\ q.key \in ApiKeys \cup {NoKey}
    BY RateAssumption DEF ReqOK, Request
  <1>2. Second * q.wait \in Nat
    BY <1>1
  <1> QED
    BY <1>1, <1>2 DEF ReqOK

\* One request goes on; the clock and the keys only move forward.
LEMMA GoesOn ==
    ASSUME PIInv, NEW r \in Requests, NEW q, Goes(r, q),
           ReqOK(q, now', mintedFor'), now' \in Nat, now <= now',
           \A k \in ApiKeys : mintedFor[k] \in Ips => mintedFor'[k] = mintedFor[k]
    PROVE  req' \in [Requests -> Request] /\ \A s \in Requests : ReqOK(req'[s], now', mintedFor')
  <1>1. q \in Request /\ req \in [Requests -> Request] /\ req' = [req EXCEPT ![r] = q]
        /\ now \in Nat
    BY DEF ReqOK, PIInv, Goes, LimiterTypeOK
  <1>2. ASSUME NEW s \in Requests
        PROVE  ReqOK(req'[s], now', mintedFor')
    <2>1. CASE s = r
      BY <1>1, <2>1
    <2>2. CASE s # r
      <3>1. req'[s] = req[s] /\ ReqOK(req[s], now, mintedFor)
        BY <1>1, <2>2 DEF PIInv
      <3> QED
        BY <1>1, <3>1, Bears
    <2> QED
      BY <2>1, <2>2
  <1> QED
    BY <1>1, <1>2

\* Most steps leave the limiters and the keys alone.
LEMMA GoesAlone ==
    ASSUME PIInv, NEW r \in Requests, NEW q, Goes(r, q),
           ReqOK(q, now, mintedFor), UNCHANGED <<limiterVars, kv, mintedFor>>
    PROVE  PIInv'
  <1>1. /\ now' = now /\ window' = window /\ granted' = granted
        /\ kv' = kv /\ mintedFor' = mintedFor /\ now \in Nat
    BY DEF limiterVars, PIInv, LimiterTypeOK
  <1>2. req' \in [Requests -> Request] /\ \A s \in Requests : ReqOK(req'[s], now', mintedFor')
    BY <1>1, GoesOn
  <1> QED
    BY <1>1, <1>2 DEF PIInv, LimiterTypeOK, KeysOK

\* A slot without a request is a request.
LEMMA FreshTyped == Fresh \in Request
  BY ProxyAssumption DEF Fresh, Request, Steps

\* So is an answered one.
LEMMA AnswerTyped ==
    ASSUME NEW code \in Nat
    PROVE  [Fresh EXCEPT !.step = "done", !.status = code] \in Request
  <1>1. "done" \in Steps
    BY DEF Steps
  <1> QED
    BY <1>1, FreshTyped, Zenon DEF Request

\* So is a refused one.
LEMMA RefusalTyped ==
    ASSUME NEW code \in Nat, NEW wait \in Nat, NEW over \in Int
    PROVE  [Fresh EXCEPT !.step = "done", !.status = code,
                         !.wait = wait, !.over = over] \in Request
  <1>1. "done" \in Steps
    BY DEF Steps
  <1> QED
    BY <1>1, FreshTyped, Zenon DEF Request

\* An answered request is a fresh one but for what it was answered.
LEMMA AnswerOK ==
    ASSUME PIInv, NEW r \in Requests, NEW code \in Nat, code # 429
    PROVE  ReqOK([Fresh EXCEPT !.step = "done", !.status = code, !.left = req[r].left],
                 now, mintedFor)
  <1> DEFINE q == [Fresh EXCEPT !.step = "done", !.status = code, !.left = req[r].left]
  <1>1. req[r].left \in SUBSET Names
    BY DEF PIInv, Request
  <1>2. q \in Request
    <2>1. "done" \in Steps
      BY DEF Steps
    <2> QED
      BY <1>1, <2>1, FreshTyped DEF Request
  <1>3. /\ q.step = "done" /\ q.late = 0 /\ q.key = NoKey /\ q.status = code
        /\ q.paid = [a \in Channels \cup {"shared"} |-> 0]
        /\ q.lost = [a \in Channels \cup {"shared"} |-> 0]
        /\ q.funded = {}
    BY DEF Fresh
  <1>4. PaymentsOK(q)
    BY <1>3 DEF PaymentsOK
  <1> HIDE DEF q
  <1>5. ReqOK(q, now, mintedFor)
    BY <1>2, <1>3, <1>4 DEF ReqOK
  <1> QED
    BY <1>5 DEF q

\* An answer that is not a refusal keeps the invariant.
LEMMA AnswerInv ==
    ASSUME PIInv, NEW r \in Requests, NEW code \in Nat, code # 429, Answer(r, code),
           UNCHANGED <<limiterVars, kv, mintedFor>>
    PROVE  PIInv'
  <1> DEFINE q == [Fresh EXCEPT !.step = "done", !.status = code, !.left = req[r].left]
  <1>1. ReqOK(q, now, mintedFor) /\ Goes(r, q)
    <2>1. ReqOK(q, now, mintedFor)
      BY AnswerOK
    <2>2. Goes(r, q)
      BY DEF Answer
    <2> QED
      BY <2>1, <2>2
  <1> HIDE DEF q
  <1> QED
    BY <1>1, GoesAlone

\* So does the arrival of a request.
LEMMA ArriveInv ==
    ASSUME PIInv, NEW r \in Requests, Arrive(r)
    PROVE  PIInv'
  <1> DEFINE q == req[r]
  <1>1. /\ ReqOK(q, now, mintedFor) /\ q.step = "idle" /\ q \in Request
        /\ UNCHANGED <<limiterVars, kv, mintedFor>>
    BY DEF PIInv, Arrive, At
  <1>2. CASE Answer(r, 200)
    BY <1>1, <1>2, AnswerInv
  <1>5. "limit" \in Steps /\ "read" \in Steps /\ TRUE \in BOOLEAN
    BY DEF Steps
  <1>3. ASSUME NEW ip \in Ips,
               Goes(r, [q EXCEPT !.step = "limit", !.ip = ip, !.left = {Global, ip}])
        PROVE  PIInv'
    <2> DEFINE p == [q EXCEPT !.step = "limit", !.ip = ip, !.left = {Global, ip}]
    <2>1. {Global, ip} \in SUBSET Names /\ ip \in Ips \cup {UnknownIp}
      BY ProxyAssumption
    <2>2. p \in Request
      BY <1>1, <1>5, <2>1, Zenon DEF Request
    <2>3. /\ p.step = "limit" /\ p.ip = ip /\ p.late = q.late /\ p.paid = q.paid /\ p.lost = q.lost
          /\ p.funded = q.funded /\ p.key = q.key /\ p.over = q.over /\ p.wait = q.wait
          /\ p.status = q.status
      BY <1>1 DEF Request
    <2>4. Goes(r, p)
      BY <1>3
    <2> HIDE DEF p
    <2>5. ReqOK(p, now, mintedFor)
      BY <1>1, <2>2, <2>3 DEF ReqOK, PaymentsOK
    <2> QED
      BY <1>1, <2>4, <2>5, GoesAlone
  <1>4. ASSUME NEW ip \in Ips, Goes(r, [q EXCEPT !.step = "read", !.ip = ip, !.get = TRUE])
        PROVE  PIInv'
    <2> DEFINE p == [q EXCEPT !.step = "read", !.ip = ip, !.get = TRUE]
    <2>1. p \in Request
      BY <1>1, <1>4, <1>5, Zenon DEF Request
    <2>2. /\ p.step = "read" /\ p.ip = ip /\ p.late = q.late /\ p.paid = q.paid /\ p.lost = q.lost
          /\ p.funded = q.funded /\ p.key = q.key /\ p.status = q.status
      BY <1>1 DEF Request
    <2>3. Goes(r, p)
      BY <1>4
    <2> HIDE DEF p
    <2>4. ReqOK(p, now, mintedFor)
      BY <1>1, <2>1, <2>2 DEF ReqOK, PaymentsOK
    <2> QED
      BY <1>1, <2>3, <2>4, GoesAlone
  <1> QED
    BY <1>1, <1>2, <1>3, <1>4 DEF Arrive

\* Rounded up, the seconds cover the ticks.
LEMMA RoundUp ==
    ASSUME NEW x \in Int, NEW s \in Nat \ {0}
    PROVE  /\ (x + s - 1) \div s \in Int
           /\ s * ((x + s - 1) \div s) >= x
  OBVIOUS

\* Retry-After reaches to the end of the window.
LEMMA RetryAfterCovers ==
    ASSUME LimiterTypeOK, NEW n \in Names
    PROVE  /\ RetryAfter(n) \in Nat
           /\ window[n].start + Window <= now + Second * RetryAfter(n)
  <1> DEFINE x == window[n].start + Window - now
             y == (x + Second - 1) \div Second
  <1>1. x \in Int /\ Second \in Nat \ {0} /\ now \in Nat /\ window[n].start \in Int /\ Window \in Nat
    BY RateAssumption DEF LimiterTypeOK
  <1>2. y \in Int /\ Second * y >= x
    BY <1>1, RoundUp
  <1>3. RetryAfter(n) = IF y < 1 THEN 1 ELSE y
    BY DEF RetryAfter
  <1> HIDE DEF y
  <1>4. RetryAfter(n) \in Nat
    BY <1>2, <1>3
  <1>5. Second * RetryAfter(n) >= x
    <2>1. CASE y < 1
      <3>1. y <= 0 /\ RetryAfter(n) = 1
        BY <1>2, <1>3, <2>1
      <3>2. Second * y <= 0
        BY <1>1, <1>2, <3>1
      <3> QED
        BY <1>1, <1>2, <3>1, <3>2
    <2>2. CASE ~(y < 1)
      BY <1>2, <1>3, <2>2
    <2> QED
      BY <2>1, <2>2
  <1>6. Second * RetryAfter(n) \in Nat
    BY <1>1, <1>4
  <1> QED
    BY <1>1, <1>4, <1>5, <1>6

\* An admission keeps the types.
LEMMA AdmitTyped ==
    ASSUME LimiterTypeOK, NEW n \in Names, Admit(n)
    PROVE  LimiterTypeOK'
  <1>1. /\ now \in Int /\ now \in Nat /\ window[n] \in [start : Int, count : Nat]
        /\ window \in [Names -> [start : Int, count : Nat]]
        /\ granted \in [Names -> Seq(Nat)] /\ granted[n] \in Seq(Nat)
    BY DEF LimiterTypeOK
  <1>2. Current(n) \in [start : Int, count : Nat]
    BY <1>1 DEF Current
  <1>3. Counted(Current(n)) \in [start : Int, count : Nat]
    BY <1>2 DEF Counted
  <1>4. Append(granted[n], now) \in Seq(Nat)
    BY <1>1
  <1>5. window' \in [Names -> [start : Int, count : Nat]]
    BY <1>1, <1>3 DEF Admit
  <1>6. granted' \in [Names -> Seq(Nat)]
    BY <1>1, <1>4 DEF Admit
  <1> QED
    BY <1>5, <1>6 DEF Admit, LimiterTypeOK

\* An admission is counted in its window.
LEMMA LimiterAllowsInv ==
    ASSUME PIInv, NEW r \in Requests, NEW n \in Names, LimiterAllows(r, n)
    PROVE  PIInv'
  <1> DEFINE q == req[r]
             p == [q EXCEPT !.left = @ \ {n}]
  <1>1. /\ ReqOK(q, now, mintedFor) /\ q \in Request
        /\ Goes(r, p) /\ Admit(n) /\ kv' = kv /\ mintedFor' = mintedFor
        /\ now' = now /\ now \in Nat
    BY DEF PIInv, LimiterAllows, Admit, LimiterTypeOK
  <1>2. q.left \ {n} \in SUBSET Names
    BY <1>1 DEF Request
  <1>3. p \in Request
    BY <1>1, <1>2, Zenon DEF Request
  <1>4. /\ p.step = q.step /\ p.ip = q.ip /\ p.late = q.late /\ p.paid = q.paid /\ p.lost = q.lost
        /\ p.funded = q.funded /\ p.key = q.key /\ p.over = q.over /\ p.wait = q.wait
        /\ p.status = q.status /\ p.missing = q.missing /\ p.deadline = q.deadline
    BY <1>1 DEF Request
  <1> HIDE DEF p
  <1>5. ReqOK(p, now, mintedFor)
    BY <1>1, <1>3, <1>4 DEF ReqOK, PaymentsOK
  <1>6. req' \in [Requests -> Request] /\ \A s \in Requests : ReqOK(req'[s], now', mintedFor')
    BY <1>1, <1>5, GoesOn
  <1>7. LimiterTypeOK'
    BY <1>1, AdmitTyped DEF PIInv
  <1> QED
    BY <1>1, <1>6, <1>7 DEF PIInv, KeysOK

\* A refusal tells how long the window lasts.
LEMMA LimiterDeniesInv ==
    ASSUME PIInv, NEW r \in Requests, NEW n \in Names, LimiterDenies(r, n)
    PROVE  PIInv'
  <1> DEFINE q == req[r]
             end == window[n].start + Window
             p == [q EXCEPT !.left = @ \ {n}]
             d == [q EXCEPT !.left = @ \ {n}, !.denied = TRUE,
                            !.wait = LongerWait(RetryAfter(n), @),
                            !.over = IF end > @ THEN end ELSE @]
  <1>1. /\ ReqOK(q, now, mintedFor) /\ q \in Request
        /\ Goes(r, IF q.step = "done" THEN p ELSE d)
        /\ UNCHANGED <<limiterVars, kv, mintedFor>>
        /\ now \in Nat /\ q.step \in {"limit", "done"}
    BY DEF PIInv, LimiterDenies, Deny, LimiterTypeOK, AskedBy, At
  <1>2. q.left \ {n} \in SUBSET Names
    BY <1>1 DEF Request
  <1>3. CASE q.step = "done"
    <2>1. p \in Request
      BY <1>1, <1>2, Zenon DEF Request
    <2>2. /\ p.step = q.step /\ p.ip = q.ip /\ p.late = q.late /\ p.paid = q.paid /\ p.lost = q.lost
          /\ p.funded = q.funded /\ p.key = q.key /\ p.over = q.over /\ p.wait = q.wait
          /\ p.status = q.status /\ p.missing = q.missing /\ p.deadline = q.deadline
      BY <1>1 DEF Request
    <2>3. Goes(r, p)
      BY <1>1, <1>3
    <2> HIDE DEF p
    <2>4. ReqOK(p, now, mintedFor)
      BY <1>1, <2>1, <2>2 DEF ReqOK, PaymentsOK
    <2> QED
      BY <1>1, <2>3, <2>4, GoesAlone
  <1>4. CASE q.step = "limit"
    <2> DEFINE wait == LongerWait(RetryAfter(n), q.wait)
               over == IF end > q.over THEN end ELSE q.over
    <2>1. /\ RetryAfter(n) \in Nat /\ end <= now + Second * RetryAfter(n)
          /\ end \in Int
      BY RetryAfterCovers, RateAssumption DEF PIInv, LimiterTypeOK
    <2>2. q.wait \in Nat /\ q.over \in Int /\ q.over <= now + Second * q.wait
      BY <1>1, <1>4 DEF ReqOK, Request
    <2>3. wait \in Nat /\ over \in Int
      BY <2>1, <2>2 DEF LongerWait
    <2>4. over <= now + Second * wait
      <3> DEFINE ra == RetryAfter(n)
      <3>1. Second \in Nat /\ ra \in Nat /\ wait \in Nat /\ ra <= wait /\ q.wait <= wait
        BY <2>1, <2>2, RateAssumption DEF LongerWait
      <3>2. wait = ra \/ wait = q.wait
        BY DEF LongerWait
      <3>3. Second * ra <= Second * wait /\ Second * q.wait <= Second * wait
        <4> HIDE DEF ra, wait
        <4> QED
          BY <2>2, <3>1
      <3>4. Second * ra \in Nat /\ Second * q.wait \in Nat /\ Second * wait \in Nat
        BY <2>2, <3>1
      <3> HIDE DEF ra, wait
      <3> QED
        BY <1>1, <2>1, <2>2, <3>3, <3>4 DEF ra
    <2>5. d \in Request
      <3>1. d = [q EXCEPT !.left = q.left \ {n}, !.denied = TRUE, !.wait = wait, !.over = over]
        BY <1>1 DEF Request
      <3>2. TRUE \in BOOLEAN
        OBVIOUS
      <3> HIDE DEF wait, over, d
      <3> QED
        BY <1>1, <1>2, <2>3, <3>1, <3>2, Zenon DEF Request
    <2>6. /\ d.step = q.step /\ d.ip = q.ip /\ d.late = q.late /\ d.paid = q.paid /\ d.lost = q.lost
          /\ d.funded = q.funded /\ d.key = q.key /\ d.over = over /\ d.wait = wait
          /\ d.status = q.status
      BY <1>1 DEF Request
    <2>7. Goes(r, d)
      BY <1>1, <1>4
    <2> HIDE DEF d, wait, over
    <2>8. ReqOK(d, now, mintedFor)
      BY <1>1, <1>4, <2>4, <2>5, <2>6 DEF ReqOK, PaymentsOK
    <2> QED
      BY <1>1, <2>7, <2>8, GoesAlone
  <1> QED
    BY <1>1, <1>3, <1>4

\* A request goes on only when every limiter let it.
LEMMA DecideInv ==
    ASSUME PIInv, NEW r \in Requests, Decide(r)
    PROVE  PIInv'
  <1> DEFINE q == req[r]
             d == [Fresh EXCEPT !.step = "done", !.status = 429,
                                !.wait = now + Second * q.wait, !.over = q.over]
             v == [q EXCEPT !.step = "validate"]
  <1>1. /\ ReqOK(q, now, mintedFor) /\ q \in Request /\ q.step = "limit"
        /\ UNCHANGED <<limiterVars, kv, mintedFor>>
        /\ now \in Nat
    BY DEF PIInv, Decide, LimiterTypeOK, At
  <1>2. "done" \in Steps /\ "validate" \in Steps
    BY DEF Steps
  <1>3. CASE q.denied
    <2>1. q.wait \in Nat /\ q.over \in Int /\ q.over <= now + Second * q.wait
      BY <1>1 DEF ReqOK, Request
    <2>2. now + Second * q.wait \in Nat
      BY <1>1, <2>1, RateAssumption
    <2>3. d \in Request
      BY ONLY <2>1, <2>2, 429 \in Nat, RefusalTyped, Zenon
    <2>4. /\ d.step = "done" /\ d.late = 0 /\ d.key = NoKey /\ d.status = 429
          /\ d.paid = [a \in Channels \cup {"shared"} |-> 0]
          /\ d.lost = [a \in Channels \cup {"shared"} |-> 0]
          /\ d.over = q.over /\ d.wait = now + Second * q.wait
      BY DEF Fresh
    <2>5. PaymentsOK(d)
      BY <2>4 DEF PaymentsOK
    <2>6. Goes(r, d)
      BY <1>3 DEF Decide
    <2> HIDE DEF d
    <2>7. ReqOK(d, now, mintedFor)
      BY <2>1, <2>3, <2>4, <2>5 DEF ReqOK
    <2> QED
      BY <1>1, <2>6, <2>7, GoesAlone
  <1>4. CASE ~q.denied
    <2>1. v \in Request
      BY <1>1, <1>2, Zenon DEF Request
    <2>2. /\ v.step = "validate" /\ v.ip = q.ip /\ v.late = q.late /\ v.paid = q.paid /\ v.lost = q.lost
          /\ v.funded = q.funded /\ v.key = q.key /\ v.status = q.status
      BY <1>1 DEF Request
    <2>3. Goes(r, v)
      BY <1>4 DEF Decide
    <2> HIDE DEF v
    <2>4. ReqOK(v, now, mintedFor)
      BY <1>1, <2>1, <2>2 DEF ReqOK, PaymentsOK
    <2> QED
      BY <1>1, <2>3, <2>4, GoesAlone
  <1> QED
    BY <1>3, <1>4

\* A submission goes on only when it is sponsored.
LEMMA ValidateInv ==
    ASSUME PIInv, NEW r \in Requests, Validate(r)
    PROVE  PIInv'
  <1> DEFINE q == req[r]
  <1>1. /\ ReqOK(q, now, mintedFor) /\ q \in Request /\ q.step = "validate"
        /\ UNCHANGED <<limiterVars, kv, mintedFor>>
    BY DEF PIInv, Validate, At
  <1>2. ASSUME NEW b \in BOOLEAN, Goes(r, [q EXCEPT !.step = "read", !.sponsored = b])
        PROVE  PIInv'
    <2> DEFINE p == [q EXCEPT !.step = "read", !.sponsored = b]
    <2>1. "read" \in Steps
      BY DEF Steps
    <2>2. p \in Request
      BY <1>1, <2>1, Zenon DEF Request
    <2>3. /\ p.step = "read" /\ p.ip = q.ip /\ p.late = q.late /\ p.paid = q.paid /\ p.lost = q.lost
          /\ p.funded = q.funded /\ p.key = q.key /\ p.status = q.status
      BY <1>1 DEF Request
    <2>4. Goes(r, p)
      BY <1>2
    <2> HIDE DEF p
    <2>5. ReqOK(p, now, mintedFor)
      BY <1>1, <2>2, <2>3 DEF ReqOK, PaymentsOK
    <2> QED
      BY <1>1, <2>4, <2>5, GoesAlone
  <1>3. ASSUME Answer(r, 200)
        PROVE  PIInv'
    BY <1>1, <1>3, AnswerInv
  <1>4. \A verdict \in Verdicts : verdict.sponsorable \in BOOLEAN
    <2>1. ASSUME NEW body, NEW rpc
          PROVE  Sponsorable(body, rpc) \in BOOLEAN
      BY Zenon DEF Sponsorable
    <2> QED
      BY <2>1 DEF Verdicts
  <1> QED
    BY <1>2, <1>3, <1>4, Zenon DEF Validate

\* Nothing usable in the KV: /status is answered, a submission mints a key.
LEMMA NothingReadOK ==
    ASSUME PIInv, NEW r \in Requests, req[r].step \in {"read", "purge"}
    PROVE  ReqOK(NothingRead(req[r]), now, mintedFor)
  <1> DEFINE q == req[r]
             d == [Fresh EXCEPT !.step = "done", !.status = 200]
             p == [q EXCEPT !.step = "mint"]
  <1>1. /\ ReqOK(q, now, mintedFor) /\ q \in Request /\ q.get \in BOOLEAN
        /\ "mint" \in Steps
    BY DEF PIInv, Request, Steps
  <1>2. CASE q.get
    <2>1. d \in Request
      BY ONLY 200 \in Nat, AnswerTyped, Zenon
    <2>2. /\ d.step = "done" /\ d.late = 0 /\ d.key = NoKey /\ d.status = 200
          /\ d.paid = [a \in Channels \cup {"shared"} |-> 0]
          /\ d.lost = [a \in Channels \cup {"shared"} |-> 0]
      BY DEF Fresh
    <2>3. PaymentsOK(d)
      BY <2>2 DEF PaymentsOK
    <2>4. NothingRead(q) = d
      BY <1>2 DEF NothingRead
    <2> HIDE DEF d
    <2>5. ReqOK(d, now, mintedFor)
      BY <2>1, <2>2, <2>3 DEF ReqOK
    <2> QED
      BY <2>4, <2>5
  <1>3. CASE ~q.get
    <2>1. p \in Request
      BY <1>1, Zenon DEF Request
    <2>2. /\ p.step = "mint" /\ p.ip = q.ip /\ p.late = q.late /\ p.paid = q.paid /\ p.lost = q.lost
          /\ p.funded = q.funded /\ p.key = q.key /\ p.status = q.status
      BY <1>1 DEF Request
    <2>3. NothingRead(q) = p
      BY <1>3 DEF NothingRead
    <2> HIDE DEF p
    <2>4. ReqOK(p, now, mintedFor)
      BY <1>1, <2>1, <2>2 DEF ReqOK, PaymentsOK
    <2> QED
      BY <2>3, <2>4
  <1> QED
    BY <1>2, <1>3

\* What an attempt changes, and what it leaves.
LEMMA AttemptIs ==
    ASSUME NEW q \in Request
    PROVE  /\ Attempt(q) \in Request
           /\ Attempt(q).step = "submit"
           /\ Attempt(q).late = IF now >= q.deadline /\ q.late < 2 THEN q.late + 1 ELSE q.late
           /\ Attempt(q).ip = q.ip /\ Attempt(q).paid = q.paid /\ Attempt(q).lost = q.lost
           /\ Attempt(q).funded = q.funded /\ Attempt(q).key = q.key
           /\ Attempt(q).status = q.status /\ Attempt(q).deadline = q.deadline
  <1> DEFINE late == IF now >= q.deadline /\ q.late < 2 THEN q.late + 1 ELSE q.late
             p == [q EXCEPT !.step = "submit", !.late = late]
  <1>1. late \in 0..2
    <2>1. q.late \in 0..2
      BY DEF Request
    <2> QED
      BY <2>1
  <1>2. Attempt(q) = p
    BY DEF Attempt, Request
  <1> HIDE DEF late
  <1>3. "submit" \in Steps
    BY DEF Steps
  <1>4. p \in Request
    BY <1>1, <1>3, Zenon DEF Request
  <1>5. /\ p.step = "submit" /\ p.late = late /\ p.ip = q.ip /\ p.paid = q.paid /\ p.lost = q.lost
        /\ p.funded = q.funded /\ p.key = q.key /\ p.status = q.status
        /\ p.deadline = q.deadline
    BY DEF Request
  <1> HIDE DEF p
  <1> QED
    BY <1>2, <1>4, <1>5 DEF late

\* The loop starts with a key that was minted for the client.
LEMMA LoopOK ==
    ASSUME PIInv, NEW r \in Requests, NEW key \in ApiKeys, NEW m,
           req[r].step \in {"read", "store"}, m[key] = req[r].ip
    PROVE  ReqOK(Loop(req[r], key), now, m)
  <1> DEFINE q == req[r]
             end == now + RetryDuration
             deadline == IF ~Testnet THEN 0 ELSE IF end > MaxTime THEN MaxTime ELSE end
             b == [q EXCEPT !.key = key, !.deadline = deadline]
             p == Attempt(b)
  <1>1. /\ ReqOK(q, now, mintedFor) /\ q \in Request /\ now \in Nat /\ q.late = 0
        /\ key \in ApiKeys \cup {NoKey} /\ key # NoKey
    BY ProxyAssumption DEF PIInv, ReqOK, LimiterTypeOK
  <1>2. deadline \in Nat
    BY <1>1, RateAssumption, ProxyAssumption
  <1>3. Loop(q, key) = p
    BY DEF Loop
  <1> HIDE DEF deadline
  <1>4. b \in Request
    BY <1>1, <1>2, Zenon DEF Request
  <1>5. /\ b.ip = q.ip /\ b.paid = q.paid /\ b.lost = q.lost /\ b.funded = q.funded /\ b.key = key
        /\ b.status = q.status /\ b.deadline = deadline /\ b.late = 0
    BY <1>1 DEF Request
  <1> HIDE DEF b
  <1>6. /\ p \in Request /\ p.step = "submit" /\ p.ip = q.ip /\ p.paid = q.paid /\ p.lost = q.lost
        /\ p.funded = q.funded /\ p.key = key /\ p.status = q.status
        /\ p.deadline = deadline
        /\ p.late = IF now >= b.deadline /\ b.late < 2 THEN b.late + 1 ELSE b.late
    BY <1>4, <1>5, AttemptIs
  <1>7. p.late = (IF now >= deadline THEN 1 ELSE 0)
    BY <1>5, <1>6
  <1> HIDE DEF p
  <1>8. p.late # 0 => p.late = 1 /\ p.deadline <= now
    BY <1>1, <1>2, <1>6, <1>7
  <1>9. ReqOK(p, now, m)
    BY <1>1, <1>6, <1>8 DEF ReqOK, PaymentsOK
  <1> QED
    BY <1>3, <1>9

\* A key that is read is the client's own.
LEMMA ReadKeyInv ==
    ASSUME PIInv, NEW r \in Requests, ReadKey(r)
    PROVE  PIInv'
  <1> DEFINE q == req[r]
             value == kv[q.ip]
  <1>1. /\ ReqOK(q, now, mintedFor) /\ q \in Request /\ q.step = "read" /\ q.ip \in Ips
        /\ UNCHANGED <<limiterVars, kv, mintedFor>>
    BY DEF PIInv, ReadKey, At, ReqOK
  <1>2. /\ value \in KvValues
        /\ value.key # NoKey => mintedFor[value.key] = q.ip
        /\ value.form \in {"stored", "bare"} => value.key \in ApiKeys
    BY <1>1 DEF PIInv, KeysOK, KvValues
  <1>3. CASE Goes(r, NothingRead(q))
    BY <1>1, <1>3, NothingReadOK, GoesAlone
  <1>4. CASE Goes(r, [q EXCEPT !.step = "purge"])
    <2> DEFINE p == [q EXCEPT !.step = "purge"]
    <2>1. "purge" \in Steps
      BY DEF Steps
    <2>2. p \in Request
      BY <1>1, <2>1, Zenon DEF Request
    <2>3. /\ p.step = "purge" /\ p.ip = q.ip /\ p.late = q.late /\ p.paid = q.paid /\ p.lost = q.lost
          /\ p.funded = q.funded /\ p.key = q.key /\ p.status = q.status
      BY <1>1 DEF Request
    <2>4. Goes(r, p)
      BY <1>4
    <2> HIDE DEF p
    <2>5. ReqOK(p, now, mintedFor)
      BY <1>1, <2>2, <2>3 DEF ReqOK, PaymentsOK
    <2> QED
      BY <1>1, <2>4, <2>5, GoesAlone
  <1>5. CASE value.form = "stored" /\ Goes(r, Loop(q, value.key))
    <2>1. value.key \in ApiKeys /\ mintedFor[value.key] = q.ip
      BY <1>2, <1>5, ProxyAssumption
    <2>2. ReqOK(Loop(q, value.key), now, mintedFor)
      BY <1>1, <2>1, LoopOK
    <2> QED
      BY <1>1, <1>5, <2>2, GoesAlone
  <1>6. CASE value.form = "bare" /\ Goes(r, [q EXCEPT !.step = "store", !.key = value.key])
    <2> DEFINE p == [q EXCEPT !.step = "store", !.key = value.key]
    <2>1. "store" \in Steps /\ value.key \in ApiKeys \cup {NoKey} /\ value.key # NoKey
      BY <1>2, <1>6, ProxyAssumption DEF Steps
    <2>2. p \in Request
      BY <1>1, <2>1, Zenon DEF Request
    <2>3. /\ p.step = "store" /\ p.ip = q.ip /\ p.late = q.late /\ p.paid = q.paid /\ p.lost = q.lost
          /\ p.funded = q.funded /\ p.key = value.key /\ p.status = q.status
      BY <1>1 DEF Request
    <2>4. Goes(r, p)
      BY <1>6
    <2> HIDE DEF p
    <2>5. ReqOK(p, now, mintedFor)
      BY <1>1, <1>2, <2>1, <2>2, <2>3 DEF ReqOK, PaymentsOK
    <2> QED
      BY <1>1, <2>4, <2>5, GoesAlone
  <1>7. q.get \in BOOLEAN
    BY <1>1 DEF Request
  <1> QED
    BY <1>3, <1>4, <1>5, <1>6, <1>7 DEF ReadKey, EntryOf

\* Deleting what was read as junk leaves the other clients' keys.
LEMMA PurgeInv ==
    ASSUME PIInv, NEW r \in Requests, Purge(r)
    PROVE  PIInv'
  <1>1. /\ ReqOK(req[r], now, mintedFor) /\ req[r].step = "purge" /\ req[r].ip \in Ips
        /\ now' = now /\ window' = window /\ granted' = granted /\ mintedFor' = mintedFor
        /\ kv' \in {kv, [kv EXCEPT ![req[r].ip] = Empty]}
        /\ Goes(r, NothingRead(req[r])) /\ now \in Nat
    BY DEF PIInv, Purge, At, ReqOK, limiterVars, LimiterTypeOK
  <1>2. KeysOK'
    <2>1. Empty \in KvValues /\ Empty.key = NoKey
      BY DEF Empty, KvValues
    <2> QED
      BY <1>1, <2>1 DEF PIInv, KeysOK
  <1>3. ReqOK(NothingRead(req[r]), now', mintedFor')
    BY <1>1, NothingReadOK
  <1>4. req' \in [Requests -> Request] /\ \A s \in Requests : ReqOK(req'[s], now', mintedFor')
    BY <1>1, <1>3, GoesOn
  <1> QED
    BY <1>1, <1>2, <1>4 DEF PIInv, LimiterTypeOK

\* A minted key belongs to the IP it is minted for.
LEMMA MintInv ==
    ASSUME PIInv, NEW r \in Requests, Mint(r)
    PROVE  PIInv'
  <1> DEFINE q == req[r]
             fresh == CHOOSE k \in Unminted(mintedFor) : TRUE
             p == [q EXCEPT !.step = "store", !.key = fresh]
  <1>1. /\ ReqOK(q, now, mintedFor) /\ q \in Request /\ q.step = "mint" /\ q.ip \in Ips
        /\ now' = now /\ window' = window /\ granted' = granted /\ kv' = kv /\ now \in Nat
        /\ UNCHANGED <<limiterVars, kv>>
    BY DEF PIInv, Mint, At, ReqOK, limiterVars, LimiterTypeOK
  <1>2. CASE Answer(r, 200) /\ UNCHANGED mintedFor
    BY <1>1, <1>2, 200 \in Nat, AnswerInv
  <1>3. CASE /\ Unminted(mintedFor) # {}
             /\ mintedFor' = [mintedFor EXCEPT ![fresh] = q.ip]
             /\ Goes(r, p)
    <2>1. fresh \in ApiKeys /\ mintedFor[fresh] = UnknownIp /\ fresh # NoKey
      BY <1>3, ProxyAssumption DEF Unminted
    <2> HIDE DEF fresh
    <2>2. /\ mintedFor \in [ApiKeys -> Ips \cup {UnknownIp}]
          /\ mintedFor' \in [ApiKeys -> Ips \cup {UnknownIp}]
          /\ mintedFor'[fresh] = q.ip
          /\ \A k \in ApiKeys : mintedFor[k] \in Ips => mintedFor'[k] = mintedFor[k]
      BY <1>1, <1>3, <2>1, ProxyAssumption DEF PIInv, KeysOK
    <2>3. KeysOK'
      <3>1. \A ip \in Ips : kv[ip].key # NoKey => kv[ip].key \in ApiKeys
        BY DEF PIInv, KeysOK, KvValues
      <3> QED
        BY <1>1, <2>2, <3>1 DEF PIInv, KeysOK
    <2>4. "store" \in Steps /\ fresh \in ApiKeys \cup {NoKey}
      BY <2>1 DEF Steps
    <2>5. p \in Request
      BY <1>1, <2>4, Zenon DEF Request
    <2>6. /\ p.step = "store" /\ p.ip = q.ip /\ p.late = q.late /\ p.paid = q.paid /\ p.lost = q.lost
          /\ p.funded = q.funded /\ p.key = fresh /\ p.status = q.status
      BY <1>1 DEF Request
    <2>7. Goes(r, p)
      BY <1>3
    <2> HIDE DEF p
    <2>8. ReqOK(p, now', mintedFor')
      BY <1>1, <2>1, <2>2, <2>5, <2>6 DEF ReqOK, PaymentsOK
    <2>9. req' \in [Requests -> Request] /\ \A s \in Requests : ReqOK(req'[s], now', mintedFor')
      BY <1>1, <2>2, <2>7, <2>8, GoesOn
    <2> QED
      BY <1>1, <2>3, <2>9 DEF PIInv, LimiterTypeOK
  <1> QED
    BY <1>2, <1>3, Zenon DEF Mint

\* It is stored under that IP.
LEMMA StoreInv ==
    ASSUME PIInv, NEW r \in Requests, Store(r)
    PROVE  PIInv'
  <1> DEFINE q == req[r]
  <1>1. q.step = "store" /\ UNCHANGED <<limiterVars, mintedFor>>
    BY DEF Store, At
  <1>2. /\ q.ip \in Ips /\ q.key \in ApiKeys /\ q.key # NoKey /\ mintedFor[q.key] = q.ip
    <2>1. ReqOK(q, now, mintedFor)
      BY DEF PIInv
    <2>2. q.key \in ApiKeys \cup {NoKey}
      BY <2>1 DEF ReqOK, Request
    <2> QED
      BY <1>1, <2>1, <2>2 DEF ReqOK
  <1>3. /\ now' = now /\ window' = window /\ granted' = granted
        /\ mintedFor' = mintedFor /\ now \in Nat
    BY <1>1 DEF PIInv, LimiterTypeOK, limiterVars
  <1>4. CASE Answer(r, 200) /\ UNCHANGED kv
    BY <1>1, <1>4, 200 \in Nat, AnswerInv
  <1>5. CASE /\ kv' = [kv EXCEPT ![q.ip] = [form |-> "stored", key |-> q.key]]
             /\ Goes(r, Loop(q, q.key))
    <2>1. KeysOK'
      <3>1. [form |-> "stored", key |-> q.key] \in KvValues
        BY <1>2 DEF KvValues
      <3> QED
        BY <1>2, <1>3, <1>5, <3>1 DEF PIInv, KeysOK
    <2>2. ReqOK(Loop(q, q.key), now', mintedFor')
      BY <1>1, <1>2, <1>3, LoopOK
    <2>3. req' \in [Requests -> Request] /\ \A s \in Requests : ReqOK(req'[s], now', mintedFor')
      BY <1>3, <1>5, <2>2, GoesOn
    <2> QED
      BY <1>3, <2>1, <2>3 DEF PIInv, LimiterTypeOK
  <1> QED
    BY <1>4, <1>5 DEF Store

\* A submission that settles is answered.
LEMMA SubmitSettlesInv ==
    ASSUME PIInv, NEW r \in Requests, SubmitSettles(r)
    PROVE  PIInv'
  <1>1. UNCHANGED <<limiterVars, kv, mintedFor>>
    BY DEF SubmitSettles
  <1>2. Answer(r, 200)
    BY DEF SubmitSettles
  <1> QED
    BY <1>1, <1>2, 200 \in Nat, AnswerInv

\* An attempt that begins before the deadline, or as the first one after it.
LEMMA AttemptOK ==
    ASSUME PIInv, NEW r \in Requests, NEW q \in Request,
           q.ip = req[r].ip, q.key = req[r].key, q.status # 429, q.late = 0,
           req[r].step \in {"submit", "fund"}, PaymentsOK(q)
    PROVE  ReqOK(Attempt(q), now, mintedFor)
  <1> DEFINE p == Attempt(q)
  <1>1. ReqOK(req[r], now, mintedFor) /\ now \in Nat /\ q.deadline \in Nat
    <2>1. ReqOK(req[r], now, mintedFor) /\ now \in Nat
      BY DEF PIInv, LimiterTypeOK
    <2>2. q.deadline \in Nat
      BY DEF Request
    <2> QED
      BY <2>1, <2>2
  <1>2. /\ p \in Request /\ p.step = "submit" /\ p.ip = q.ip /\ p.paid = q.paid /\ p.lost = q.lost
        /\ p.funded = q.funded /\ p.key = q.key /\ p.status = q.status
        /\ p.deadline = q.deadline
        /\ p.late = IF now >= q.deadline /\ q.late < 2 THEN q.late + 1 ELSE q.late
    BY AttemptIs
  <1>5. PaymentsOK(p)
    BY <1>2 DEF PaymentsOK
  <1>3. p.late # 0 => p.late = 1 /\ p.deadline <= now
    BY <1>1, <1>2
  <1> HIDE DEF p
  <1>4. ReqOK(p, now, mintedFor)
    BY <1>1, <1>2, <1>3, <1>5 DEF ReqOK
  <1> QED
    BY <1>4 DEF p

\* One that misses its account funds it once, or is tried again, or gives up.
LEMMA SubmitMissesInv ==
    ASSUME PIInv, NEW r \in Requests, NEW account \in Channels \cup {"shared"},
           SubmitMisses(r, account)
    PROVE  PIInv'
  <1> DEFINE q == req[r]
  <1>1. /\ ReqOK(q, now, mintedFor) /\ q \in Request /\ q.step = "submit"
        /\ UNCHANGED <<limiterVars, kv, mintedFor>> /\ now \in Nat
        /\ q.deadline \in Nat
    <2>1. /\ ReqOK(q, now, mintedFor) /\ q \in Request /\ now \in Nat
      BY DEF PIInv, LimiterTypeOK
    <2>2. q.step = "submit" /\ UNCHANGED <<limiterVars, kv, mintedFor>>
      BY DEF SubmitMisses, At
    <2>3. q.deadline \in Nat
      BY <2>1 DEF Request
    <2> QED
      BY <2>1, <2>2, <2>3
  <1>2. CASE GivesUp(q, account)
    <2>1. Answer(r, 200)
      BY <1>2 DEF SubmitMisses
    <2> QED
      BY <1>1, <2>1, 200 \in Nat, AnswerInv
  <1>3. CASE ~GivesUp(q, account)
    <2>1. Testnet /\ account # "shared" /\ q.late = 0 /\ account \in Channels
      BY <1>1, <1>3 DEF GivesUp, ReqOK
    <2>2. CASE account \in q.funded
      <3>1. Goes(r, Attempt(q))
        BY <1>3, <2>2 DEF SubmitMisses
      <3>2. ReqOK(Attempt(q), now, mintedFor)
        BY <1>1, <2>1, AttemptOK DEF ReqOK
      <3> QED
        BY <1>1, <3>1, <3>2, GoesAlone
    <2>3. CASE account \notin q.funded
      <3> DEFINE p == [q EXCEPT !.step = "fund", !.missing = account]
      <3>1. "fund" \in Steps /\ account \in Channels \cup {"shared", ""}
        BY DEF Steps
      <3>2. p \in Request
        BY <1>1, <3>1, Zenon DEF Request
      <3>3. /\ p.step = "fund" /\ p.ip = q.ip /\ p.late = q.late /\ p.paid = q.paid /\ p.lost = q.lost
            /\ p.funded = q.funded /\ p.key = q.key /\ p.status = q.status
            /\ p.missing = account
        BY <1>1 DEF Request
      <3>4. Goes(r, p)
        BY <1>3, <2>3 DEF SubmitMisses
      <3> HIDE DEF p
      <3>5. ReqOK(p, now, mintedFor)
        BY <1>1, <2>1, <2>3, <3>2, <3>3 DEF ReqOK, PaymentsOK
      <3> QED
        BY <1>1, <3>4, <3>5, GoesAlone
    <2> QED
      BY <2>2, <2>3
  <1> QED
    BY <1>2, <1>3

\* A funding, before the last attempt: nothing paid, a payment that is known of,
\* or one whose answer was lost.
LEMMA FundInv ==
    ASSUME PIInv, NEW r \in Requests, Fund(r)
    PROVE  PIInv'
  <1> DEFINE q == req[r]
             a == q.missing
             p == Attempt([q EXCEPT !.missing = ""])
  <1>1. /\ ReqOK(q, now, mintedFor) /\ q \in Request /\ q.step = "fund"
        /\ UNCHANGED <<limiterVars, kv, mintedFor>>
    BY DEF PIInv, Fund, At
  <1>2. /\ Testnet /\ a \in Channels /\ a \notin q.funded /\ q.late = 0 /\ q.status # 429
        /\ q.funded \in SUBSET Channels /\ q.paid \in [Channels \cup {"shared"} -> Nat]
        /\ q.lost \in [Channels \cup {"shared"} -> Nat]
        /\ PaymentsOK(q) /\ a # "shared"
    <2>1. /\ Testnet /\ a \in Channels /\ a \notin q.funded /\ q.late = 0
          /\ q.status # 429 /\ PaymentsOK(q)
      BY <1>1 DEF ReqOK
    <2>2. /\ q.funded \in SUBSET Channels /\ q.paid \in [Channels \cup {"shared"} -> Nat]
          /\ q.lost \in [Channels \cup {"shared"} -> Nat]
      BY <1>1 DEF Request
    <2> QED
      BY <2>1, <2>2, ProxyAssumption
  \* Whatever the funding makes of the three records, the attempt goes on from there.
  <1>3. ASSUME NEW funded \in SUBSET Channels,
               NEW paid \in [Channels \cup {"shared"} -> Nat],
               NEW lost \in [Channels \cup {"shared"} -> Nat],
               \A x \in Channels \cup {"shared"} :
                  /\ x = "shared" => paid[x] = 0
                  /\ paid[x] <= lost[x] + IF x \in funded THEN 1 ELSE 0
        PROVE  ReqOK([p EXCEPT !.funded = funded, !.paid = paid, !.lost = lost], now, mintedFor)
    <2> DEFINE d == [q EXCEPT !.missing = "", !.funded = funded, !.paid = paid, !.lost = lost]
    <2>1. "" \in Channels \cup {"shared", ""}
      OBVIOUS
    <2>2. d \in Request
      <3> HIDE DEF q
      <3> QED
        BY <1>1, <1>3, <2>1, Zenon DEF Request
    <2>3. /\ d.ip = q.ip /\ d.key = q.key /\ d.status = q.status /\ d.late = 0
          /\ d.paid = paid /\ d.funded = funded /\ d.lost = lost
      <3> HIDE DEF q
      <3>1. /\ q \in Request /\ q.late = 0
        BY <1>1, <1>2
      <3> QED
        BY <3>1 DEF Request
    <2>4. PaymentsOK(d)
      <3> HIDE DEF q, a, p
      <3> QED
        BY <1>2, <1>3, <2>3 DEF PaymentsOK
    <2>5. ReqOK(Attempt(d), now, mintedFor)
      <3> HIDE DEF d
      <3> QED
        BY <1>1, <1>2, <2>2, <2>3, <2>4, AttemptOK
    <2>6. Attempt(d) = [p EXCEPT !.funded = funded, !.paid = paid, !.lost = lost]
      <3> HIDE DEF q
      <3> QED
        BY <1>1 DEF Attempt, Request
    <2> QED
      BY <2>5, <2>6
  <1>4. /\ p.funded = q.funded /\ p.paid = q.paid /\ p.lost = q.lost
        /\ p = [p EXCEPT !.funded = q.funded, !.paid = q.paid, !.lost = q.lost]
    BY <1>1 DEF Attempt, Request
  <1>5. ReqOK(p, now, mintedFor)
    <2> DEFINE funded == q.funded
               paid == q.paid
               lost == q.lost
    <2>1. ReqOK([p EXCEPT !.funded = funded, !.paid = paid, !.lost = lost], now, mintedFor)
      <3>1. \A x \in Channels \cup {"shared"} :
               /\ x = "shared" => paid[x] = 0
               /\ paid[x] <= lost[x] + IF x \in funded THEN 1 ELSE 0
        BY <1>2 DEF PaymentsOK
      <3>2. /\ funded \in SUBSET Channels /\ paid \in [Channels \cup {"shared"} -> Nat]
            /\ lost \in [Channels \cup {"shared"} -> Nat]
        BY <1>2
      <3> HIDE DEF funded, paid, lost, q, p, a
      <3> QED
        BY <1>3, <3>1, <3>2
    <2> QED
      BY <1>4, <2>1
  <1>6. ReqOK([Remembered(p, a) EXCEPT !.paid[a] = @ + 1], now, mintedFor)
    <2> DEFINE funded == q.funded \cup {a}
               paid == [q.paid EXCEPT ![a] = @ + 1]
    <2>1. ReqOK([p EXCEPT !.funded = funded, !.paid = paid, !.lost = q.lost], now, mintedFor)
      <3>1. /\ funded \in SUBSET Channels /\ paid \in [Channels \cup {"shared"} -> Nat]
            /\ q.lost \in [Channels \cup {"shared"} -> Nat]
        BY <1>2
      <3>2. ASSUME NEW x \in Channels \cup {"shared"}
            PROVE  /\ x = "shared" => paid[x] = 0
                   /\ paid[x] <= q.lost[x] + IF x \in funded THEN 1 ELSE 0
        <4>1. /\ x = "shared" => q.paid[x] = 0
              /\ q.paid[x] <= q.lost[x] + IF x \in q.funded THEN 1 ELSE 0
              /\ q.paid[x] \in Nat /\ q.lost[x] \in Nat
          BY <1>2 DEF PaymentsOK
        <4>2. paid[x] = IF x = a THEN q.paid[x] + 1 ELSE q.paid[x]
          BY <1>2
        <4> HIDE DEF paid, q, a, p
        <4> QED
          BY <1>2, <4>1, <4>2
      <3> HIDE DEF funded, paid, q, p, a
      <3> QED
        BY <1>3, <3>1, <3>2
    <2>2. [Remembered(p, a) EXCEPT !.paid[a] = @ + 1]
             = [p EXCEPT !.funded = funded, !.paid = paid, !.lost = q.lost]
      <3> HIDE DEF q
      <3> QED
        BY <1>1, <1>4 DEF Remembered, Attempt, Request
    <2> QED
      BY <2>1, <2>2
  <1>7. ReqOK([p EXCEPT !.paid[a] = @ + 1, !.lost[a] = @ + 1], now, mintedFor)
    <2> DEFINE lost == [q.lost EXCEPT ![a] = @ + 1]
               paid == [q.paid EXCEPT ![a] = @ + 1]
    <2>1. ReqOK([p EXCEPT !.funded = q.funded, !.paid = paid, !.lost = lost], now, mintedFor)
      <3>1. /\ lost \in [Channels \cup {"shared"} -> Nat]
            /\ paid \in [Channels \cup {"shared"} -> Nat]
            /\ q.funded \in SUBSET Channels
        BY <1>2
      <3>2. ASSUME NEW x \in Channels \cup {"shared"}
            PROVE  /\ x = "shared" => paid[x] = 0
                   /\ paid[x] <= lost[x] + IF x \in q.funded THEN 1 ELSE 0
        <4>1. /\ x = "shared" => q.paid[x] = 0
              /\ q.paid[x] <= q.lost[x] + IF x \in q.funded THEN 1 ELSE 0
              /\ q.paid[x] \in Nat /\ q.lost[x] \in Nat
          BY <1>2 DEF PaymentsOK
        <4>2. /\ paid[x] = IF x = a THEN q.paid[x] + 1 ELSE q.paid[x]
              /\ lost[x] = IF x = a THEN q.lost[x] + 1 ELSE q.lost[x]
          BY <1>2
        <4> HIDE DEF paid, lost, q, a, p
        <4> QED
          BY <1>2, <4>1, <4>2
      <3> HIDE DEF lost, paid, q, p, a
      <3> QED
        BY <1>3, <3>1, <3>2
    <2>2. [p EXCEPT !.paid[a] = @ + 1, !.lost[a] = @ + 1]
             = [p EXCEPT !.funded = q.funded, !.paid = paid, !.lost = lost]
      <3> HIDE DEF q
      <3> QED
        BY <1>1, <1>4 DEF Attempt, Request
    <2> QED
      BY <2>1, <2>2
  <1>8. \E s \in {p, [Remembered(p, a) EXCEPT !.paid[a] = @ + 1],
                  [p EXCEPT !.paid[a] = @ + 1, !.lost[a] = @ + 1]} : Goes(r, s)
    BY DEF Fund
  <1> HIDE DEF p, q
  <1> QED
    BY <1>1, <1>5, <1>6, <1>7, <1>8, GoesAlone

\* The clock, and the limiters, move on without the requests.
LEMMA PassesInv == PIInv /\ Passes => PIInv'
  <1> SUFFICES ASSUME PIInv, Passes
               PROVE  PIInv'
    OBVIOUS
  <1>1. /\ now \in Nat /\ now' = now + 1 /\ now' \in 0..MaxTime
        /\ window' = window /\ granted' = granted
        /\ req' = req /\ kv' = kv /\ mintedFor' = mintedFor
    BY RateAssumption DEF PIInv, LimiterTypeOK, Passes, Tick
  <1>2. \A r \in Requests : ReqOK(req[r], now', mintedFor)
    <2> SUFFICES ASSUME NEW r \in Requests
                 PROVE  ReqOK(req[r], now', mintedFor)
      OBVIOUS
    <2>1. ReqOK(req[r], now, mintedFor) /\ now <= now' /\ now' \in Nat
      BY <1>1 DEF PIInv
    <2> QED
      BY <1>1, <2>1, Bears
  <1> QED
    BY <1>1, <1>2 DEF PIInv, LimiterTypeOK, KeysOK

\* Other clients only use up the global limiter.
LEMMA OtherClientInv == PIInv /\ OtherClient => PIInv'
  <1> SUFFICES ASSUME PIInv, OtherClient
               PROVE  PIInv'
    OBVIOUS
  <1>1. /\ now' = now /\ req' = req /\ kv' = kv /\ mintedFor' = mintedFor
        /\ Global \in Names /\ Admit(Global)
    BY ProxyAssumption DEF OtherClient, Admit
  <1>2. LimiterTypeOK'
    BY <1>1, AdmitTyped DEF PIInv
  <1> QED
    BY <1>1, <1>2 DEF PIInv, KeysOK

\* The proxy begins in order.
LEMMA ProxyInitInv == Init => PIInv
  <1> SUFFICES ASSUME Init
               PROVE  PIInv
    OBVIOUS
  <1>1. LimiterTypeOK
    BY LimiterInitInv DEF Init, LIInv
  <1>2. KeysOK
    <2>1. PICK old \in OldEntries :
             /\ kv = [i \in Ips |-> IF i = old.ip THEN old.value ELSE Empty]
             /\ mintedFor = [k \in ApiKeys |-> IF k = old.value.key THEN old.ip ELSE UnknownIp]
      BY DEF Init
    <2>2. old.ip \in Ips /\ old.value \in KvValues
      BY ProxyAssumption
    <2>3. /\ Empty \in KvValues /\ Empty.key = NoKey
          /\ old.value.key \in ApiKeys \cup {NoKey}
      BY <2>2 DEF Empty, KvValues
    <2> QED
      BY <2>1, <2>2, <2>3 DEF KeysOK
  <1>3. Fresh \in Request /\ req = [r \in Requests |-> Fresh] /\ now = 0
    BY FreshTyped DEF Init, LimiterInit
  <1>4. ReqOK(Fresh, now, mintedFor)
    <2>1. /\ Fresh.step = "idle" /\ Fresh.late = 0 /\ Fresh.key = NoKey /\ Fresh.status = 0
          /\ Fresh.over = 0 /\ Fresh.wait = 0
          /\ Fresh.paid = [a \in Channels \cup {"shared"} |-> 0]
          /\ Fresh.lost = [a \in Channels \cup {"shared"} |-> 0]
      BY DEF Fresh
    <2>3. PaymentsOK(Fresh)
      BY <2>1 DEF PaymentsOK
    <2>2. Second * 0 = 0
      BY RateAssumption
    <2> QED
      BY <1>3, <2>1, <2>2, <2>3 DEF ReqOK
  <1> QED
    BY <1>1, <1>2, <1>3, <1>4 DEF PIInv

\* What a request does.
LEMMA RequestInv ==
    ASSUME PIInv, NEW r \in Requests, Arrive(r) \/ RequestStep(r)
    PROVE  PIInv'
  <1>1. CASE Arrive(r)
    BY <1>1, ArriveInv
  <1>2. ASSUME NEW n \in Names, LimiterAllows(r, n) \/ LimiterDenies(r, n)
        PROVE  PIInv'
    BY <1>2, LimiterAllowsInv, LimiterDeniesInv
  <1>3. CASE LimiterUnavailable(r)
    <2>1. Answer(r, 200) /\ UNCHANGED <<limiterVars, kv, mintedFor>>
      BY <1>3 DEF LimiterUnavailable
    <2> QED
      BY <2>1, 200 \in Nat, AnswerInv
  <1>4. CASE Decide(r) \/ Validate(r) \/ ReadKey(r) \/ Purge(r) \/ Mint(r) \/ Store(r)
    BY <1>4, DecideInv, ValidateInv, ReadKeyInv, PurgeInv, MintInv, StoreInv
  <1>5. CASE SubmitSettles(r) \/ Fund(r)
    BY <1>5, SubmitSettlesInv, FundInv
  <1>6. ASSUME NEW a \in Channels \cup {"shared"}, SubmitMisses(r, a)
        PROVE  PIInv'
    BY <1>6, SubmitMissesInv
  <1> QED
    BY <1>1, <1>2, <1>3, <1>4, <1>5, <1>6 DEF RequestStep

\* Every step keeps the invariant.
LEMMA ProxyInductive == PIInv /\ [Next]_proxyVars => PIInv'
  <1> SUFFICES ASSUME PIInv, [Next]_proxyVars
               PROVE  PIInv'
    OBVIOUS
  <1>1. CASE Passes
    BY <1>1, PassesInv
  <1>2. CASE OtherClient
    BY <1>2, OtherClientInv
  <1>3. ASSUME NEW r \in Requests, Arrive(r) \/ RequestStep(r)
        PROVE  PIInv'
    BY <1>3, RequestInv
  <1>4. CASE UNCHANGED proxyVars
    BY <1>4 DEF proxyVars, PIInv, KeysOK, ReqOK, LimiterTypeOK
  <1> QED
    BY <1>1, <1>2, <1>3, <1>4 DEF Next

\* So it holds throughout.
LEMMA ProxyInvariant == Spec => []PIInv
  <1>1. Init => PIInv
    BY ProxyInitInv
  <1>2. PIInv /\ [Next]_proxyVars => PIInv'
    BY ProxyInductive
  <1> QED
    BY <1>1, <1>2, PTL DEF Spec

\* The state of the limiters, the requests and the KV has its types.
THEOREM ProxyTyped == Spec => []TypeOK
  <1>1. PIInv => TypeOK
    BY DEF PIInv, KeysOK, TypeOK
  <1> QED
    BY <1>1, ProxyInvariant, PTL

\* Whichever limiter refuses, in whatever order the two answer, and however the
\* clock moves between their answers and the verdict, the instant Retry-After
\* names is not before the end of the windows that refused (enforceRateLimit).
THEOREM ProxyRetryAfter == Spec => []RetryAfterSuffices
  <1>1. PIInv => RetryAfterSuffices
    BY DEF PIInv, ReqOK, RetryAfterSuffices
  <1> QED
    BY <1>1, ProxyInvariant, PTL

\* No interleaving of the reads, purges, mints and stores of any number of
\* requests lets a client use the key of another (getOrCreateApiKey).
THEOREM ProxyKeysStay == Spec => []KeysStayWithTheirIp
  <1>1. PIInv => KeysStayWithTheirIp
    BY DEF PIInv, KeysOK, ReqOK, KeysStayWithTheirIp
  <1> QED
    BY <1>1, ProxyInvariant, PTL

\* The retry loop begins one attempt at most after its deadline (POST /).
THEOREM ProxyDeadline == Spec => []OneAttemptAfterDeadline
  <1>1. ASSUME PIInv, NEW r \in Requests
        PROVE  req[r].late <= 1
    <2>1. req[r].late = 0 \/ req[r].late = 1
      BY <1>1 DEF PIInv, ReqOK
    <2> QED
      BY <2>1
  <1>2. PIInv => OneAttemptAfterDeadline
    BY <1>1 DEF OneAttemptAfterDeadline
  <1> QED
    BY <1>2, ProxyInvariant, PTL

\* However often the relayer misses an account and whatever becomes of the
\* answers, all payments of a request to one account but one have lost theirs
\* (fundWithFriendbot, fundedAccounts).
THEOREM ProxyPaysAgainOnlyUnanswered == Spec => []PaysAgainOnlyUnanswered
  <1>1. ASSUME PIInv, NEW r \in Requests, NEW a \in Channels \cup {"shared"}
        PROVE  req[r].paid[a] <= IF Testnet /\ a # "shared" THEN 1 + req[r].lost[a] ELSE 0
    <2> DEFINE q == req[r]
    <2>1. /\ ~Testnet \/ a = "shared" => q.paid[a] = 0
          /\ q.paid[a] <= q.lost[a] + IF a \in q.funded THEN 1 ELSE 0
      BY <1>1 DEF PIInv, ReqOK, PaymentsOK
    <2>2. q \in Request
      BY <1>1 DEF PIInv
    <2>3. q.paid[a] \in Nat /\ q.lost[a] \in Nat
      BY <2>2 DEF Request
    <2> QED
      BY <2>1, <2>3
  <1>2. PIInv => PaysAgainOnlyUnanswered
    BY <1>1 DEF PaysAgainOnlyUnanswered
  <1> QED
    BY <1>2, ProxyInvariant, PTL

\* Composed with the requests, the KV and clients nobody counts, each limiter
\* still does what it does alone: every step of the proxy is one of theirs or
\* leaves them be (enforceRateLimit, the only caller of RequestRateLimiter).
THEOREM ProxyImplementsLimiter == Spec => LimiterSpec
  <1>1. Init => LimiterInit
    BY DEF Init
  <1>2. [Next]_proxyVars => [LimiterNext]_limiterVars
    <2> SUFFICES ASSUME [Next]_proxyVars
                 PROVE  [LimiterNext]_limiterVars
      OBVIOUS
    <2>1. CASE Passes
      BY <2>1 DEF Passes, LimiterNext
    <2>2. CASE OtherClient
      BY <2>2, ProxyAssumption DEF OtherClient, LimiterNext
    <2>3. ASSUME NEW r \in Requests, Arrive(r) \/ RequestStep(r)
          PROVE  [LimiterNext]_limiterVars
      <3>1. ASSUME NEW n \in Names, LimiterAllows(r, n) \/ LimiterDenies(r, n)
            PROVE  [LimiterNext]_limiterVars
        BY <3>1 DEF LimiterAllows, LimiterDenies, LimiterNext
      <3>2. CASE Arrive(r) \/ LimiterUnavailable(r) \/ Decide(r) \/ Validate(r)
        BY <3>2 DEF Arrive, LimiterUnavailable, Decide, Validate
      <3>3. CASE ReadKey(r) \/ Purge(r) \/ Mint(r) \/ Store(r)
        BY <3>3 DEF ReadKey, Purge, Mint, Store
      <3>4. CASE SubmitSettles(r) \/ Fund(r) \/ \E a \in Channels \cup {"shared"} : SubmitMisses(r, a)
        BY <3>4 DEF SubmitSettles, Fund, SubmitMisses
      <3> QED
        BY <2>3, <3>1, <3>2, <3>3, <3>4 DEF RequestStep
    <2>4. CASE UNCHANGED proxyVars
      BY <2>4 DEF proxyVars, limiterVars
    <2> QED
      BY <2>1, <2>2, <2>3, <2>4 DEF Next
  <1> QED
    BY <1>1, <1>2, PTL DEF Spec, LimiterSpec

\* Whatever the requests do, no window grants more than its limit
\* (RequestRateLimiter.fetch).
THEOREM ProxyWindows == Spec => []WindowsKeepTheLimit
  BY ProxyImplementsLimiter, LimiterKeepsTheLimit, PTL

\* And no span as long as a window grants as much as two limits
\* (RequestRateLimiter.fetch, enforceRateLimit).
THEOREM ProxyBursts == Spec => []NoBurstBeyondTwoWindows
  BY ProxyImplementsLimiter, LimiterKeepsTheLimit, PTL

-----------------------------------------------------------------------------
(* What is sponsored.                                                      *)

\* The indices of a list, and of a list of one.
LEMMA ListIndices ==
    ASSUME NEW s, IsList(s)
    PROVE  /\ Len(s) \in Nat /\ DOMAIN s = 1..Len(s)
           /\ Len(s) = 1 => DOMAIN s = {1}
  BY DEF IsList

\* A deployment the checks let pass installs approved code, with arguments its
\* constructor accepts (validateDeployFunction, validateDeployConstructor).
LEMMA DeployIsSound ==
    ASSUME NEW deploy, NEW deployers, DeployAllowed(deploy, deployers), IsList(deploy.signers)
    PROVE  /\ deploy.kind = "create" /\ deploy.code = "approved"
           /\ deploy.deployer \in deployers
           /\ Len(deploy.signers) = 1
           /\ \A i \in DOMAIN deploy.signers :
                 /\ deploy.signers[i].verifier \in Contracts
                 /\ deploy.salt = deploy.signers[i].credential
           /\ deploy.policies \subseteq Contracts
  <1>1. Len(deploy.signers) = 1 /\ DOMAIN deploy.signers = {1}
    BY ListIndices DEF DeployAllowed, ConstructorAllowed
  <1> QED
    BY <1>1 DEF DeployAllowed, ConstructorAllowed

\* A call on a wallet exposes the sponsor to that wallet alone.
LEMMA WalletCallIsSponsorable ==
    ASSUME NEW body, NEW rpc, IsDecoded(body), body.mode = "func", body.func.kind = "call",
           body.func.fn # "transfer", SimulationAllowed(rpc.sim), Len(body.auth) <= MaxAuthEntries,
           WalletCallAllowed(body.func, body.auth, rpc)
    PROVE  Sponsorable(body, rpc)
  <1> DEFINE call == body.func
  <1>1. /\ call.target \in {"listedWallet", "wallet"} /\ call.kind = "call"
        /\ call.fn # "transfer" /\ call.fn \in WalletFunctions
    BY DEF WalletCallAllowed, WalletAllowed
  <1>2. FunctionsOf(body) = {call}
    BY DEF FunctionsOf
  <1>3. ASSUME NEW e \in EntriesOf(body)
        PROVE  /\ e.root = call /\ e.cred # "source" /\ e.signer = call.target
               /\ \A node \in {e.root} \cup e.subs :
                     node.kind = "call" /\ node.target = call.target
    BY <1>3 DEF EntriesOf, WalletCallAllowed, AddressCredential, InvocationAllowed
  <1>4. rpc.sim.ok /\ rpc.sim.minFee <= MaxResourceFee
    BY DEF SimulationAllowed
  <1> HIDE DEF call
  <1>5. \A node \in FunctionsOf(body) \cup Nodes(body) :
           node.kind = "call" /\ node.target \in {"listedWallet", "wallet"}
    BY <1>1, <1>2, <1>3 DEF Nodes
  <1> QED
    BY <1>1, <1>2, <1>3, <1>4, <1>5 DEF Sponsorable

\* A transfer exposes the sponsor to one token and one wallet, which pays.
LEMMA TransferIsSponsorable ==
    ASSUME NEW body, NEW rpc, IsDecoded(body), body.mode = "func", body.func.kind = "call",
           body.func.fn = "transfer", SimulationAllowed(rpc.sim),
           TransferAllowed(body.func, body.auth, rpc)
    PROVE  Sponsorable(body, rpc)
  <1> DEFINE call == body.func
             entry == body.auth[1]
  <1>1. DOMAIN body.auth = {1}
    <2>1. IsList(body.auth) /\ Len(body.auth) = 1
      BY DEF IsDecoded, TransferAllowed
    <2> QED
      BY <2>1, ListIndices
  <1>2. /\ call.target \in {"listedToken", "assetToken"}
        /\ call.kind = "call" /\ call.fn = "transfer"
    BY DEF TransferAllowed, TokenAllowed
  <1>3. FunctionsOf(body) = {call} /\ EntriesOf(body) = {entry}
    BY <1>1 DEF FunctionsOf, EntriesOf
  <1>4. /\ entry.root = call /\ entry.subs = {} /\ entry.cred # "source"
        /\ entry.signer \in {"listedWallet", "wallet"}
        /\ call.args[1] = entry.signer
    BY DEF TransferAllowed, WalletAllowed, AddressCredential
  <1>5. /\ rpc.sim.ok /\ rpc.sim.minFee <= MaxResourceFee
        /\ Len(body.auth) <= MaxAuthEntries
    BY DEF SimulationAllowed, TransferAllowed, ListedDeployAllowed, MaxAuthEntries
  <1> HIDE DEF call, entry
  <1>6. FunctionsOf(body) \cup Nodes(body) = {call}
    BY <1>3, <1>4 DEF Nodes
  <1> QED
    BY <1>2, <1>3, <1>4, <1>5, <1>6 DEF Sponsorable

\* A deployment by a listed deployer exposes it to that deployment alone.
LEMMA ListedDeployIsSponsorable ==
    ASSUME NEW body, NEW rpc, IsDecoded(body), body.mode = "func", body.func.kind = "create",
           SimulationAllowed(rpc.sim), ListedDeployAllowed(body.func, body.auth)
    PROVE  Sponsorable(body, rpc)
  <1> DEFINE deploy == body.func
             entry == body.auth[1]
  <1>1. DOMAIN body.auth = {1}
    <2>1. IsList(body.auth) /\ Len(body.auth) = 1
      BY DEF IsDecoded, ListedDeployAllowed
    <2> QED
      BY <2>1, ListIndices
  <1>2. /\ deploy.kind = "create" /\ deploy.code = "approved"
        /\ deploy.deployer \in AllowedDeployers
        /\ Len(deploy.signers) = 1
        /\ \A i \in DOMAIN deploy.signers :
              /\ deploy.signers[i].verifier \in Contracts
              /\ deploy.salt = deploy.signers[i].credential
        /\ deploy.policies \subseteq Contracts
    <2>1. IsList(deploy.signers) /\ DeployAllowed(deploy, AllowedDeployers)
      BY DEF IsDecoded, ListedDeployAllowed
    <2> QED
      BY <2>1, DeployIsSound
  <1>3. FunctionsOf(body) = {deploy} /\ EntriesOf(body) = {entry}
    BY <1>1 DEF FunctionsOf, EntriesOf
  <1>4. /\ entry.root = deploy /\ entry.subs = {} /\ entry.cred # "source"
        /\ entry.signer = deploy.deployer
    BY <1>2 DEF ListedDeployAllowed
  <1>5. /\ rpc.sim.ok /\ rpc.sim.minFee <= MaxResourceFee
        /\ Len(body.auth) <= MaxAuthEntries
    BY DEF SimulationAllowed, TransferAllowed, ListedDeployAllowed, MaxAuthEntries
  <1> HIDE DEF deploy, entry
  <1>6. FunctionsOf(body) \cup Nodes(body) = {deploy}
    BY <1>3, <1>4 DEF Nodes
  <1> QED
    BY <1>2, <1>3, <1>4, <1>5, <1>6 DEF Sponsorable

\* A signed envelope exposes nobody but its own source, within the ceilings.
LEMMA EnvelopeIsSponsorable ==
    ASSUME NEW body, NEW rpc, IsDecoded(body), body.mode = "xdr",
           XdrAllowed(body.tx, rpc.sim)
    PROVE  Sponsorable(body, rpc)
  <1> DEFINE op == body.tx.operations[1]
             deploy == op.func
             entry == op.auth[1]
  <1>1. DOMAIN body.tx.operations = {1}
    <2>1. IsList(body.tx.operations) /\ Len(body.tx.operations) = 1
      BY DEF IsDecoded, XdrAllowed
    <2> QED
      BY <2>1, ListIndices
  <1>2. /\ DeployAllowed(deploy, {body.tx.source}) /\ XdrAuthAllowed(deploy, op.auth)
    BY DEF XdrAllowed
  <1>3. IsList(op.auth) /\ IsList(deploy.signers)
    BY <1>1, <1>2 DEF IsDecoded, DeployAllowed
  <1>4. DOMAIN op.auth = {1}
    BY <1>2, <1>3, ListIndices DEF XdrAuthAllowed
  <1>5. /\ deploy.kind = "create" /\ deploy.code = "approved"
        /\ deploy.deployer = body.tx.source
        /\ Len(deploy.signers) = 1
        /\ \A i \in DOMAIN deploy.signers :
              /\ deploy.signers[i].verifier \in Contracts
              /\ deploy.salt = deploy.signers[i].credential
        /\ deploy.policies \subseteq Contracts
    BY <1>2, <1>3, DeployIsSound
  <1>6. FunctionsOf(body) = {deploy} /\ EntriesOf(body) = {entry}
    BY <1>1, <1>4 DEF FunctionsOf, EntriesOf
  <1>7. entry.root = deploy /\ entry.subs = {} /\ entry.cred = "source"
    BY <1>2 DEF XdrAuthAllowed
  <1>8. /\ rpc.sim.ok /\ rpc.sim.minFee <= MaxResourceFee
        /\ body.tx.source # "shared" /\ body.tx.source \in body.tx.signedBy
        /\ body.tx.fee <= MaxTotalFee /\ body.tx.declared.fee <= MaxResourceFee
        /\ body.tx.declared.fee <= 2 * rpc.sim.minFee + FeeSlack
        /\ rpc.sim.readWrite \subseteq body.tx.declared.readWrite
        /\ rpc.sim.readWrite \cup rpc.sim.readOnly
              \subseteq body.tx.declared.readWrite \cup body.tx.declared.readOnly
    BY DEF XdrAllowed, SimulationAllowed, CoversSimulation
  <1> HIDE DEF op, deploy, entry
  <1>9. FunctionsOf(body) \cup Nodes(body) = {deploy}
    BY <1>6, <1>7 DEF Nodes
  <1> QED
    BY <1>5, <1>6, <1>7, <1>8, <1>9 DEF Sponsorable

\* Whatever the body, however many entries, operations and nodes it has, and
\* whatever the RPC says: what validateSubmission lets pass is sponsorable.
THEOREM AllowedIsSponsorable ==
    ASSUME NEW body, NEW rpc, IsDecoded(body), SubmissionAllowed(body, rpc)
    PROVE  Sponsorable(body, rpc)
  <1>1. CASE body.mode = "xdr"
    BY <1>1, EnvelopeIsSponsorable DEF SubmissionAllowed
  <1>2. CASE body.mode # "xdr"
    <2>1. /\ body.mode = "func" /\ SimulationAllowed(rpc.sim) /\ FuncAllowed(body, rpc)
          /\ Len(body.auth) <= MaxAuthEntries
      BY <1>2 DEF IsDecoded, SubmissionAllowed
    <2>2. CASE body.func.kind = "create"
      BY <2>1, <2>2, ListedDeployIsSponsorable DEF FuncAllowed
    <2>3. CASE body.func.kind = "call"
      BY <2>1, <2>3, TransferIsSponsorable, WalletCallIsSponsorable DEF FuncAllowed
    <2> QED
      BY <2>1, <2>2, <2>3 DEF FuncAllowed
  <1> QED
    BY <1>1, <1>2

\* Getting near a key: a request that reads one is a GET or has been found
\* sponsorable, and one that goes further has been.
Entitled(q) ==
    /\ q.step \in {"read", "purge"} => q.get \/ q.sponsored
    /\ q.step \in {"mint", "store", "submit", "fund"} => q.sponsored

AllEntitled == \A r \in Requests : Entitled(req[r])

\* One request goes on entitled, the others stay as they are.
LEMMA GoesEntitled ==
    ASSUME PIInv, AllEntitled, NEW r \in Requests, NEW q, Goes(r, q), Entitled(q)
    PROVE  AllEntitled'
  <1>1. req' = [req EXCEPT ![r] = q] /\ req \in [Requests -> Request]
    BY DEF Goes, PIInv
  <1> SUFFICES ASSUME NEW s \in Requests
               PROVE  Entitled(req'[s])
    BY DEF AllEntitled
  <1>2. req'[s] = IF s = r THEN q ELSE req[s]
    BY <1>1
  <1> QED
    BY <1>2 DEF AllEntitled

\* An answered request needs no entitlement, whatever the answer.
LEMMA AnswerEntitled ==
    ASSUME PIInv, AllEntitled, NEW r \in Requests, NEW code, Answer(r, code)
    PROVE  AllEntitled'
  <1> DEFINE q == [Fresh EXCEPT !.step = "done", !.status = code, !.left = req[r].left]
  <1>1. Entitled(q)
    BY DEF Entitled, Fresh
  <1>2. Goes(r, q)
    BY DEF Answer
  <1> QED
    BY <1>1, <1>2, GoesEntitled

\* Admission entitles to nothing: a GET goes to the key, the others to the
\* checks (Arrive, enforceRateLimit).
LEMMA AdmissionEntitled ==
    ASSUME PIInv, AllEntitled, NEW r \in Requests,
           \/ Arrive(r) \/ LimiterUnavailable(r) \/ Decide(r)
           \/ \E n \in Names : LimiterAllows(r, n) \/ LimiterDenies(r, n)
    PROVE  AllEntitled'
  <1>1. req[r] \in Request /\ Entitled(req[r])
    BY DEF PIInv, AllEntitled
  <1>2. CASE Arrive(r)
    <2>1. CASE Answer(r, 200)
      BY <2>1, AnswerEntitled
    <2>2. ASSUME NEW ip \in Ips, Goes(r, [req[r] EXCEPT !.step = "limit", !.ip = ip,
                                                         !.left = {Global, ip}])
          PROVE  AllEntitled'
      <3>1. Entitled([req[r] EXCEPT !.step = "limit", !.ip = ip, !.left = {Global, ip}])
        BY <1>1 DEF Entitled, Request
      <3> QED
        BY <2>2, <3>1, GoesEntitled
    <2>3. ASSUME NEW ip \in Ips, Goes(r, [req[r] EXCEPT !.step = "read", !.ip = ip, !.get = TRUE])
          PROVE  AllEntitled'
      <3>1. Entitled([req[r] EXCEPT !.step = "read", !.ip = ip, !.get = TRUE])
        BY <1>1 DEF Entitled, Request
      <3> QED
        BY <2>3, <3>1, GoesEntitled
    <2> QED
      BY <1>2, <2>1, <2>2, <2>3 DEF Arrive
  <1>3. CASE LimiterUnavailable(r)
    BY <1>3, AnswerEntitled DEF LimiterUnavailable
  <1>4. CASE Decide(r)
    <2>1. Entitled([req[r] EXCEPT !.step = "validate"])
      BY <1>1 DEF Entitled, Request
    <2>2. Entitled([Fresh EXCEPT !.step = "done", !.status = 429,
                       !.wait = now + Second * req[r].wait, !.over = req[r].over])
      BY DEF Entitled, Fresh
    <2> QED
      BY <1>4, <2>1, <2>2, GoesEntitled DEF Decide
  <1>5. ASSUME NEW n \in Names, LimiterAllows(r, n)
        PROVE  AllEntitled'
    <2>1. Entitled([req[r] EXCEPT !.left = @ \ {n}])
      BY <1>1 DEF Entitled, Request
    <2> QED
      BY <1>5, <2>1, GoesEntitled DEF LimiterAllows
  <1>6. ASSUME NEW n \in Names, LimiterDenies(r, n)
        PROVE  AllEntitled'
    <2> DEFINE end == window[n].start + Window
               told == [req[r] EXCEPT !.left = @ \ {n}]
               waits == [req[r] EXCEPT !.left = @ \ {n}, !.denied = TRUE,
                            !.wait = LongerWait(RetryAfter(n), @),
                            !.over = IF end > @ THEN end ELSE @]
    <2>1. Goes(r, told) \/ Goes(r, waits)
      BY <1>6 DEF LimiterDenies
    <2>2. Entitled(told) /\ Entitled(waits)
      BY <1>1 DEF Entitled, Request
    <2> HIDE DEF told, waits
    <2> QED
      BY <2>1, <2>2, GoesEntitled
  <1> QED
    BY <1>2, <1>3, <1>4, <1>5, <1>6

\* The checks entitle to what they should (validateSubmission).
LEMMA ValidateEntitled ==
    ASSUME PIInv, AllEntitled, NEW r \in Requests, Validate(r)
    PROVE  AllEntitled'
  <1>1. PICK verdict \in Verdicts :
           IF verdict.allowed
           THEN Goes(r, [req[r] EXCEPT !.step = "read", !.sponsored = verdict.sponsorable])
           ELSE Answer(r, 200)
    BY DEF Validate
  <1>2. PICK body \in Submissions, rpc \in Outlooks :
           verdict = [allowed |-> SubmissionAllowed(body, rpc),
                      sponsorable |-> Sponsorable(body, rpc)]
    BY DEF Verdicts
  <1>3. CASE verdict.allowed
    <2>1. Sponsorable(body, rpc)
      BY <1>2, <1>3, SubmissionsAssumption, AllowedIsSponsorable
    <2>2. verdict.sponsorable
      BY <1>2, <2>1
    <2>3. Entitled([req[r] EXCEPT !.step = "read", !.sponsored = verdict.sponsorable])
      BY <2>2 DEF Entitled, PIInv, Request
    <2> QED
      BY <1>1, <1>3, <2>3, GoesEntitled
  <1>4. CASE ~verdict.allowed
    BY <1>1, <1>4, AnswerEntitled
  <1> QED
    BY <1>3, <1>4

\* So does what follows a read that found nothing: a GET is answered, the others
\* mint (readStoredApiKey).
LEMMA NothingReadEntitled ==
    ASSUME NEW q \in Request, Entitled(q), q.step \in {"read", "purge"}
    PROVE  Entitled(NothingRead(q))
  BY DEF Entitled, NothingRead, Request, Fresh

\* An attempt changes no entitlement, and neither does the start of the loop.
LEMMA AttemptEntitled ==
    ASSUME NEW q, q.sponsored, q \in Request, NEW key \in ApiKeys \cup {NoKey}
    PROVE  Entitled(Attempt(q)) /\ Entitled(Loop(q, key))
  BY DEF Entitled, Attempt, Loop, Request

\* Keys are read, purged, minted and stored by requests that may
\* (getOrCreateApiKey).
LEMMA KeysEntitled ==
    ASSUME PIInv, AllEntitled, NEW r \in Requests,
           ReadKey(r) \/ Purge(r) \/ Mint(r) \/ Store(r)
    PROVE  AllEntitled'
  <1> DEFINE q == req[r]
             value == EntryOf(q)
  <1>1. q \in Request /\ Entitled(q) /\ ReqOK(q, now, mintedFor)
    BY DEF PIInv, AllEntitled
  <1>2. CASE ReadKey(r)
    <2>1. q.step = "read" /\ q.ip \in Ips
      BY <1>1, <1>2 DEF ReadKey, At, ReqOK
    <2>2. value \in KvValues
      BY <2>1 DEF EntryOf, PIInv, KeysOK
    <2>3. value.key \in ApiKeys \cup {NoKey}
      BY <2>2 DEF KvValues
    <2>4. Entitled(NothingRead(q))
      BY <1>1, <2>1, NothingReadEntitled
    <2>5. Entitled([q EXCEPT !.step = "purge"])
      BY <1>1, <2>1 DEF Entitled, Request
    <2>6. ~q.get => Entitled(Loop(q, value.key))
                    /\ Entitled([q EXCEPT !.step = "store", !.key = value.key])
      <3> SUFFICES ASSUME ~q.get
                   PROVE  Entitled(Loop(q, value.key))
                          /\ Entitled([q EXCEPT !.step = "store", !.key = value.key])
        OBVIOUS
      <3>1. q.sponsored
        BY <1>1, <2>1 DEF Entitled
      <3>2. Entitled([q EXCEPT !.step = "store", !.key = value.key])
        BY <1>1, <3>1 DEF Entitled, Request
      <3> QED
        BY <1>1, <2>3, <3>1, <3>2, AttemptEntitled
    <2>7. PICK s \in {NothingRead(q), Loop(q, value.key), [q EXCEPT !.step = "purge"],
                      [q EXCEPT !.step = "store", !.key = value.key]} :
             Goes(r, s) /\ (q.get => s \in {NothingRead(q), [q EXCEPT !.step = "purge"]})
      BY <1>2 DEF ReadKey
    <2> QED
      BY <2>4, <2>5, <2>6, <2>7, GoesEntitled
  <1>3. CASE Purge(r)
    <2>1. Goes(r, NothingRead(q)) /\ q.step = "purge"
      BY <1>3 DEF Purge, At
    <2> QED
      BY <1>1, <2>1, NothingReadEntitled, GoesEntitled
  <1>4. CASE Mint(r)
    <2>1. q.sponsored
      BY <1>1, <1>4 DEF Mint, At, Entitled
    <2>2. ASSUME NEW key PROVE Entitled([q EXCEPT !.step = "store", !.key = key])
      BY <1>1, <2>1 DEF Entitled, Request
    <2>3. (\E key : Goes(r, [q EXCEPT !.step = "store", !.key = key])) \/ Answer(r, 200)
      BY <1>4 DEF Mint
    <2> QED
      BY <2>2, <2>3, GoesEntitled, AnswerEntitled
  <1>5. CASE Store(r)
    <2>1. q.sponsored
      BY <1>1, <1>5 DEF Store, At, Entitled
    <2>2. Entitled(Loop(q, q.key))
      BY <1>1, <2>1, AttemptEntitled DEF Request
    <2>3. Goes(r, Loop(q, q.key)) \/ Answer(r, 200)
      BY <1>5 DEF Store
    <2> QED
      BY <2>2, <2>3, GoesEntitled, AnswerEntitled
  <1> QED
    BY <1>2, <1>3, <1>4, <1>5

\* The retry loop submits and funds what was found sponsorable (POST /).
LEMMA LoopEntitled ==
    ASSUME PIInv, AllEntitled, NEW r \in Requests,
           \/ SubmitSettles(r) \/ Fund(r)
           \/ \E a \in Channels \cup {"shared"} : SubmitMisses(r, a)
    PROVE  AllEntitled'
  <1> DEFINE q == req[r]
  <1>1. q \in Request /\ Entitled(q)
    BY DEF PIInv, AllEntitled
  <1>2. CASE SubmitSettles(r)
    BY <1>2, AnswerEntitled DEF SubmitSettles
  <1>3. ASSUME NEW a \in Channels \cup {"shared"}, SubmitMisses(r, a)
        PROVE  AllEntitled'
    <2>1. q.sponsored
      BY <1>1, <1>3 DEF SubmitMisses, At, Entitled
    <2>2. Entitled(Attempt(q)) /\ Entitled([q EXCEPT !.step = "fund", !.missing = a])
      <3>1. Entitled([q EXCEPT !.step = "fund", !.missing = a])
        BY <1>1, <2>1 DEF Entitled, Request
      <3> QED
        BY <1>1, <2>1, <3>1, AttemptEntitled DEF Request
    <2>3. \/ Answer(r, 200) \/ Goes(r, Attempt(q))
          \/ Goes(r, [q EXCEPT !.step = "fund", !.missing = a])
      BY <1>3 DEF SubmitMisses
    <2> QED
      BY <2>2, <2>3, GoesEntitled, AnswerEntitled
  <1>4. CASE Fund(r)
    <2> DEFINE p == Attempt([q EXCEPT !.missing = ""])
               paid == [Remembered(p, q.missing) EXCEPT !.paid[q.missing] = @ + 1]
               lost == [p EXCEPT !.paid[q.missing] = @ + 1, !.lost[q.missing] = @ + 1]
    <2>1. q.sponsored
      BY <1>1, <1>4 DEF Fund, At, Entitled
    <2>2. /\ p.sponsored /\ p.step = "submit" /\ paid.sponsored /\ paid.step = "submit"
          /\ lost.sponsored /\ lost.step = "submit"
      BY <1>1, <2>1 DEF Attempt, Remembered, Request
    <2>3. Goes(r, p) \/ Goes(r, paid) \/ Goes(r, lost)
      BY <1>4 DEF Fund
    <2>4. Entitled(p) /\ Entitled(paid) /\ Entitled(lost)
      BY <2>2 DEF Entitled
    <2> HIDE DEF p, paid, lost
    <2> QED
      BY <2>3, <2>4, GoesEntitled
  <1> QED
    BY <1>2, <1>3, <1>4

\* "Validation and fee checks precede key read/mint/use": whatever clients send,
\* however their requests interleave, only what is sponsorable mints, stores or
\* uses an API key (POST /).
THEOREM OnlySponsored == Spec => []OnlySponsorableUsesAKey
  <1>1. Init => AllEntitled
    <2>1. Entitled(Fresh)
      BY DEF Entitled, Fresh
    <2> SUFFICES ASSUME Init, NEW r \in Requests
                 PROVE  Entitled(req[r])
      BY DEF AllEntitled
    <2>2. req = [s \in Requests |-> Fresh]
      BY DEF Init
    <2> QED
      BY <2>1, <2>2
  <1>2. PIInv /\ AllEntitled /\ [Next]_proxyVars => AllEntitled'
    <2> SUFFICES ASSUME PIInv, AllEntitled, [Next]_proxyVars
                 PROVE  AllEntitled'
      OBVIOUS
    <2>1. ASSUME NEW r \in Requests, Arrive(r) \/ RequestStep(r)
          PROVE  AllEntitled'
      BY <2>1, AdmissionEntitled, ValidateEntitled, KeysEntitled, LoopEntitled DEF RequestStep
    <2>2. CASE Passes \/ OtherClient \/ UNCHANGED proxyVars
      BY <2>2 DEF Passes, OtherClient, proxyVars, AllEntitled, Entitled
    <2> QED
      BY <2>1, <2>2 DEF Next
  <1>3. AllEntitled => OnlySponsorableUsesAKey
    BY DEF AllEntitled, Entitled, OnlySponsorableUsesAKey
  <1> QED
    BY <1>1, <1>2, <1>3, ProxyInvariant, PTL DEF Spec

=============================================================================
