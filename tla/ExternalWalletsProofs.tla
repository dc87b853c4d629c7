------------------------- MODULE ExternalWalletsProofs -----------------------
(***************************************************************************)
(* Proofs about the external wallets, for any number of pages, wallets,    *)
(* accounts and calls.  What a filter leaves of a list is shown by         *)
(* induction over the list.                                                *)
(***************************************************************************)
EXTENDS ExternalWallets, WellFoundedInduction, TLAPS

-----------------------------------------------------------------------------
(* The inductive invariant. *)

\* No address is in the list twice.
Distinct(list) ==
    \A i, j \in DOMAIN list : list[i].address = list[j].address => i = j

\* The variables have their types.
Types ==
    /\ saved \in Seq(Connections)
    /\ ready \in [Pages -> BOOLEAN]
    /\ keypairs \in [Pages -> SUBSET Secrets]
    /\ ed25519 \in [Pages -> SUBSET Secrets]
    /\ connected \in [Pages -> SUBSET Connections]
    /\ module \in [Pages -> Wallets \cup {None}]
    /\ connecting \in [Pages -> [Waits -> Nat]]
    /\ restored \in [Pages -> BOOLEAN]
    /\ restoring \in [Pages -> Seq(Connections)]
    /\ removing \in [Pages -> Nat]
    /\ calls \in 0..MaxCalls
    /\ began \in [Pages -> Seq(Connections)]
    /\ came \in [Pages -> SUBSET Addresses]
    /\ touched \in [Pages -> SUBSET Addresses]
    /\ removed \in SUBSET Addresses
    /\ gone \in [Pages -> SUBSET Addresses]
    /\ overtaken \in [Pages -> BOOLEAN]
    /\ crossed \in SUBSET Addresses

\* Every list has an address once.
Once ==
    /\ Distinct(saved)
    /\ \A p \in Pages :
        /\ Distinct(began[p]) /\ Distinct(restoring[p])
        /\ \A c, d \in connected[p] : c.address = d.address => c = d

\* What a call in flight may rely on: a wallet that was chosen is selected, a
\* restore goes through what it found, on an adapter that is ready.
Flying ==
    \A p \in Pages :
        /\ Connects(p) => module[p] \in Wallets
        /\ restoring[p] # << >> =>
              /\ ready[p] /\ restored[p] /\ module[p] \in Wallets
              /\ Range(restoring[p]) \subseteq Range(began[p])
        /\ removing[p] > 0 => ready[p]

Shape == Types /\ Once /\ Flying

\* A recorded wallet holds its account.
Right(c) == c.wallet = Owner[c.address]

\* Or it was recorded by a call that another one had crossed.
Sound(c) == Right(c) \/ c.address \in crossed

\* As long as nothing has overtaken the calls of a page, the selected module is
\* the one of the wallet they wait for, so an ID read off it is right.
Aimed(p) ==
    ~overtaken[p] =>
        /\ \A w \in Wallets : connecting[p][w] > 0 => module[p] = w
        /\ restoring[p] # << >> => module[p] = Head(restoring[p]).wallet

Truthful ==
    /\ \A c \in Range(saved) : Sound(c)
    /\ \A p \in Pages : Aimed(p) /\ \A c \in connected[p] : Sound(c)

\* The accounts whose wallets are saved.
SavedAddresses == AddressesOf(Range(saved))

\* A wallet that page p found and nobody else has touched: as long as its turn
\* has not come it is saved and has not come back; then it is saved if and only
\* if it came back, and it is connected.
Settled(p, c) ==
    IF c \in Range(restoring[p])
    THEN c.address \in SavedAddresses \ came[p]
    ELSE /\ c.address \in SavedAddresses <=> c.address \in came[p]
         /\ c.address \in came[p] =>
                \E d \in connected[p] : Owner[d.address] = c.wallet

Settling ==
    \A p \in Pages : restored[p] =>
        \A c \in Range(began[p]) : c.address \in touched[p] \/ Settled(p, c)

\* What was removed is not saved, and not connected unless a restore brings it
\* back, which forgets what was removed before it.
Removing ==
    /\ removed \cap SavedAddresses = {}
    /\ \A p \in Pages :
        /\ gone[p] \cap Signable(p) = {}
        /\ restoring[p] # << >> => gone[p] = {}

-----------------------------------------------------------------------------
(* Lists.                                                                  *)

\* Induction, with a set for the predicate: what holds of 0, and of n + 1 if of
\* n, holds of every natural number.
LEMMA NatInSet ==
    ASSUME NEW T, 0 \in T, \A n \in T \cap Nat : n + 1 \in T
    PROVE  Nat \subseteq T
  <1> DEFINE Left == Nat \ T
  <1> SUFFICES ASSUME Left # {}
               PROVE  FALSE
    OBVIOUS
  <1>1. Left \subseteq Nat
    OBVIOUS
  <1> HIDE DEF Left
  <1>2. PICK n \in Left : \A m \in Left : ~ (<<m, n>> \in OpToRel(<, Nat))
    BY <1>1, WFMin, NatLessThanWellFounded
  <1>3. \A m \in Left : ~ (m < n)
    BY <1>1, <1>2, Zenon DEF OpToRel
  <1>4. n \in Nat /\ n # 0 /\ n \notin T
    BY <1>1 DEF Left
  <1>5. n - 1 \in Nat /\ n - 1 < n
    BY <1>4
  <1>6. n - 1 \in T
    BY <1>3, <1>5 DEF Left
  <1>7. (n - 1) + 1 \in T
    BY <1>5, <1>6
  <1> QED
    BY <1>4, <1>7

\* f says what is kept of the first n of the list, up to m.
KeptStep(list, a, f, n) ==
    f[n] = IF n = 0 THEN << >>
           ELSE IF list[n].address = a THEN f[n - 1]
           ELSE Append(f[n - 1], list[n])
KeptUpTo(list, a, f, m) == \A n \in 0..m : KeptStep(list, a, f, n)

\* The equation that Without chooses a solution of.
Keeps(list, a, f) ==
    f = [n \in 0..Len(list) |->
            IF n = 0 THEN << >>
            ELSE IF list[n].address = a THEN f[n - 1]
            ELSE Append(f[n - 1], list[n])]
Kept(list, a) == CHOOSE f : Keeps(list, a, f)

\* The equation has a solution, built one step at a time.
LEMMA KeptExists ==
    ASSUME NEW S, NEW list \in Seq(S), NEW a
    PROVE  \E f : Keeps(list, a, f)
  <1> DEFINE T == {m \in Nat : \E f : KeptUpTo(list, a, f, m)}
  <1>1. 0 \in T
    <2> DEFINE f == [n \in {0} |-> << >>]
    <2>1. KeptUpTo(list, a, f, 0)
      BY DEF KeptUpTo, KeptStep
    <2> QED
      BY <2>1
  <1>2. ASSUME NEW m \in T
        PROVE  m + 1 \in T
    <2>1. m \in Nat
      OBVIOUS
    <2>2. PICK f : KeptUpTo(list, a, f, m)
      OBVIOUS
    <2> DEFINE next == IF list[m + 1].address = a THEN f[m] ELSE Append(f[m], list[m + 1])
               g == [n \in 0..(m + 1) |-> IF n = m + 1 THEN next ELSE f[n]]
    <2> HIDE DEF next
    <2>3. ASSUME NEW n \in 0..m
          PROVE  KeptStep(list, a, g, n)
      <3>1. g[n] = f[n] /\ (n # 0 => g[n - 1] = f[n - 1])
        BY <2>1
      <3>2. KeptStep(list, a, f, n)
        BY <2>2 DEF KeptUpTo
      <3> QED
        BY <3>1, <3>2 DEF KeptStep
    <2>4. KeptStep(list, a, g, m + 1)
      <3>1. g[m + 1] = next /\ g[(m + 1) - 1] = f[m] /\ m + 1 # 0
        BY <2>1
      <3> QED
        BY <3>1 DEF KeptStep, next
    <2>5. KeptUpTo(list, a, g, m + 1)
      BY <2>1, <2>3, <2>4 DEF KeptUpTo
    <2> HIDE DEF g
    <2> QED
      BY <2>1, <2>5
  <1>3. Len(list) \in T
    <2> HIDE DEF T
    <2> QED
      BY <1>1, <1>2, NatInSet
  <1>4. PICK f : KeptUpTo(list, a, f, Len(list))
    BY <1>3
  <1> DEFINE g == [n \in 0..Len(list) |-> f[n]]
  <1>5. ASSUME NEW n \in 0..Len(list)
        PROVE  KeptStep(list, a, g, n)
    <2>1. KeptStep(list, a, f, n)
      BY <1>4 DEF KeptUpTo
    <2>2. g[n] = f[n] /\ (n # 0 => g[n - 1] = f[n - 1])
      OBVIOUS
    <2> QED
      BY <2>1, <2>2 DEF KeptStep
  <1>6. Keeps(list, a, g)
    BY <1>5 DEF KeptStep, Keeps
  <1> QED
    BY <1>6

\* So Without is the last of what is kept, and each is made from the one before.
LEMMA WithoutIsKept ==
    ASSUME NEW S, NEW list \in Seq(S), NEW a
    PROVE  /\ Without(list, a) = Kept(list, a)[Len(list)]
           /\ \A n \in 0..Len(list) : KeptStep(list, a, Kept(list, a), n)
  <1>1. Keeps(list, a, Kept(list, a))
    BY KeptExists, Zenon DEF Kept
  <1>2. Without(list, a) = Kept(list, a)[Len(list)]
    BY Zenon DEF Without, Kept, Keeps
  <1> QED
    BY <1>1, <1>2 DEF Keeps, KeptStep

\* What an append does to the members of a list, and when no address is twice.
LEMMA AppendMembers ==
    ASSUME NEW S, NEW list \in Seq(S), NEW c \in S
    PROVE  /\ Append(list, c) \in Seq(S)
           /\ Range(Append(list, c)) = Range(list) \cup {c}
           /\ Distinct(list) /\ (\A d \in Range(list) : d.address # c.address) =>
                  Distinct(Append(list, c))
  <1> DEFINE longer == Append(list, c)
  <1>1. /\ longer \in Seq(S) /\ Len(list) \in Nat
        /\ DOMAIN list = 1..Len(list) /\ DOMAIN longer = 1..(Len(list) + 1)
        /\ \A i \in 1..Len(list) : longer[i] = list[i]
        /\ longer[Len(list) + 1] = c
    OBVIOUS
  <1> HIDE DEF longer
  <1>2. Range(longer) = Range(list) \cup {c}
    BY <1>1 DEF Range
  <1>3. Distinct(list) /\ (\A d \in Range(list) : d.address # c.address) => Distinct(longer)
    BY <1>1 DEF Range, Distinct
  <1> QED
    BY <1>1, <1>2, <1>3 DEF longer

\* The filter leaves the wallets of the other accounts, in a list, each once if
\* they were there once (removeWalletFromStorage).
LEMMA WithoutMembers ==
    ASSUME NEW S, NEW list \in Seq(S), NEW a
    PROVE  /\ Without(list, a) \in Seq(S)
           /\ Range(Without(list, a)) = {c \in Range(list) : c.address # a}
           /\ Distinct(list) => Distinct(Without(list, a))
  <1> DEFINE kept == Kept(list, a)
             First(n) == {list[i] : i \in {j \in 1..n : list[j].address # a}}
             T == {n \in Nat : n <= Len(list) =>
                      /\ kept[n] \in Seq(S)
                      /\ Range(kept[n]) = First(n)
                      /\ Distinct(list) => Distinct(kept[n])}
  <1>1. /\ Without(list, a) = kept[Len(list)]
        /\ \A n \in 0..Len(list) : KeptStep(list, a, kept, n)
    BY WithoutIsKept
  <1>2. Len(list) \in Nat /\ DOMAIN list = 1..Len(list)
    OBVIOUS
  <1> HIDE DEF kept
  <1>3. 0 \in T
    <2>1. kept[0] = << >>
      BY <1>1, <1>2 DEF KeptStep
    <2>2. kept[0] \in Seq(S) /\ DOMAIN kept[0] = {}
      BY <2>1
    <2>3. Range(kept[0]) = {} /\ Distinct(kept[0])
      BY <2>2 DEF Range, Distinct
    <2>4. First(0) = {}
      OBVIOUS
    <2> QED
      BY <2>2, <2>3, <2>4
  <1>4. ASSUME NEW n \in T
        PROVE  n + 1 \in T
    <2> SUFFICES ASSUME n + 1 <= Len(list)
                 PROVE  /\ kept[n + 1] \in Seq(S)
                        /\ Range(kept[n + 1]) = First(n + 1)
                        /\ Distinct(list) => Distinct(kept[n + 1])
      OBVIOUS
    <2>1. /\ n \in Nat /\ n + 1 \in 1..Len(list) /\ n + 1 # 0 /\ (n + 1) - 1 = n
          /\ list[n + 1] \in S
          /\ 1..(n + 1) = 1..n \cup {n + 1}
      BY <1>2
    <2>2. /\ kept[n] \in Seq(S)
          /\ Range(kept[n]) = First(n)
          /\ Distinct(list) => Distinct(kept[n])
      BY <2>1
    <2>3. kept[n + 1] = IF list[n + 1].address = a THEN kept[n]
                        ELSE Append(kept[n], list[n + 1])
      BY <1>1, <2>1 DEF KeptStep
    <2>4. CASE list[n + 1].address = a
      <3>1. First(n + 1) = First(n)
        BY <2>1, <2>4
      <3> QED
        BY <2>2, <2>3, <2>4, <3>1
    <2>5. CASE list[n + 1].address # a
      <3>1. First(n + 1) = First(n) \cup {list[n + 1]}
        BY <2>1, <2>5
      <3>2. Distinct(list) => \A c \in First(n) : c.address # list[n + 1].address
        BY <1>2, <2>1 DEF Distinct
      <3> HIDE DEF First
      <3>3. /\ Append(kept[n], list[n + 1]) \in Seq(S)
            /\ Range(Append(kept[n], list[n + 1])) = Range(kept[n]) \cup {list[n + 1]}
            /\ /\ Distinct(kept[n])
               /\ \A d \in Range(kept[n]) : d.address # list[n + 1].address
               => Distinct(Append(kept[n], list[n + 1]))
        BY <2>1, <2>2, AppendMembers
      <3> QED
        BY <2>2, <2>3, <2>5, <3>1, <3>2, <3>3
    <2> QED
      BY <2>4, <2>5
  <1>5. Len(list) \in T
    <2> HIDE DEF T
    <2> QED
      BY <1>2, <1>3, <1>4, NatInSet
  <1>6. First(Len(list)) = {c \in Range(list) : c.address # a}
    BY <1>2 DEF Range
  <1> QED
    BY <1>1, <1>2, <1>5, <1>6

\* An empty list has no members.
LEMMA EmptyMembers ==
    ASSUME NEW S
    PROVE  << >> \in Seq(S) /\ Range(<< >>) = {} /\ Distinct(<< >>)
  <1>1. DOMAIN << >> = {}
    OBVIOUS
  <1> QED
    BY <1>1 DEF Range, Distinct

\* The first of a list, and the others.
LEMMA TailMembers ==
    ASSUME NEW S, NEW list \in Seq(S), list # << >>
    PROVE  /\ Head(list) \in S /\ Tail(list) \in Seq(S)
           /\ Range(list) = Range(Tail(list)) \cup {Head(list)}
           /\ Distinct(list) =>
                 /\ Distinct(Tail(list))
                 /\ \A c \in Range(Tail(list)) : c.address # Head(list).address
  <1> DEFINE rest == Tail(list)
             c == Head(list)
  <1>1. /\ rest \in Seq(S) /\ c \in S /\ Len(list) \in Nat /\ Len(list) >= 1
        /\ DOMAIN list = 1..Len(list) /\ DOMAIN rest = 1..(Len(list) - 1)
        /\ \A i \in 1..(Len(list) - 1) : rest[i] = list[i + 1]
        /\ c = list[1]
    OBVIOUS
  <1> HIDE DEF rest, c
  <1>2. Range(list) \subseteq Range(rest) \cup {c}
    <2> SUFFICES ASSUME NEW i \in DOMAIN list
                 PROVE  list[i] \in Range(rest) \cup {c}
      BY DEF Range
    <2>1. CASE i = 1
      BY <1>1, <2>1
    <2>2. CASE i # 1
      <3>1. i - 1 \in DOMAIN rest /\ rest[i - 1] = list[i]
        BY <1>1, <2>2
      <3> QED
        BY <3>1 DEF Range
    <2> QED
      BY <2>1, <2>2
  <1>3. Range(rest) \cup {c} \subseteq Range(list)
    <2>1. ASSUME NEW i \in DOMAIN rest
          PROVE  i + 1 \in DOMAIN list /\ rest[i] = list[i + 1]
      BY <1>1
    <2>2. 1 \in DOMAIN list
      BY <1>1
    <2> QED
      BY <1>1, <2>1, <2>2 DEF Range
  <1>4. \A i \in DOMAIN rest :
           i + 1 \in DOMAIN list /\ i + 1 # 1 /\ 1 \in DOMAIN list /\ rest[i] = list[i + 1]
    BY <1>1
  <1>5. Distinct(list) => Distinct(rest)
    <2> SUFFICES ASSUME Distinct(list), NEW i \in DOMAIN rest, NEW j \in DOMAIN rest,
                        rest[i].address = rest[j].address
                 PROVE  i = j
      BY DEF Distinct
    <2>1. i + 1 = j + 1
      BY <1>4 DEF Distinct
    <2> QED
      BY <1>1, <2>1
  <1>6. Distinct(list) => \A d \in Range(rest) : d.address # c.address
    <2> SUFFICES ASSUME Distinct(list), NEW i \in DOMAIN rest
                 PROVE  rest[i].address # list[1].address
      BY <1>1 DEF Range
    <2> QED
      BY <1>4 DEF Distinct
  <1> QED
    BY <1>1, <1>2, <1>3, <1>5, <1>6 DEF rest, c

\* What saveWalletToStorage leaves: the wallets of the other accounts, and c.
LEMMA SavedMembers ==
    ASSUME NEW S, NEW list \in Seq(S), NEW c \in S
    PROVE  /\ Saved(list, c) \in Seq(S)
           /\ Range(Saved(list, c)) = {d \in Range(list) : d.address # c.address} \cup {c}
           /\ Distinct(list) => Distinct(Saved(list, c))
  <1> DEFINE others == Without(list, c.address)
  <1>1. /\ others \in Seq(S)
        /\ Range(others) = {d \in Range(list) : d.address # c.address}
        /\ Distinct(list) => Distinct(others)
    BY WithoutMembers
  <1>2. /\ Append(others, c) \in Seq(S)
        /\ Range(Append(others, c)) = Range(others) \cup {c}
        /\ Distinct(others) /\ (\A d \in Range(others) : d.address # c.address) =>
              Distinct(Append(others, c))
    BY <1>1, AppendMembers
  <1> HIDE DEF others
  <1>3. Saved(list, c) = Append(others, c)
    BY DEF Saved, others
  <1> QED
    BY <1>1, <1>2, <1>3

-----------------------------------------------------------------------------
(* The shape of the state.                                                 *)

\* What is asked next is a wallet of the list, and selected.
LEMMA Asks ==
    ASSUME Types, NEW p \in Pages, NEW list \in Seq(Connections), Ask(p, list)
    PROVE  /\ restoring' \in [Pages -> Seq(Connections)]
           /\ restoring' = [restoring EXCEPT ![p] = list]
           /\ module' \in [Pages -> Wallets \cup {None}]
           /\ \A q \in Pages \ {p} : module'[q] = module[q]
           /\ list # << >> => module'[p] = Head(list).wallet /\ module'[p] \in Wallets
           /\ list = << >> => module'[p] = module[p]
           /\ overtaken' \in [Pages -> BOOLEAN]
           /\ \A q \in Pages \ {p} : overtaken'[q] = overtaken[q]
           /\ list # << >> => overtaken'[p] = Connects(p)
  <1>1. list # << >> => Head(list) \in Connections
    OBVIOUS
  <1>2. Connects(p) \in BOOLEAN
    BY DEF Connects
  <1> HIDE DEF Connects
  <1> QED
    BY <1>1, <1>2 DEF Ask, Select, Types, Connections

\* Nobody has called yet.
LEMMA InitShape == Init => Shape
  <1> SUFFICES ASSUME Init
               PROVE  Shape
    OBVIOUS
  <1>1. << >> \in Seq(Connections) /\ Distinct(<< >>)
    BY EmptyMembers
  <1>2. 0 \in 0..MaxCalls
    BY ExternalWalletsAssumption
  <1> QED
    BY <1>1, <1>2, ExternalWalletsAssumption
       DEF Init, Shape, Types, Once, Flying, Connects, Waits

\* The wallet an address is tracked with replaces the one before.
LEMMA TrackedOnce ==
    ASSUME NEW connections \in SUBSET Connections, NEW c \in Connections,
           \A d, e \in connections : d.address = e.address => d = e
    PROVE  /\ Tracked(connections, c) \in SUBSET Connections
           /\ \A d, e \in Tracked(connections, c) : d.address = e.address => d = e
  BY DEF Tracked

\* Calls are counted up to their bound.
LEMMA CalledTyped ==
    ASSUME Types, Called
    PROVE  calls' \in 0..MaxCalls
  BY ExternalWalletsAssumption DEF Types, Called

\* What a change of one count leaves.
LEMMA Counted ==
    ASSUME NEW f \in [Pages -> [Waits -> Nat]], NEW p \in Pages, NEW k \in Waits,
           NEW n \in Nat
    PROVE  LET g == [f EXCEPT ![p][k] = n]
           IN  /\ g \in [Pages -> [Waits -> Nat]]
               /\ g[p][k] = n
               /\ \A q \in Pages \ {p} : g[q] = f[q]
               /\ \A q \in Pages, l \in Waits : q # p \/ l # k => g[q][l] = f[q][l]
  OBVIOUS

\* The adapter's start, and the ends of calls that fail.
LEMMA QuietShape ==
    ASSUME Shape, NEW p \in Pages,
           \/ InitAdapter(p) \/ RemoveAllFails(p)
           \/ \E k \in Waits : ConnectFails(p, k)
    PROVE  Shape'
  <1>1. /\ UNCHANGED <<saved, keypairs, ed25519, connected, module, restored,
                       restoring, calls, restores, removals, crossings>>
        /\ ready' \in [Pages -> BOOLEAN]
        /\ \A q \in Pages : ready[q] => ready'[q]
    BY DEF InitAdapter, ConnectFails, RemoveAllFails, memory, flights, Shape, Types
  <1>2. /\ connecting' \in [Pages -> [Waits -> Nat]]
        /\ \A q \in Pages, k \in Waits : connecting'[q][k] > 0 => connecting[q][k] > 0
    <2>1. ASSUME NEW k \in Waits, ConnectFails(p, k)
          PROVE  /\ connecting' \in [Pages -> [Waits -> Nat]]
                 /\ \A q \in Pages, l \in Waits :
                       connecting'[q][l] > 0 => connecting[q][l] > 0
      <3>1. connecting' = [connecting EXCEPT ![p][k] = @ - 1] /\ connecting[p][k] > 0
        BY <2>1 DEF ConnectFails
      <3> QED
        BY <3>1 DEF Shape, Types
    <2>2. CASE UNCHANGED connecting
      BY <2>2 DEF Shape, Types
    <2> QED
      BY <2>1, <2>2 DEF InitAdapter, RemoveAllFails, flights
  <1>3. /\ removing' \in [Pages -> Nat]
        /\ \A q \in Pages : removing'[q] > 0 => removing[q] > 0
    <2>1. CASE UNCHANGED removing
      BY <2>1 DEF Shape, Types
    <2>2. CASE removing[p] > 0 /\ removing' = [removing EXCEPT ![p] = @ - 1]
      BY <2>2 DEF Shape, Types
    <2> QED
      BY <2>1, <2>2 DEF InitAdapter, ConnectFails, RemoveAllFails, flights
  <1>4. \A q \in Pages : Connects(q)' => Connects(q)
    BY <1>2 DEF Connects, Waits
  <1> QED
    BY <1>1, <1>2, <1>3, <1>4 DEF Shape, Types, Once, Flying, restores, removals, crossings

\* Secret keys.
LEMMA SecretShape ==
    ASSUME Shape, NEW p \in Pages, NEW a \in Secrets,
           AddFromSecret(p, a) \/ AddEd25519FromSecret(p, a)
    PROVE  Shape'
  <1>1. UNCHANGED <<saved, ready, connected, module, restored, connecting, restoring,
                    removing, restores, removed, crossings>>
    BY DEF AddFromSecret, AddEd25519FromSecret, flights
  <1>2. /\ keypairs' \in {keypairs, [keypairs EXCEPT ![p] = @ \cup {a}]}
        /\ ed25519' \in {ed25519, [ed25519 EXCEPT ![p] = @ \cup {a}]}
        /\ gone' = [gone EXCEPT ![p] = @ \ {a}]
    BY Zenon DEF AddFromSecret, AddEd25519FromSecret
  <1>3. calls' \in 0..MaxCalls
    BY CalledTyped DEF AddFromSecret, AddEd25519FromSecret, Shape
  <1>4. ASSUME NEW keys \in [Pages -> SUBSET Secrets]
        PROVE  [keys EXCEPT ![p] = @ \cup {a}] \in [Pages -> SUBSET Secrets]
    OBVIOUS
  <1>5. /\ keypairs' \in [Pages -> SUBSET Secrets]
        /\ ed25519' \in [Pages -> SUBSET Secrets]
    BY <1>2, <1>4 DEF Shape, Types
  <1>6. gone' \in [Pages -> SUBSET Addresses]
    BY <1>2 DEF Shape, Types
  <1> QED
    BY <1>1, <1>3, <1>5, <1>6 DEF Shape, Types, Once, Flying, Connects, restores, crossings

\* A wallet that answers was selected.
LEMMA Selected ==
    ASSUME Shape, NEW p \in Pages, NEW a \in Addresses, WalletAnswers(p, a)
    PROVE  Owner[a] \in Wallets /\ module[p] \in Wallets
  BY ExternalWalletsAssumption DEF WalletAnswers, Shape, Flying, Connects

\* The user and a wallet take their time to answer a connect.
LEMMA ConnectShape ==
    ASSUME Shape, NEW p \in Pages,
           \/ OpenModal(p)
           \/ \E w \in Wallets : ChooseWallet(p, w)
           \/ \E a \in Addresses : WalletAnswers(p, a)
    PROVE  Shape'
  <1>1. CASE OpenModal(p)
    <2>1. /\ calls' \in 0..MaxCalls
          /\ connecting' = [connecting EXCEPT ![p]["modal"] = @ + 1]
          /\ UNCHANGED <<saved, ready, keypairs, ed25519, connected, module, restored,
                         restoring, removing, restores, removals, crossings>>
      BY <1>1, CalledTyped DEF OpenModal, memory, Shape
    <2>2. /\ connecting' \in [Pages -> [Waits -> Nat]]
          /\ \A q \in Pages, w \in Wallets : connecting'[q][w] = connecting[q][w]
      <3>1. connecting[p]["modal"] + 1 \in Nat /\ "modal" \in Waits /\ "modal" \notin Wallets
        BY ExternalWalletsAssumption DEF Shape, Types, Waits
      <3>2. connecting \in [Pages -> [Waits -> Nat]]
        BY DEF Shape, Types
      <3>3. connecting' = [connecting EXCEPT ![p]["modal"] = connecting[p]["modal"] + 1]
        BY <2>1
      <3>4. Wallets \subseteq Waits
        BY DEF Waits
      <3> QED
        BY <3>1, <3>2, <3>3, <3>4, Counted
    <2> QED
      BY <2>1, <2>2 DEF Shape, Types, Once, Flying, Connects, restores, removals, crossings
  <1>2. ASSUME NEW w \in Wallets, ChooseWallet(p, w)
        PROVE  Shape'
    <2>1. /\ connecting' = [connecting EXCEPT ![p]["modal"] = @ - 1, ![p][w] = @ + 1]
          /\ connecting[p]["modal"] > 0
          /\ module' = [module EXCEPT ![p] = w]
          /\ overtaken' = [overtaken EXCEPT ![p] = Connects(p) \/ restoring[p] # << >>]
          /\ UNCHANGED <<saved, ready, keypairs, ed25519, connected, restored, restoring,
                         removing, calls, restores, removals, crossed>>
      BY <1>2 DEF ChooseWallet
    <2>2. /\ connecting' \in [Pages -> [Waits -> Nat]]
          /\ \A q \in Pages \ {p} : connecting'[q] = connecting[q]
      <3> DEFINE mid == [connecting EXCEPT ![p]["modal"] = @ - 1]
      <3>1. mid \in [Pages -> [Waits -> Nat]] /\ \A q \in Pages \ {p} : mid[q] = connecting[q]
        <4>1. connecting[p]["modal"] - 1 \in Nat /\ "modal" \in Waits
          BY <2>1 DEF Shape, Types, Waits
        <4> QED
          BY <4>1, Counted DEF Shape, Types
      <3>2. connecting' = [mid EXCEPT ![p][w] = mid[p][w] + 1]
        BY <2>1, <3>1 DEF Shape, Types, Waits
      <3> HIDE DEF mid
      <3>3. w \in Waits /\ mid[p][w] + 1 \in Nat
        BY <3>1 DEF Waits
      <3> QED
        BY <3>1, <3>2, <3>3, Counted
    <2>3. (Connects(p) \/ restoring[p] # << >>) \in BOOLEAN
      BY DEF Connects
    <2>4. /\ overtaken' \in [Pages -> BOOLEAN] /\ module' \in [Pages -> Wallets \cup {None}]
          /\ module'[p] = w /\ \A q \in Pages \ {p} : module'[q] = module[q]
      BY <2>1, <2>3 DEF Shape, Types
    <2>5. Flying'
      BY <2>1, <2>2, <2>4 DEF Shape, Flying, Connects, restores
    <2> QED
      BY <2>1, <2>2, <2>4, <2>5 DEF Shape, Types, Once, restores, removals
  <1>3. ASSUME NEW a \in Addresses, WalletAnswers(p, a)
        PROVE  Shape'
    <2> DEFINE c == Connection(a, module[p])
    <2>1. module[p] \in Wallets
      BY <1>3, Selected
    <2>2. c \in Connections
      BY <2>1 DEF Connection, Connections
    <2>3. Saved(saved, c) \in Seq(Connections) /\ Distinct(Saved(saved, c))
      BY <2>2, SavedMembers DEF Shape, Types, Once
    <2>4. /\ Tracked(connected[p], c) \in SUBSET Connections
          /\ \A d, e \in Tracked(connected[p], c) : d.address = e.address => d = e
      BY <2>2, TrackedOnce DEF Shape, Types, Once
    <2>5. /\ connected' = [connected EXCEPT ![p] = Tracked(connected[p], c)]
          /\ saved' = Saved(saved, c)
          /\ touched' = [q \in Pages |-> touched[q] \cup {a}]
          /\ removed' = removed \ {a}
          /\ gone' = [gone EXCEPT ![p] = @ \ {a}]
          /\ crossed' \in {crossed, crossed \cup {a}}
          /\ UNCHANGED <<ready, keypairs, ed25519, module, restored, restoring, removing,
                         calls, began, came, overtaken>>
      BY <1>3 DEF WalletAnswers, TouchesAll, Records
    <2>9. /\ connecting' \in [Pages -> [Waits -> Nat]]
          /\ \A q \in Pages, w \in Wallets : connecting'[q][w] > 0 => connecting[q][w] > 0
      <3>1. /\ connecting' = [connecting EXCEPT ![p][Owner[a]] = @ - 1]
            /\ connecting[p][Owner[a]] > 0
        BY <1>3 DEF WalletAnswers
      <3>2. connecting[p][Owner[a]] - 1 \in Nat /\ Owner[a] \in Waits
        <4>1. Owner[a] \in Waits /\ connecting \in [Pages -> [Waits -> Nat]]
          BY <1>3, Selected DEF Shape, Types, Waits
        <4>2. connecting[p][Owner[a]] \in Nat
          BY <4>1
        <4> QED
          BY <3>1, <4>1, <4>2
      <3>3. connecting \in [Pages -> [Waits -> Nat]] /\ Wallets \subseteq Waits
        BY DEF Shape, Types, Waits
      <3>4. connecting' = [connecting EXCEPT ![p][Owner[a]] = connecting[p][Owner[a]] - 1]
        BY <3>1
      <3> QED
        BY <3>1, <3>2, <3>3, <3>4, Counted
    <2> HIDE DEF c
    <2>6. Types'
      BY <2>3, <2>4, <2>5, <2>9 DEF Shape, Types
    <2>7. Once'
      BY <2>3, <2>4, <2>5 DEF Shape, Types, Once
    <2>8. Flying'
      BY <2>5, <2>9 DEF Shape, Flying, Connects
    <2> QED
      BY <2>6, <2>7, <2>8 DEF Shape
  <1> QED
    BY <1>1, <1>2, <1>3

\* What a restore sets out to do.
LEMMA RestoreShape ==
    ASSUME Shape, NEW p \in Pages, RestoreConnections(p)
    PROVE  Shape'
  <1>1. /\ calls' \in 0..MaxCalls
        /\ restored' = [restored EXCEPT ![p] = TRUE]
        /\ began' = [began EXCEPT ![p] = saved]
        /\ gone' = [gone EXCEPT ![p] = {}]
        /\ came' = [came EXCEPT ![p] = {}]
        /\ UNCHANGED <<ready, keypairs, ed25519, connected, connecting, removing, removed,
                       crossed>>
    BY ExternalWalletsAssumption DEF RestoreConnections, Called, Shape, Types
  <1>2. /\ saved \in Seq(Connections) /\ Distinct(saved)
        /\ << >> \in Seq(Connections) /\ Distinct(<< >>)
        /\ AddressesOf(Range(saved)) \subseteq Addresses
    <2>1. Range(saved) \subseteq Connections
      BY DEF Shape, Types, Range
    <2> QED
      BY <2>1, EmptyMembers DEF Shape, Types, Once, AddressesOf, Connections
  <1>3. CASE /\ ready[p] /\ Ask(p, saved) /\ UNCHANGED saved
             /\ touched' = [touched EXCEPT ![p] = {}]
    <2>1. /\ restoring' \in [Pages -> Seq(Connections)]
          /\ restoring' = [restoring EXCEPT ![p] = saved]
          /\ module' \in [Pages -> Wallets \cup {None}]
          /\ \A q \in Pages \ {p} : module'[q] = module[q]
          /\ saved # << >> => module'[p] \in Wallets
          /\ saved = << >> => module'[p] = module[p]
          /\ overtaken' \in [Pages -> BOOLEAN]
      BY <1>2, <1>3, Asks DEF Shape
    <2>2. Types'
      BY <1>1, <1>2, <1>3, <2>1 DEF Shape, Types
    <2>3. Once'
      BY <1>1, <1>2, <1>3, <2>1 DEF Shape, Types, Once
    <2>4. Flying'
      BY <1>1, <1>3, <2>1 DEF Shape, Types, Flying, Connects
    <2> QED
      BY <2>2, <2>3, <2>4 DEF Shape
  <1>4. CASE /\ saved' = << >>
             /\ touched' = [q \in Pages |-> IF q = p THEN {} ELSE
                               touched[q] \cup AddressesOf(Range(saved))]
             /\ UNCHANGED <<restoring, module, overtaken>>
             /\ ~restored[p]
    <2>1. Types'
      BY <1>1, <1>2, <1>4 DEF Shape, Types
    <2>2. Once'
      BY <1>1, <1>2, <1>4 DEF Shape, Types, Once
    <2>3. Flying'
      BY <1>1, <1>4 DEF Shape, Types, Flying, Connects
    <2> QED
      BY <2>1, <2>2, <2>3 DEF Shape
  <1> QED
    BY <1>3, <1>4 DEF RestoreConnections

\* A wallet comes back, or does not, and the next is asked.
LEMMA ReconnectShape ==
    ASSUME Shape, NEW p \in Pages,
           ReconnectFails(p) \/ \E a \in Addresses : Reconnected(p, a)
    PROVE  Shape'
  <1> DEFINE list == restoring[p]
  <1>1. list # << >> /\ list \in Seq(Connections)
    BY DEF ReconnectFails, Reconnected, Shape, Types
  <1>2. /\ Head(list) \in Connections /\ Tail(list) \in Seq(Connections)
        /\ Range(Tail(list)) \subseteq Range(list) /\ Distinct(Tail(list))
    BY <1>1, TailMembers DEF Shape, Once
  <1>3. Ask(p, Tail(list))
    BY DEF ReconnectFails, Reconnected, Rest
  <1>4. /\ restoring' \in [Pages -> Seq(Connections)]
        /\ restoring' = [restoring EXCEPT ![p] = Tail(list)]
        /\ module' \in [Pages -> Wallets \cup {None}]
        /\ \A q \in Pages \ {p} : module'[q] = module[q]
        /\ Tail(list) # << >> => module'[p] \in Wallets
        /\ Tail(list) = << >> => module'[p] = module[p]
        /\ overtaken' \in [Pages -> BOOLEAN]
    BY <1>2, <1>3, Asks DEF Shape
  <1>5. module[p] \in Wallets /\ ready[p] /\ restored[p] /\ Range(list) \subseteq Range(began[p])
    BY <1>1 DEF Shape, Flying
  <1>6. module'[p] \in Wallets
    BY <1>4, <1>5
  <1>7. UNCHANGED <<ready, keypairs, ed25519, restored, connecting, removing, calls,
                    began, removed, gone>>
    BY DEF ReconnectFails, Reconnected, removals
  <1> HIDE DEF list
  <1>8. Flying'
    BY <1>2, <1>4, <1>5, <1>6, <1>7 DEF Shape, Types, Flying, Connects
  <1>9. CASE ReconnectFails(p)
    <2> DEFINE a == Head(list).address
    <2>1. /\ saved' = Without(saved, a)
          /\ touched' = [q \in Pages |-> IF q = p THEN touched[q] ELSE touched[q] \cup {a}]
          /\ UNCHANGED <<connected, came, crossed>>
      BY <1>9 DEF ReconnectFails, Dropped, Touches, list
    <2>2. a \in Addresses
      BY <1>2 DEF Connections
    <2> HIDE DEF a
    <2>3. saved' \in Seq(Connections) /\ Distinct(saved')
      BY <2>1, WithoutMembers DEF Shape, Types, Once
    <2>4. Types'
      BY <1>4, <1>7, <2>1, <2>2, <2>3 DEF Shape, Types
    <2>5. Once'
      BY <1>2, <1>4, <1>7, <2>1, <2>3 DEF Shape, Types, Once
    <2> QED
      BY <1>8, <2>4, <2>5 DEF Shape
  <1>10. ASSUME NEW a \in Addresses, Reconnected(p, a)
         PROVE  Shape'
    <2> DEFINE c == Connection(a, module[p])
    <2>1. /\ connected' = [connected EXCEPT ![p] = Tracked(connected[p], c)]
          /\ came' = [came EXCEPT ![p] = @ \cup {Head(list).address}]
          /\ crossed' \in {crossed, crossed \cup {a}}
          /\ UNCHANGED <<saved, touched>>
      BY <1>10 DEF Reconnected, Records, list
    <2>2. c \in Connections /\ Head(list).address \in Addresses
      BY <1>2, <1>5 DEF Connection, Connections
    <2> HIDE DEF c
    <2>3. /\ Tracked(connected[p], c) \in SUBSET Connections
          /\ \A d, e \in Tracked(connected[p], c) : d.address = e.address => d = e
      BY <2>2, TrackedOnce DEF Shape, Types, Once
    <2>4. Types'
      BY <1>4, <1>7, <2>1, <2>2, <2>3 DEF Shape, Types
    <2>5. Once'
      BY <1>2, <1>4, <1>7, <2>1, <2>3 DEF Shape, Types, Once
    <2> QED
      BY <1>8, <2>4, <2>5 DEF Shape
  <1> QED
    BY <1>9, <1>10

\* What a restore found are connections.
LEMMA FoundConnections ==
    ASSUME Shape, NEW p \in Pages
    PROVE  Range(began[p]) \subseteq Connections
  <1>1. began[p] \in Seq(Connections)
    BY DEF Shape, Types
  <1> QED
    BY <1>1 DEF Range

\* What the user removes.
LEMMA RemoveShape ==
    ASSUME Shape, NEW p \in Pages,
           RemoveAll(p) \/ RemovedAll(p) \/ \E a \in Addresses : Remove(p, a)
    PROVE  Shape'
  <1>1. CASE RemoveAll(p)
    <2>1. calls' \in 0..MaxCalls
      BY <1>1, CalledTyped DEF RemoveAll, Shape
    <2> QED
      BY <1>1, <2>1 DEF RemoveAll, Shape, Types, Once, Flying, Connects, restores, removals,
                        crossings
  <1>2. CASE RemovedAll(p)
    <2>1. << >> \in Seq(Connections) /\ Distinct(<< >>)
      BY EmptyMembers
    <2>2. gone' \in [Pages -> SUBSET Addresses]
      BY <1>2 DEF RemovedAll, Shape, Types
    <2>3. /\ connected' = [connected EXCEPT ![p] = {}]
          /\ removing' = [removing EXCEPT ![p] = @ - 1] /\ removing[p] > 0
      BY <1>2 DEF RemovedAll, Cleared
    <2>4. Flying'
      BY <1>2, <2>3 DEF RemovedAll, Shape, Types, Flying, Connects
    <2> QED
      BY <1>2, <2>1, <2>2, <2>3, <2>4
         DEF RemovedAll, TouchesAll, Shape, Types, Once, crossings
  <1>3. ASSUME NEW a \in Addresses, Remove(p, a)
        PROVE  Shape'
    <2> DEFINE left == {c \in connected[p] : c.address # a}
    <2>1. calls' \in 0..MaxCalls
      BY <1>3, CalledTyped DEF Remove, Shape
    <2>2. saved' \in Seq(Connections) /\ Distinct(saved')
      BY <1>3, WithoutMembers DEF Remove, Shape, Types, Once
    <2>3. /\ connected' = [connected EXCEPT ![p] = left]
          /\ left \in SUBSET connected[p]
      BY <1>3 DEF Remove
    <2> HIDE DEF left
    <2>4. /\ keypairs' \in [Pages -> SUBSET Secrets] /\ ed25519' \in [Pages -> SUBSET Secrets]
          /\ gone' \in [Pages -> SUBSET Addresses]
          /\ removed' \in SUBSET Addresses
      BY <1>3 DEF Remove, Shape, Types
    <2>10. touched' \in [Pages -> SUBSET Addresses]
      <3>1. \A q \in Pages : Found(q, Owner[a]) \subseteq Addresses
        BY FoundConnections DEF Found, AddressesOf, Connections
      <3>2. touched' = [q \in Pages |-> touched[q] \cup {a} \cup Found(q, Owner[a])]
        BY <1>3 DEF Remove
      <3> QED
        BY <3>1, <3>2 DEF Shape, Types
    <2>5. UNCHANGED <<ready, module, restored, connecting, restoring, removing, began,
                      came, crossings>>
      BY <1>3 DEF Remove, flights
    <2>6. connected' \in [Pages -> SUBSET Connections]
      BY <2>3 DEF Shape, Types
    <2>7. Types'
      BY <2>1, <2>2, <2>4, <2>5, <2>6, <2>10 DEF Shape, Types, crossings
    <2>8. Once'
      BY <2>2, <2>3, <2>5 DEF Shape, Types, Once
    <2>9. Flying'
      BY <2>5 DEF Shape, Flying, Connects
    <2> QED
      BY <2>7, <2>8, <2>9 DEF Shape
  <1> QED
    BY <1>1, <1>2, <1>3

\* A page that is loaded anew has nothing in flight.
LEMMA ReloadShape ==
    ASSUME Shape, NEW p \in Pages, Reload(p)
    PROVE  Shape'
  <1>1. calls' \in 0..MaxCalls /\ << >> \in Seq(Connections) /\ Distinct(<< >>)
    BY CalledTyped, EmptyMembers DEF Reload, Shape
  <1>2. Types'
    BY <1>1 DEF Reload, Shape, Types, removals
  <1>3. Once'
    BY <1>1 DEF Reload, Shape, Types, Once
  <1>4. Flying'
    <2>1. /\ connecting'[p] = [k \in Waits |-> 0] /\ removing'[p] = 0 /\ restoring'[p] = << >>
          /\ \A q \in Pages \ {p} :
                /\ connecting'[q] = connecting[q] /\ removing'[q] = removing[q]
                /\ restoring'[q] = restoring[q] /\ module'[q] = module[q]
                /\ ready'[q] = ready[q] /\ restored'[q] = restored[q]
                /\ began'[q] = began[q]
      BY DEF Reload, Shape, Types
    <2>2. ~ Connects(p)'
      BY <2>1 DEF Connects, Waits
    <2> QED
      BY <2>1, <2>2 DEF Shape, Flying, Connects
  <1> QED
    BY <1>2, <1>3, <1>4 DEF Shape

\* So the state keeps its shape.
LEMMA ShapeStep == Shape /\ [Next]_vars => Shape'
  <1> SUFFICES ASSUME Shape, [Next]_vars
               PROVE  Shape'
    OBVIOUS
  <1>1. ASSUME NEW p \in Pages, Call(p) \/ Answer(p)
        PROVE  Shape'
    BY <1>1, QuietShape, SecretShape, ConnectShape, RestoreShape, ReconnectShape,
       RemoveShape, ReloadShape DEF Call, Answer
  <1>2. CASE UNCHANGED vars
    BY <1>2 DEF vars, memory, flights, restores, removals, crossings, Shape, Types, Once,
                Flying, Connects
  <1> QED
    BY <1>1, <1>2 DEF Next

\* It does so throughout.
LEMMA AlwaysShape == Spec => []Shape
  BY InitShape, ShapeStep, PTL DEF Spec

\* Values keep their types, and an address is in the storage and on a page once,
\* however often and on however many pages its wallet is saved again
\* (saveWalletToStorage).
THEOREM WalletsTyped == Spec => []TypeOK
  <1>1. Shape => TypeOK
    <2> SUFFICES ASSUME Shape
                 PROVE  TypeOK
      OBVIOUS
    <2>1. \A i \in DOMAIN saved : saved[i] \in Connections
      BY DEF Shape, Types
    <2>2. \A i, j \in DOMAIN saved : saved[i].address = saved[j].address => i = j
      BY DEF Shape, Once, Distinct
    <2>3. ASSUME NEW p \in Pages
          PROVE  /\ keypairs[p] \subseteq Secrets /\ ed25519[p] \subseteq Secrets
                 /\ connected[p] \subseteq Connections
                 /\ module[p] \in Wallets \cup {None}
                 /\ connecting[p] \in [Waits -> Nat]
      BY DEF Shape, Types
    <2>4. ASSUME NEW p \in Pages
          PROVE  /\ \A c, d \in connected[p] : c.address = d.address => c = d
                 /\ restoring[p] # << >> => module[p] # None /\ ready[p] /\ restored[p]
                 /\ removing[p] > 0 => ready[p]
      BY ExternalWalletsAssumption DEF Shape, Once, Flying
    <2>5. calls \in 0..MaxCalls
      BY DEF Shape, Types
    <2> QED
      BY <2>1, <2>2, <2>3, <2>4, <2>5 DEF TypeOK
  <1> QED
    BY <1>1, AlwaysShape, PTL

-----------------------------------------------------------------------------
(* What was removed.                                                       *)

\* Whose wallets are saved after a removal, a save, and when the list is gone.
LEMMA SavedAddressesAre ==
    ASSUME Types
    PROVE  /\ \A a : AddressesOf(Range(Without(saved, a))) = SavedAddresses \ {a}
           /\ \A c \in Connections :
                 AddressesOf(Range(Saved(saved, c))) = SavedAddresses \cup {c.address}
           /\ AddressesOf(Range(<< >>)) = {}
  <1>1. ASSUME NEW a
        PROVE  AddressesOf(Range(Without(saved, a))) = SavedAddresses \ {a}
    <2>1. Range(Without(saved, a)) = {c \in Range(saved) : c.address # a}
      BY WithoutMembers DEF Types
    <2> QED
      BY <2>1 DEF AddressesOf, SavedAddresses
  <1>2. ASSUME NEW c \in Connections
        PROVE  AddressesOf(Range(Saved(saved, c))) = SavedAddresses \cup {c.address}
    <2>1. Range(Saved(saved, c)) = {d \in Range(saved) : d.address # c.address} \cup {c}
      BY SavedMembers DEF Types
    <2> QED
      BY <2>1 DEF AddressesOf, SavedAddresses
  <1>3. AddressesOf(Range(<< >>)) = {}
    BY EmptyMembers DEF AddressesOf
  <1> QED
    BY <1>1, <1>2, <1>3

\* What each step does to the saved addresses: nothing, or it takes some away,
\* or a wallet that answers a connect adds its own.
SavedMove(p) ==
    \/ UNCHANGED saved
    \/ SavedAddresses' \subseteq SavedAddresses
    \/ \E a \in Addresses :
         WalletAnswers(p, a) /\ SavedAddresses' = SavedAddresses \cup {a}

\* Every call and every answer is such a move.
LEMMA SavedMoves ==
    ASSUME Shape, NEW p \in Pages, Call(p) \/ Answer(p)
    PROVE  SavedMove(p)
  <1>1. ASSUME NEW a \in Addresses, WalletAnswers(p, a)
        PROVE  SavedMove(p)
    <2>1. Connection(a, module[p]) \in Connections
      BY <1>1, Selected DEF Connection, Connections
    <2>2. saved' = Saved(saved, Connection(a, module[p]))
      BY <1>1 DEF WalletAnswers
    <2>3. Connection(a, module[p]).address = a
      BY DEF Connection
    <2> QED
      BY <1>1, <2>1, <2>2, <2>3, SavedAddressesAre DEF SavedMove, SavedAddresses, Shape
  <1>2. CASE ReconnectFails(p) \/ RemovedAll(p) \/ RestoreConnections(p)
             \/ \E a \in Addresses : Remove(p, a)
    <2>1. UNCHANGED saved \/ saved' = << >> \/ \E a : saved' = Without(saved, a)
      BY <1>2 DEF ReconnectFails, Dropped, RemovedAll, RestoreConnections, Remove
    <2> QED
      BY <2>1, SavedAddressesAre DEF SavedMove, SavedAddresses, Shape
  <1>3. CASE \/ InitAdapter(p) \/ RemoveAllFails(p) \/ OpenModal(p)
             \/ RemoveAll(p) \/ Reload(p) \/ \E k \in Waits : ConnectFails(p, k)
             \/ \E a \in Secrets : AddFromSecret(p, a) \/ AddEd25519FromSecret(p, a)
             \/ \E w \in Wallets : ChooseWallet(p, w)
             \/ \E a \in Addresses : Reconnected(p, a)
    BY <1>3 DEF SavedMove, InitAdapter, ConnectFails, RemoveAllFails, OpenModal, RemoveAll,
                Reload, AddFromSecret, AddEd25519FromSecret, ChooseWallet, Reconnected
  <1> QED
    BY <1>1, <1>2, <1>3 DEF Call, Answer

\* What was removed is not saved by anything but a wallet that answers.
LEMMA RemovedStep ==
    ASSUME Shape, NEW p \in Pages, Call(p) \/ Answer(p),
           removed \cap SavedAddresses = {}
    PROVE  (removed \cap SavedAddresses)' = {}
  <1>1. ASSUME NEW a \in Addresses, WalletAnswers(p, a)
        PROVE  (removed \cap SavedAddresses)' = {}
    <2>1. Connection(a, module[p]) \in Connections /\ Connection(a, module[p]).address = a
      BY <1>1, Selected DEF Connection, Connections
    <2>2. saved' = Saved(saved, Connection(a, module[p])) /\ removed' = removed \ {a}
      BY <1>1 DEF WalletAnswers
    <2> QED
      BY <2>1, <2>2, SavedAddressesAre DEF SavedAddresses, Shape
  <1>2. ASSUME NEW a \in Addresses, Remove(p, a)
        PROVE  (removed \cap SavedAddresses)' = {}
    <2>1. saved' = Without(saved, a) /\ removed' = removed \cup {a}
      BY <1>2 DEF Remove
    <2> QED
      BY <2>1, SavedAddressesAre DEF SavedAddresses, Shape
  <1>3. CASE RemovedAll(p)
    <2>1. saved' = << >>
      BY <1>3 DEF RemovedAll
    <2> QED
      BY <2>1, SavedAddressesAre DEF SavedAddresses, Shape
  <1>4. CASE UNCHANGED removed /\ ~ \E a \in Addresses : WalletAnswers(p, a)
    BY <1>4, SavedMoves DEF SavedMove, SavedAddresses
  <1> QED
    <2>1. ASSUME ~ \E a \in Addresses : WalletAnswers(p, a) \/ Remove(p, a), ~ RemovedAll(p)
          PROVE  UNCHANGED removed
      BY <2>1 DEF Call, Answer, InitAdapter, ConnectFails, RemoveAllFails, OpenModal, RemoveAll,
                  Reload, AddFromSecret, AddEd25519FromSecret, ChooseWallet, Reconnected,
                  ReconnectFails, RestoreConnections, removals
    <2> QED
      BY <1>1, <1>2, <1>3, <1>4, <2>1

-----------------------------------------------------------------------------
(* The other pages.                                                        *)

\* Of the other pages a step changes only what they may rely on the storage for.
OnlyPage(p) ==
    \A q \in Pages \ {p} :
        /\ keypairs'[q] = keypairs[q] /\ ed25519'[q] = ed25519[q]
        /\ connected'[q] = connected[q] /\ module'[q] = module[q]
        /\ connecting'[q] = connecting[q] /\ restored'[q] = restored[q]
        /\ overtaken'[q] = overtaken[q]
        /\ restoring'[q] = restoring[q] /\ began'[q] = began[q]
        /\ came'[q] = came[q] /\ gone'[q] = gone[q]
        /\ touched[q] \subseteq touched'[q]

\* A page's calls and answers leave the other pages alone.
LEMMA PagesApart ==
    ASSUME Shape, NEW p \in Pages, Call(p) \/ Answer(p)
    PROVE  OnlyPage(p)
  <1>1. ASSUME NEW a \in Secrets, AddFromSecret(p, a) \/ AddEd25519FromSecret(p, a)
        PROVE  OnlyPage(p)
    BY <1>1 DEF AddFromSecret, AddEd25519FromSecret, OnlyPage, Shape, Types, flights, restores,
                crossings
  <1>2. CASE InitAdapter(p) \/ RemoveAllFails(p) \/ \E k \in Waits : ConnectFails(p, k)
    BY <1>2 DEF InitAdapter, ConnectFails, RemoveAllFails, OnlyPage, Shape, Types, memory,
                flights, restores, removals, crossings
  <1>3. CASE OpenModal(p) \/ RemoveAll(p) \/ \E w \in Wallets : ChooseWallet(p, w)
    BY <1>3 DEF OpenModal, RemoveAll, ChooseWallet, OnlyPage, Shape, Types, memory,
                flights, restores, removals, crossings
  <1>4. ASSUME NEW a \in Addresses, WalletAnswers(p, a)
        PROVE  OnlyPage(p)
    BY <1>4 DEF WalletAnswers, TouchesAll, OnlyPage, Shape, Types
  <1>5. CASE RestoreConnections(p)
    <2>1. CASE Ask(p, saved) /\ touched' = [touched EXCEPT ![p] = {}]
      BY <1>5, <2>1, Asks DEF RestoreConnections, OnlyPage, Shape, Types
    <2>2. CASE /\ touched' = [q \in Pages |-> IF q = p THEN {} ELSE
                                touched[q] \cup AddressesOf(Range(saved))]
               /\ UNCHANGED <<restoring, module, overtaken>>
      BY <1>5, <2>2 DEF RestoreConnections, OnlyPage, Shape, Types
    <2> QED
      BY <1>5, <2>1, <2>2 DEF RestoreConnections
  <1>6. CASE ReconnectFails(p) \/ \E a \in Addresses : Reconnected(p, a)
    <2>1. restoring[p] # << >> /\ Ask(p, Tail(restoring[p]))
      BY <1>6 DEF ReconnectFails, Reconnected, Rest
    <2>2. Tail(restoring[p]) \in Seq(Connections)
      BY <2>1, TailMembers DEF Shape, Types
    <2>3. \A q \in Pages \ {p} : /\ module'[q] = module[q] /\ restoring'[q] = restoring[q]
                                 /\ overtaken'[q] = overtaken[q]
      <3>1. /\ restoring' = [restoring EXCEPT ![p] = Tail(restoring[p])]
            /\ \A q \in Pages \ {p} :
                  module'[q] = module[q] /\ overtaken'[q] = overtaken[q]
        BY <2>1, <2>2, Asks DEF Shape
      <3> QED
        BY <3>1 DEF Shape, Types
    <2>4. CASE ReconnectFails(p)
      BY <2>3, <2>4 DEF ReconnectFails, Touches, OnlyPage, Shape, Types, removals
    <2>5. ASSUME NEW a \in Addresses, Reconnected(p, a)
          PROVE  OnlyPage(p)
      BY <2>3, <2>5 DEF Reconnected, OnlyPage, Shape, Types, removals
    <2> QED
      BY <1>6, <2>4, <2>5
  <1>7. ASSUME NEW a \in Addresses, Remove(p, a)
        PROVE  OnlyPage(p)
    BY <1>7 DEF Remove, OnlyPage, Shape, Types, flights, crossings
  <1>8. CASE RemovedAll(p)
    BY <1>8 DEF RemovedAll, TouchesAll, OnlyPage, Shape, Types, crossings
  <1>9. CASE Reload(p)
    BY <1>9 DEF Reload, OnlyPage, Shape, Types, removals
  <1> QED
    BY <1>1, <1>2, <1>3, <1>4, <1>5, <1>6, <1>7, <1>8, <1>9 DEF Call, Answer

\* A page's own part of Removing.
GoneIsGone(p) ==
    /\ gone[p] \cap Signable(p) = {}
    /\ restoring[p] # << >> => gone[p] = {}

\* What a page took away signs on it no more until it adds or restores it.
LEMMA GoneStep ==
    ASSUME Shape, NEW p \in Pages, Call(p) \/ Answer(p), GoneIsGone(p)
    PROVE  GoneIsGone(p)'
  <1>0. gone[p] \subseteq Addresses /\ connected[p] \subseteq Connections
    BY DEF Shape, Types
  <1>1. CASE \/ InitAdapter(p) \/ RemoveAllFails(p) \/ OpenModal(p)
             \/ \E k \in Waits : ConnectFails(p, k)
             \/ \E w \in Wallets : ChooseWallet(p, w)
    <2>1. UNCHANGED <<keypairs, ed25519, connected, restoring, gone>>
      BY <1>1 DEF InitAdapter, ConnectFails, RemoveAllFails, OpenModal, ChooseWallet,
                  memory, flights, removals
    <2> QED
      BY <2>1 DEF GoneIsGone, Signable
  <1>2. ASSUME NEW a \in Secrets, AddFromSecret(p, a) \/ AddEd25519FromSecret(p, a)
        PROVE  GoneIsGone(p)'
    <2>1. /\ keypairs'[p] \subseteq keypairs[p] \cup {a}
          /\ ed25519'[p] \subseteq ed25519[p] \cup {a}
          /\ gone'[p] = gone[p] \ {a}
          /\ UNCHANGED <<connected, restoring>>
      BY <1>2 DEF AddFromSecret, AddEd25519FromSecret, Shape, Types, flights
    <2> QED
      BY <2>1 DEF GoneIsGone, Signable
  <1>3. ASSUME NEW a \in Addresses, WalletAnswers(p, a)
        PROVE  GoneIsGone(p)'
    <2>1. /\ connected'[p] = Tracked(connected[p], Connection(a, module[p]))
          /\ gone'[p] = gone[p] \ {a}
          /\ UNCHANGED <<keypairs, ed25519, restoring>>
      BY <1>3 DEF WalletAnswers, Shape, Types
    <2>2. AddressesOf(connected'[p]) \subseteq AddressesOf(connected[p]) \cup {a}
      BY <2>1 DEF AddressesOf, Tracked, Connection
    <2> QED
      BY <2>1, <2>2 DEF GoneIsGone, Signable
  <1>4. CASE RestoreConnections(p) \/ Reload(p)
    <2>1. CASE RestoreConnections(p)
      BY <2>1 DEF RestoreConnections, GoneIsGone, Shape, Types
    <2>2. CASE Reload(p)
      BY <2>2 DEF Reload, GoneIsGone, Signable, AddressesOf, Shape, Types, removals
    <2> QED
      BY <1>4, <2>1, <2>2
  <1>5. CASE ReconnectFails(p) \/ \E a \in Addresses : Reconnected(p, a)
    BY <1>5 DEF ReconnectFails, Reconnected, GoneIsGone, removals
  <1>6. ASSUME NEW a \in Addresses, Remove(p, a)
        PROVE  GoneIsGone(p)'
    <2>1. /\ keypairs'[p] = keypairs[p] \ {a} /\ ed25519'[p] = ed25519[p] \ {a}
          /\ connected'[p] = {c \in connected[p] : c.address # a}
          /\ gone'[p] = IF restoring[p] = << >> THEN gone[p] \cup {a} ELSE gone[p]
          /\ UNCHANGED restoring
      BY <1>6 DEF Remove, Shape, Types, flights
    <2>2. AddressesOf(connected'[p]) = AddressesOf(connected[p]) \ {a}
      BY <2>1 DEF AddressesOf
    <2> QED
      BY <2>1, <2>2 DEF GoneIsGone, Signable
  <1>7. CASE RemoveAll(p)
    BY <1>7 DEF RemoveAll, GoneIsGone, Signable, Shape, Types, removals
  <1>8. CASE RemovedAll(p)
    <2>1. /\ connected'[p] = {}
          /\ gone'[p] = IF restoring[p] = << >>
                        THEN Addresses \ (keypairs[p] \cup ed25519[p]) ELSE gone[p]
          /\ UNCHANGED <<keypairs, ed25519, restoring>>
      BY <1>8 DEF RemovedAll, Cleared, Shape, Types
    <2>2. AddressesOf(connected'[p]) = {}
      BY <2>1 DEF AddressesOf
    <2> QED
      BY <2>1, <2>2 DEF GoneIsGone, Signable
  <1> QED
    BY <1>1, <1>2, <1>3, <1>4, <1>5, <1>6, <1>7, <1>8 DEF Call, Answer

\* The storage and every page together.
LEMMA RemovingStep == Shape /\ Removing /\ [Next]_vars => Removing'
  <1> SUFFICES ASSUME Shape, Removing, [Next]_vars
               PROVE  Removing'
    OBVIOUS
  <1>1. ASSUME NEW p \in Pages, Call(p) \/ Answer(p)
        PROVE  Removing'
    <2>1. (removed \cap SavedAddresses)' = {}
      BY <1>1, RemovedStep DEF Removing
    <2>2. ASSUME NEW q \in Pages
          PROVE  GoneIsGone(q)'
      <3>1. GoneIsGone(q)
        BY DEF Removing, GoneIsGone
      <3>2. CASE q = p
        BY <1>1, <3>1, <3>2, GoneStep
      <3>3. CASE q # p
        BY <1>1, <3>1, <3>3, PagesApart DEF OnlyPage, GoneIsGone, Signable
      <3> QED
        BY <3>2, <3>3
    <2> QED
      BY <2>1, <2>2 DEF Removing, GoneIsGone
  <1>2. CASE UNCHANGED vars
    BY <1>2 DEF vars, memory, flights, removals, Removing, SavedAddresses, Signable
  <1> QED
    BY <1>1, <1>2 DEF Next

\* A signer the user removed is not saved again by a list another call or page
\* has read before, and signs no more on the page that removed it (remove,
\* removeAll).
THEOREM RemovedStays == Spec => []RemovedStaysRemoved
  <1>1. Init => Removing
    BY EmptyMembers DEF Init, Removing, Signable, AddressesOf
  <1>2. Removing => RemovedStaysRemoved
    BY DEF Removing, RemovedStaysRemoved, SavedAddresses
  <1> QED
    BY <1>1, <1>2, RemovingStep, AlwaysShape, PTL DEF Spec

-----------------------------------------------------------------------------
(* Wallet IDs.                                                             *)

\* What Truthful says of page p.
TrueOn(p) == Aimed(p) /\ \A c \in connected[p] : Sound(c)

\* Whose IDs may be wrong is not forgotten.
LEMMA CrossedGrows ==
    ASSUME NEW p \in Pages, Call(p) \/ Answer(p)
    PROVE  crossed \subseteq crossed'
  BY DEF Call, Answer, InitAdapter, ConnectFails, RemoveAllFails, OpenModal, RemoveAll,
         Reload, AddFromSecret, AddEd25519FromSecret, ChooseWallet, Reconnected,
         ReconnectFails, Remove, RemovedAll, RestoreConnections, WalletAnswers, Records,
         crossings

\* An ID that is read off the selected module is right, or a call has been
\* crossed.
LEMMA ReadsRight ==
    ASSUME NEW p \in Pages, NEW a \in Addresses, NEW w, w = module[p], Records(p, a),
           ~overtaken[p] => w = Owner[a]
    PROVE  Sound(Connection(a, w))'
  <1> DEFINE c == Connection(a, w)
  <1>1. c.address = a /\ c.wallet = w
    BY DEF Connection
  <1> HIDE DEF c
  <1>2. (c.wallet = Owner[c.address] \/ c.address \in crossed)'
    BY <1>1 DEF Records
  <1> QED
    BY <1>2 DEF Sound, Right, c

\* Whatever is saved is right, or recorded by a call that was crossed.
LEMMA TrueSaved ==
    ASSUME Shape, Truthful, NEW p \in Pages, Call(p) \/ Answer(p)
    PROVE  \A c \in Range(saved') : Sound(c)'
  <1>1. \A c \in Range(saved) : Sound(c)'
    BY CrossedGrows DEF Truthful, Sound, Right
  <1>2. CASE saved' = << >>
    BY <1>2, EmptyMembers
  <1>3. ASSUME NEW a, saved' = Without(saved, a)
        PROVE  \A c \in Range(saved') : Sound(c)'
    <2>1. Range(saved') \subseteq Range(saved)
      BY <1>3, WithoutMembers DEF Shape, Types
    <2> QED
      BY <1>1, <2>1
  <1>4. ASSUME NEW a \in Addresses, WalletAnswers(p, a)
        PROVE  \A c \in Range(saved') : Sound(c)'
    <2>1. PICK w \in Wallets : w = module[p]
      BY <1>4, Selected
    <2>2. Connection(a, w) \in Connections
      BY DEF Connection, Connections
    <2>3. saved' = Saved(saved, Connection(a, w))
      BY <1>4, <2>1 DEF WalletAnswers
    <2>4. Range(saved') \subseteq Range(saved) \cup {Connection(a, w)}
      BY <2>2, <2>3, SavedMembers DEF Shape, Types
    <2>5. Sound(Connection(a, w))'
      BY <1>4, <2>1, Selected, ReadsRight DEF WalletAnswers, Truthful, Aimed
    <2> QED
      BY <1>1, <2>4, <2>5
  <1>5. \/ UNCHANGED saved \/ saved' = << >> \/ \E a : saved' = Without(saved, a)
        \/ \E a \in Addresses : WalletAnswers(p, a)
    BY DEF Call, Answer, InitAdapter, ConnectFails, RemoveAllFails, OpenModal, RemoveAll,
           Reload, AddFromSecret, AddEd25519FromSecret, ChooseWallet, Reconnected,
           ReconnectFails, Dropped, Remove, RemovedAll, RestoreConnections
  <1> QED
    BY <1>1, <1>2, <1>3, <1>4, <1>5

\* So is whatever a page is connected to.
LEMMA TrueConnected ==
    ASSUME Shape, NEW p \in Pages, Call(p) \/ Answer(p), TrueOn(p)
    PROVE  \A c \in connected'[p] : Sound(c)'
  <1>1. \A c \in connected[p] : Sound(c)'
    BY CrossedGrows DEF TrueOn, Sound, Right
  <1>2. ASSUME NEW a \in Addresses, WalletAnswers(p, a) \/ Reconnected(p, a)
        PROVE  \A c \in connected'[p] : Sound(c)'
    <2>1. PICK w : w = module[p]
      OBVIOUS
    <2>2. connected'[p] = Tracked(connected[p], Connection(a, w)) /\ Records(p, a)
      BY <1>2, <2>1 DEF WalletAnswers, Reconnected, Shape, Types
    <2>3. ~overtaken[p] => w = Owner[a]
      BY <1>2, <2>1, Selected DEF WalletAnswers, Reconnected, TrueOn, Aimed
    <2>4. Sound(Connection(a, w))'
      BY <2>1, <2>2, <2>3, ReadsRight
    <2> QED
      BY <1>1, <2>2, <2>4 DEF Tracked
  <1>3. \/ \E a \in Addresses : WalletAnswers(p, a) \/ Reconnected(p, a)
        \/ connected'[p] \subseteq connected[p]
    <2>1. ASSUME NEW a \in Addresses, Remove(p, a)
          PROVE  connected'[p] \subseteq connected[p]
      BY <2>1 DEF Remove, Shape, Types
    <2>2. CASE RemovedAll(p) \/ Reload(p)
      BY <2>2 DEF RemovedAll, Cleared, Reload, Shape, Types
    <2>3. \/ UNCHANGED connected \/ RemovedAll(p) \/ Reload(p)
          \/ \E a \in Addresses : WalletAnswers(p, a) \/ Reconnected(p, a) \/ Remove(p, a)
      BY DEF Call, Answer, InitAdapter, ConnectFails, RemoveAllFails, OpenModal, RemoveAll,
             AddFromSecret, AddEd25519FromSecret, ChooseWallet, ReconnectFails,
             RestoreConnections, memory
    <2> QED
      BY <2>1, <2>2, <2>3
  <1> QED
    BY <1>1, <1>2, <1>3

\* A page whose calls have not been overtaken waits for the wallet it selected.
LEMMA AimedStep ==
    ASSUME Shape, NEW p \in Pages, Call(p) \/ Answer(p), Aimed(p)
    PROVE  Aimed(p)'
  <1>1. ASSUME UNCHANGED <<module, restoring, overtaken>>,
               \A w \in Wallets : connecting'[p][w] > 0 => connecting[p][w] > 0
        PROVE  Aimed(p)'
    BY <1>1 DEF Aimed
  <1>2. CASE UNCHANGED <<module, restoring, overtaken, connecting>>
    BY <1>2 DEF Aimed
  <1>3. CASE OpenModal(p)
    <2>1. \A w \in Wallets : connecting'[p][w] = connecting[p][w]
      BY <1>3, ExternalWalletsAssumption DEF OpenModal, Shape, Types, Waits
    <2>2. UNCHANGED <<module, restoring, overtaken>>
      BY <1>3 DEF OpenModal, memory, crossings
    <2> QED
      BY <1>1, <2>1, <2>2
  <1>4. ASSUME NEW k \in Waits, connecting' = [connecting EXCEPT ![p][k] = @ - 1],
               UNCHANGED <<module, restoring, overtaken>>
        PROVE  Aimed(p)'
    <2>1. \A w \in Wallets : connecting'[p][w] > 0 => connecting[p][w] > 0
      BY <1>4 DEF Shape, Types, Waits
    <2> QED
      BY <1>1, <1>4, <2>1
  <1>5. ASSUME NEW w \in Wallets, ChooseWallet(p, w)
        PROVE  Aimed(p)'
    <2>1. /\ module'[p] = w /\ UNCHANGED restoring
          /\ overtaken'[p] = (Connects(p) \/ restoring[p] # << >>)
      BY <1>5 DEF ChooseWallet, Shape, Types
    <2>2. \A v \in Wallets \ {w} : connecting'[p][v] = connecting[p][v]
      BY <1>5, ExternalWalletsAssumption DEF ChooseWallet, Shape, Types, Waits
    <2> QED
      BY <2>1, <2>2 DEF Aimed, Connects
  <1>6. ASSUME NEW list \in Seq(Connections), Ask(p, list), UNCHANGED connecting
        PROVE  Aimed(p)'
    <2>1. /\ restoring'[p] = list
          /\ list # << >> => module'[p] = Head(list).wallet /\ overtaken'[p] = Connects(p)
      <3>1. /\ restoring' = [restoring EXCEPT ![p] = list]
            /\ list # << >> => module'[p] = Head(list).wallet /\ overtaken'[p] = Connects(p)
        BY <1>6, Asks DEF Shape
      <3> QED
        BY <3>1 DEF Shape, Types
    <2>2. list = << >> => UNCHANGED <<module, overtaken>>
      BY <1>6 DEF Ask, Select
    <2> QED
      BY <1>6, <2>1, <2>2 DEF Aimed, Connects
  <1>7. CASE RestoreConnections(p)
    <2>1. saved \in Seq(Connections)
      BY DEF Shape, Types
    <2>2. UNCHANGED connecting /\ (Ask(p, saved) \/ UNCHANGED <<module, restoring, overtaken>>)
      BY <1>7 DEF RestoreConnections
    <2> QED
      BY <1>2, <1>6, <2>1, <2>2
  <1>8. CASE ReconnectFails(p) \/ \E a \in Addresses : Reconnected(p, a)
    <2>1. restoring[p] # << >> /\ Ask(p, Tail(restoring[p])) /\ UNCHANGED connecting
      BY <1>8 DEF ReconnectFails, Reconnected, Rest
    <2>2. Tail(restoring[p]) \in Seq(Connections)
      BY <2>1, TailMembers DEF Shape, Types
    <2> QED
      BY <1>6, <2>1, <2>2
  <1>9. CASE Reload(p)
    <2>1. connecting'[p] = [k \in Waits |-> 0] /\ restoring'[p] = << >>
      BY <1>9 DEF Reload, Shape, Types
    <2> QED
      BY <2>1 DEF Aimed, Waits
  <1>10. \/ UNCHANGED <<module, restoring, overtaken, connecting>>
         \/ OpenModal(p) \/ RestoreConnections(p) \/ ReconnectFails(p) \/ Reload(p)
         \/ \E w \in Wallets : ChooseWallet(p, w)
         \/ \E a \in Addresses : Reconnected(p, a)
         \/ \E k \in Waits : /\ connecting' = [connecting EXCEPT ![p][k] = @ - 1]
                             /\ UNCHANGED <<module, restoring, overtaken>>
    <2>1. ASSUME NEW a \in Addresses, WalletAnswers(p, a)
          PROVE  /\ Owner[a] \in Waits
                 /\ connecting' = [connecting EXCEPT ![p][Owner[a]] = @ - 1]
                 /\ UNCHANGED <<module, restoring, overtaken>>
      BY <2>1, Selected DEF WalletAnswers, Waits
    <2>2. ASSUME NEW k \in Waits, ConnectFails(p, k)
          PROVE  /\ connecting' = [connecting EXCEPT ![p][k] = @ - 1]
                 /\ UNCHANGED <<module, restoring, overtaken>>
      BY <2>2 DEF ConnectFails, memory, crossings
    <2>3. CASE \/ InitAdapter(p) \/ RemoveAllFails(p) \/ RemoveAll(p) \/ RemovedAll(p)
               \/ \E a \in Secrets : AddFromSecret(p, a) \/ AddEd25519FromSecret(p, a)
               \/ \E a \in Addresses : Remove(p, a)
      BY <2>3 DEF InitAdapter, RemoveAllFails, RemoveAll, RemovedAll, AddFromSecret,
                  AddEd25519FromSecret, Remove, memory, flights, crossings
    <2> QED
      BY <2>1, <2>2, <2>3 DEF Call, Answer
  <1> QED
    BY <1>2, <1>3, <1>4, <1>5, <1>7, <1>8, <1>9, <1>10

\* So do all of them, and the storage.
LEMMA TruthfulStep == Shape /\ Truthful /\ [Next]_vars => Truthful'
  <1> SUFFICES ASSUME Shape, Truthful, [Next]_vars
               PROVE  Truthful'
    OBVIOUS
  <1>1. ASSUME NEW p \in Pages, Call(p) \/ Answer(p)
        PROVE  Truthful'
    <2>1. \A c \in Range(saved') : Sound(c)'
      BY <1>1, TrueSaved
    <2>2. ASSUME NEW q \in Pages
          PROVE  Aimed(q)' /\ \A c \in connected'[q] : Sound(c)'
      <3>1. Aimed(q) /\ \A c \in connected[q] : Sound(c)
        BY DEF Truthful
      <3>2. CASE q = p
        BY <1>1, <3>1, <3>2, TrueConnected, AimedStep DEF TrueOn
      <3>3. CASE q # p
        <4>1. Aimed(q)'
          BY <1>1, <3>1, <3>3, PagesApart DEF OnlyPage, Aimed
        <4>2. \A c \in connected'[q] : Sound(c)'
          BY <1>1, <3>1, <3>3, PagesApart, CrossedGrows DEF OnlyPage, Sound, Right
        <4> QED
          BY <4>1, <4>2
      <3> QED
        BY <3>2, <3>3
    <2> QED
      BY <2>1, <2>2 DEF Truthful
  <1>2. CASE UNCHANGED vars
    BY <1>2 DEF vars, memory, flights, crossings, Truthful, Aimed, Sound, Right
  <1> QED
    BY <1>1, <1>2 DEF Next

\* They do so throughout.
LEMMA AlwaysTruthful == Spec => []Truthful
  <1>1. Init => Truthful
    BY EmptyMembers DEF Init, Truthful, Aimed, Waits
  <1> QED
    BY <1>1, TruthfulStep, AlwaysShape, PTL DEF Spec

\* The wallet recorded for an address holds it, on all pages and in the storage,
\* unless the page selected a wallet for another call while the one that recorded
\* it was waiting (connect, reconnect).
THEOREM WalletIdsTrue == Spec => []WalletIdsAreTrue
  <1>1. Truthful => WalletIdsAreTrue
    BY DEF Truthful, WalletIdsAreTrue, Sound, Right
  <1> QED
    BY <1>1, AlwaysTruthful, PTL

-----------------------------------------------------------------------------
(* Restores.                                                               *)

\* What Settling says of page p.
SettledOn(p) ==
    restored[p] => \A c \in Range(began[p]) : c.address \in touched[p] \/ Settled(p, c)

\* Accounts that page q does not take for touched are saved as before.
SavedAlike(q) ==
    \A a \in Addresses \ touched'[q] : a \in SavedAddresses' <=> a \in SavedAddresses

\* A step that changes the storage has touched, for the other pages, what it
\* changed there; and for its own, if it is none of a restore's.
LEMMA ChangesTouch ==
    ASSUME Shape, NEW p \in Pages, Call(p) \/ Answer(p), NEW q \in Pages,
           q # p \/ ~(RestoreConnections(p) \/ ReconnectFails(p))
    PROVE  SavedAlike(q)
  <1>1. ASSUME NEW a \in Addresses, WalletAnswers(p, a)
        PROVE  SavedAlike(q)
    <2>1. Connection(a, module[p]) \in Connections /\ Connection(a, module[p]).address = a
      BY <1>1, Selected DEF Connection, Connections
    <2>2. saved' = Saved(saved, Connection(a, module[p])) /\ a \in touched'[q]
      BY <1>1 DEF WalletAnswers, TouchesAll
    <2>3. SavedAddresses' = SavedAddresses \cup {a}
      BY <2>1, <2>2, SavedAddressesAre DEF SavedAddresses, Shape
    <2> QED
      BY <2>2, <2>3 DEF SavedAlike
  <1>2. ASSUME NEW a \in Addresses, Remove(p, a)
        PROVE  SavedAlike(q)
    <2>1. saved' = Without(saved, a) /\ a \in touched'[q]
      BY <1>2 DEF Remove
    <2>2. SavedAddresses' = SavedAddresses \ {a}
      BY <2>1, SavedAddressesAre DEF SavedAddresses, Shape
    <2> QED
      BY <2>1, <2>2 DEF SavedAlike
  <1>3. CASE RemovedAll(p)
    <2>1. Addresses \subseteq touched'[q]
      BY <1>3 DEF RemovedAll, TouchesAll
    <2> QED
      BY <2>1 DEF SavedAlike
  <1>4. CASE RestoreConnections(p) /\ q # p
    <2>1. CASE UNCHANGED saved
      BY <2>1 DEF SavedAlike, SavedAddresses
    <2>2. CASE /\ saved' = << >>
               /\ touched' = [r \in Pages |-> IF r = p THEN {} ELSE
                                 touched[r] \cup AddressesOf(Range(saved))]
      <3>1. SavedAddresses \subseteq touched'[q]
        BY <1>4, <2>2 DEF SavedAddresses
      <3>2. SavedAddresses' = {}
        BY <2>2, SavedAddressesAre DEF SavedAddresses, Shape
      <3> QED
        BY <3>1, <3>2 DEF SavedAlike
    <2> QED
      BY <1>4, <2>1, <2>2 DEF RestoreConnections
  <1>5. CASE ReconnectFails(p) /\ q # p
    <2> DEFINE a == Head(restoring[p]).address
    <2>1. saved' = Without(saved, a) /\ a \in touched'[q]
      BY <1>5 DEF ReconnectFails, Dropped, Touches
    <2>2. SavedAddresses' = SavedAddresses \ {a}
      BY <2>1, SavedAddressesAre DEF SavedAddresses, Shape
    <2> QED
      BY <2>1, <2>2 DEF SavedAlike
  <1>6. CASE UNCHANGED saved
    BY <1>6 DEF SavedAlike, SavedAddresses
  <1>7. \/ UNCHANGED saved \/ RestoreConnections(p) \/ ReconnectFails(p) \/ RemovedAll(p)
        \/ \E a \in Addresses : WalletAnswers(p, a) \/ Remove(p, a)
    BY DEF Call, Answer, InitAdapter, ConnectFails, RemoveAllFails, OpenModal, RemoveAll,
           Reload, AddFromSecret, AddEd25519FromSecret, ChooseWallet, Reconnected
  <1> QED
    BY <1>1, <1>2, <1>3, <1>4, <1>5, <1>6, <1>7

\* What is settled stays so while the restore does not move on, what is saved
\* changes only for those touched, and the wallets that are connected stay.
LEMMA SettledKept ==
    ASSUME Shape, NEW q \in Pages, SettledOn(q),
           restored'[q] = restored[q], began'[q] = began[q],
           restoring'[q] = restoring[q], came'[q] = came[q],
           touched[q] \subseteq touched'[q], SavedAlike(q),
           \A c \in Range(began[q]), d \in connected[q] :
              c.address \notin touched'[q] /\ Owner[d.address] = c.wallet =>
                  \E e \in connected'[q] : Owner[e.address] = c.wallet
    PROVE  SettledOn(q)'
  <1> SUFFICES ASSUME restored'[q], NEW c \in Range(began'[q]), c.address \notin touched'[q]
               PROVE  Settled(q, c)'
    BY DEF SettledOn
  <1>1. c \in Range(began[q]) /\ c.address \notin touched[q] /\ Settled(q, c)
    BY DEF SettledOn
  <1>2. c.address \in Addresses
    BY <1>1, FoundConnections DEF Connections
  <1>3. c.address \in SavedAddresses' <=> c.address \in SavedAddresses
    BY <1>2 DEF SavedAlike
  <1>4. ASSUME c \notin Range(restoring[q]), c.address \in came[q]
        PROVE  \E e \in connected'[q] : Owner[e.address] = c.wallet
    <2>1. PICK d \in connected[q] : Owner[d.address] = c.wallet
      BY <1>1, <1>4 DEF Settled
    <2> QED
      BY <1>1, <1>4, <2>1
  <1> QED
    BY <1>1, <1>3, <1>4 DEF Settled

\* So it stays on the other pages, and on the page itself unless it restores,
\* reconnects or is loaded anew.
LEMMA SettledElsewhere ==
    ASSUME Shape, NEW p \in Pages, Call(p) \/ Answer(p), NEW q \in Pages, SettledOn(q),
           \/ q # p
           \/ ~(RestoreConnections(p) \/ ReconnectFails(p) \/ Reload(p)
                \/ \E a \in Addresses : Reconnected(p, a))
    PROVE  SettledOn(q)'
  <1>1. SavedAlike(q)
    BY ChangesTouch
  <1>3. CASE q # p
    BY <1>1, <1>3, PagesApart, SettledKept DEF OnlyPage
  <1>4. CASE q = p
    <2>1. /\ UNCHANGED <<restored, began, restoring, came>>
          /\ touched[p] \subseteq touched'[p]
      BY <1>4 DEF Call, Answer, InitAdapter, ConnectFails, RemoveAllFails, OpenModal, RemoveAll,
           AddFromSecret, AddEd25519FromSecret, ChooseWallet, Remove, RemovedAll, WalletAnswers,
           TouchesAll, Shape, Types, memory, flights, restores
    <2>2. ASSUME NEW c \in Range(began[p]), NEW d \in connected[p],
                 c.address \notin touched'[p], Owner[d.address] = c.wallet
          PROVE  \E e \in connected'[p] : Owner[e.address] = c.wallet
      <3>1. c \in Connections /\ d \in Connections
        BY <2>2, FoundConnections DEF Shape, Types
      <3>2. ASSUME NEW a \in Addresses, Remove(p, a)
            PROVE  \E e \in connected'[p] : Owner[e.address] = c.wallet
        <4>1. /\ connected'[p] = {e \in connected[p] : e.address # a}
              /\ touched'[p] = touched[p] \cup {a} \cup Found(p, Owner[a])
          BY <3>2 DEF Remove, Shape, Types
        <4>2. d.address # a
          BY <2>2, <4>1 DEF Found, AddressesOf
        <4> QED
          BY <2>2, <4>1, <4>2
      <3>3. CASE RemovedAll(p)
        <4>1. Addresses \subseteq touched'[p]
          BY <3>3 DEF RemovedAll, TouchesAll
        <4> QED
          BY <2>2, <3>1, <4>1 DEF Connections
      <3>4. ASSUME NEW a \in Addresses, WalletAnswers(p, a)
            PROVE  \E e \in connected'[p] : Owner[e.address] = c.wallet
        <4> DEFINE new == Connection(a, module[p])
        <4>1. connected'[p] = Tracked(connected[p], new) /\ new.address = a
          BY <3>4 DEF WalletAnswers, Connection, Shape, Types
        <4> HIDE DEF new
        <4>2. CASE d.address = a
          BY <2>2, <4>1, <4>2 DEF Tracked
        <4>3. CASE d.address # a
          BY <2>2, <4>1, <4>3 DEF Tracked
        <4> QED
          BY <4>2, <4>3
      <3>5. CASE UNCHANGED connected
        BY <2>2, <3>5
      <3>6. \/ UNCHANGED connected \/ RemovedAll(p)
            \/ \E a \in Addresses : WalletAnswers(p, a) \/ Remove(p, a)
        BY <1>4 DEF Call, Answer, InitAdapter, ConnectFails, RemoveAllFails, OpenModal, RemoveAll,
             AddFromSecret, AddEd25519FromSecret, ChooseWallet, memory
      <3> QED
        BY <3>2, <3>3, <3>4, <3>5, <3>6
    <2> QED
      BY <1>1, <1>4, <2>1, <2>2, SettledKept
  <1> QED
    BY <1>3, <1>4

\* A restore begins: all it found is still to come, or nothing when the adapter
\* is not ready and everything is dropped.
LEMMA SettledBegins ==
    ASSUME Shape, NEW p \in Pages, RestoreConnections(p)
    PROVE  SettledOn(p)'
  <1>1. /\ ~restored[p] /\ began'[p] = saved /\ came'[p] = {}
    BY DEF RestoreConnections, Shape, Types
  <1>2. CASE Ask(p, saved) /\ UNCHANGED saved
    <2>1. restoring'[p] = saved
      <3>1. restoring' = [restoring EXCEPT ![p] = saved]
        BY <1>2, Asks DEF Shape, Types
      <3> QED
        BY <3>1 DEF Shape, Types
    <2>2. \A c \in Range(saved) : c.address \in SavedAddresses'
      BY <1>2 DEF SavedAddresses, AddressesOf
    <2> QED
      BY <1>1, <2>1, <2>2 DEF SettledOn, Settled
  <1>3. CASE saved' = << >> /\ UNCHANGED restoring
    <2>1. SavedAddresses' = {}
      BY <1>3, SavedAddressesAre DEF SavedAddresses, Shape
    <2>2. restoring'[p] = << >> /\ Range(restoring'[p]) = {}
      BY <1>1, <1>3, EmptyMembers DEF Shape, Flying
    <2> QED
      BY <1>1, <2>1, <2>2 DEF SettledOn, Settled
  <1> QED
    BY <1>2, <1>3 DEF RestoreConnections

\* Of two wallets of a list with the same address there is but one.
LEMMA OneOfAnAddress ==
    ASSUME NEW list, Distinct(list), NEW c \in Range(list), NEW d \in Range(list),
           c.address = d.address
    PROVE  c = d
  BY DEF Distinct, Range

\* The restore moves on: the wallet it asked is settled, the others are as before.
LEMMA SettledMovesOn ==
    ASSUME Shape, NEW p \in Pages, SettledOn(p),
           ReconnectFails(p) \/ \E a \in Addresses : Reconnected(p, a)
    PROVE  SettledOn(p)'
  <1> DEFINE list == restoring[p]
             h == Head(list)
  <1>1. list # << >> /\ list \in Seq(Connections) /\ Distinct(list) /\ Distinct(began[p])
    BY DEF ReconnectFails, Reconnected, Shape, Types, Once
  <1>2. /\ Tail(list) \in Seq(Connections)
        /\ Range(list) = Range(Tail(list)) \cup {h}
        /\ \A c \in Range(Tail(list)) : c.address # h.address
    BY <1>1, TailMembers
  <1>3. restoring'[p] = Tail(list)
    <2>1. Ask(p, Tail(list))
      BY DEF ReconnectFails, Reconnected, Rest
    <2>2. restoring' = [restoring EXCEPT ![p] = Tail(list)]
      BY <1>2, <2>1, Asks DEF Shape
    <2> QED
      BY <2>2 DEF Shape, Types
  <1>4. restored[p] /\ Range(list) \subseteq Range(began[p])
    BY <1>1 DEF Shape, Flying
  <1>5. /\ UNCHANGED <<restored, began>> /\ touched'[p] = touched[p]
    BY DEF ReconnectFails, Reconnected, Touches, Shape, Types
  <1> HIDE DEF list, h
  <1> SUFFICES ASSUME NEW c \in Range(began[p]), c.address \notin touched[p]
               PROVE  Settled(p, c)'
    BY <1>5 DEF SettledOn
  <1>6. Settled(p, c)
    BY <1>4 DEF SettledOn
  <1>7. c # h => c.address # h.address
    BY <1>1, <1>2, <1>4, OneOfAnAddress
  <1>8. c \in Range(restoring'[p]) <=> c \in Range(list) /\ c # h
    BY <1>2, <1>3
  <1>9. CASE ReconnectFails(p)
    <2>1. saved' = Without(saved, h.address) /\ UNCHANGED <<connected, came>>
      BY <1>9 DEF ReconnectFails, Dropped, list, h
    <2>2. SavedAddresses' = SavedAddresses \ {h.address}
      BY <2>1, SavedAddressesAre DEF SavedAddresses, Shape
    <2>3. CASE c = h
      BY <1>2, <1>5, <1>6, <1>8, <2>1, <2>2, <2>3 DEF Settled, list
    <2>4. CASE c # h
      BY <1>5, <1>6, <1>7, <1>8, <2>1, <2>2, <2>4 DEF Settled, list
    <2> QED
      BY <2>3, <2>4
  <1>10. ASSUME NEW a \in Addresses, Reconnected(p, a)
         PROVE  Settled(p, c)'
    <2> DEFINE new == Connection(a, module[p])
    <2>1. /\ connected'[p] = Tracked(connected[p], new)
          /\ came'[p] = came[p] \cup {h.address}
          /\ SavedAddresses' = SavedAddresses
          /\ new.address = a /\ Owner[a] = h.wallet
      BY <1>10 DEF Reconnected, Connection, SavedAddresses, Shape, Types, list, h
    <2> HIDE DEF new
    <2>2. new \in connected'[p]
      BY <2>1 DEF Tracked
    <2>3. CASE c = h
      BY <1>2, <1>5, <1>6, <1>8, <2>1, <2>2, <2>3 DEF Settled, list
    <2>4. CASE c # h
      <3>1. ASSUME NEW d \in connected[p]
            PROVE  \E e \in connected'[p] : Owner[e.address] = Owner[d.address]
        <4>1. d.address = a \/ d \in connected'[p]
          BY <2>1 DEF Tracked
        <4> QED
          BY <2>1, <2>2, <4>1
      <3> QED
        BY <1>5, <1>6, <1>7, <1>8, <2>1, <2>4, <3>1 DEF Settled, list
    <2> QED
      BY <2>3, <2>4
  <1> QED
    BY <1>9, <1>10

\* Whatever a page does, what every page's restore has settled stays settled.
LEMMA SettlingStep == Shape /\ Settling /\ [Next]_vars => Settling'
  <1> SUFFICES ASSUME Shape, Settling, [Next]_vars
               PROVE  Settling'
    OBVIOUS
  <1>1. ASSUME NEW p \in Pages, Call(p) \/ Answer(p), NEW q \in Pages
        PROVE  SettledOn(q)'
    <2>1. SettledOn(q)
      BY DEF Settling, SettledOn
    <2>2. CASE q = p /\ (ReconnectFails(p) \/ \E a \in Addresses : Reconnected(p, a))
      BY <2>1, <2>2, SettledMovesOn
    <2>3. CASE q = p /\ RestoreConnections(p)
      BY <2>3, SettledBegins
    <2>4. CASE q = p /\ Reload(p)
      BY <2>4 DEF Reload, SettledOn, Shape, Types
    <2> QED
      BY <1>1, <2>1, <2>2, <2>3, <2>4, SettledElsewhere
  <1>2. CASE UNCHANGED vars
    BY <1>2 DEF vars, memory, flights, restores, Settling, Settled, SavedAddresses
  <1> QED
    BY <1>1, <1>2 DEF Next, Settling, SettledOn

\* When a restore is over, the wallets it found, and nobody has touched since,
\* are saved if and only if they came back, whatever the order in which others
\* failed, and however the other pages restore, connect and remove meanwhile
\* (restoreConnections).
THEOREM RestoresSettle == Spec => []RestoreSettlesSaved
  <1>1. Init => Settling
    BY DEF Init, Settling
  <1>2. Shape /\ Settling => RestoreSettlesSaved
    <2> SUFFICES ASSUME Shape, Settling, NEW p \in Pages, restored[p], restoring[p] = << >>,
                        NEW i \in DOMAIN began[p], began[p][i].address \notin touched[p]
                 PROVE  LET c == began[p][i]
                        IN  /\ c.address \in AddressesOf(Range(saved)) <=>
                                  c.address \in came[p]
                            /\ c.address \in came[p] =>
                                  \E d \in connected[p] : Owner[d.address] = c.wallet
      BY DEF RestoreSettlesSaved
    <2>1. began[p][i] \in Range(began[p])
      BY DEF Range
    <2>2. Settled(p, began[p][i])
      BY <2>1 DEF Settling
    <2>3. began[p][i] \notin Range(restoring[p])
      BY EmptyMembers
    <2> QED
      BY <2>2, <2>3 DEF Settled, SavedAddresses
  <1> QED
    BY <1>1, <1>2, SettlingStep, AlwaysShape, PTL DEF Spec

=============================================================================
