-------------------------- MODULE RateLimitProofs --------------------------
(***************************************************************************)
(* The rate and concurrency controller for every set of keys, limits,      *)
(* windows, requests and holders: its counters are exact, its limits hold, *)
(* and a lease is ended by whoever holds it or by its expiry.  What an     *)
(* operation does to a controller is proved once, as a fact about the      *)
(* controller (Sound, Follows); the state machine then follows.            *)
(***************************************************************************)
EXTENDS RateLimit, FiniteSums

-----------------------------------------------------------------------------
(* Pending units and permits as sums over leases.                          *)

Pending(leases, k) == {l \in leases : ~l.charged /\ k \in Rated(l.keys)}
Holding(leases, k) == {l \in leases : k \in Permitted(l.keys)}
Units == [l \in RateLease |-> l.units]

LEMMA PendingIs ==
    ASSUME NEW L \in SUBSET RateLease, IsFiniteSet(L), NEW k
    PROVE  /\ PendingUnits(L, k) = Total(Units, Pending(L, k))
           /\ IsFiniteSet(Pending(L, k))
           /\ Weighs(Units, Pending(L, k))
<1> DEFINE S == Pending(L, k)
           c(T) == CHOOSE l \in T : TRUE
           Folds(f) == f = [T \in SUBSET S |-> IF T = {} THEN 0 ELSE c(T).units + f[T \ {c(T)}]]
<1>1. S \in SUBSET L /\ S \in SUBSET RateLease
  BY DEF Pending
<1>2. IsFiniteSet(S)
  BY <1>1, FS_Subset
<1>3. \A l \in S : Units[l] = l.units /\ l.units \in Nat
  BY <1>1 DEF Units, RateLease
<1>4. Weighs(Units, S) /\ \A l \in S : Units[l] \in Nat
  BY <1>3 DEF Weighs
<1>5. PendingUnits(L, k) = (CHOOSE f : Folds(f))[S]
  BY DEF PendingUnits, MapThenSumSet, MapThenFoldSet, Pending
<1>6. \A T \in SUBSET S : T # {} => c(T) \in S
  OBVIOUS
<1>7. ASSUME NEW f PROVE IsFold(f, Units, S) <=> Folds(f)
  <2> DEFINE i == [T \in SUBSET S |-> IF T = {} THEN 0 ELSE Units[c(T)] + f[T \ {c(T)}]]
             j == [T \in SUBSET S |-> IF T = {} THEN 0 ELSE c(T).units + f[T \ {c(T)}]]
  <2>1. \A T \in SUBSET S : i[T] = j[T]
    <3> HIDE DEF c, S
    <3> QED BY <1>3, <1>6
  <2>2. i = j
    <3>1. i = [T \in SUBSET S |-> i[T]] /\ j = [T \in SUBSET S |-> j[T]]
      <4> HIDE DEF c, S
      <4> QED OBVIOUS
    <3> HIDE DEF i, j, S
    <3> QED BY <2>1, <3>1
  <2>3. IsFold(f, Units, S) <=> f = i
    <3> HIDE DEF S
    <3> QED BY DEF IsFold
  <2> QED BY <2>2, <2>3
<1> HIDE DEF Folds, S
<1>8. PICK f : f = CHOOSE h : Folds(h)
  OBVIOUS
<1>9. Folds(f)
  BY <1>2, <1>4, <1>7, <1>8, FoldExists
<1>10. Adds(f, Units, S)
  BY <1>2, <1>4, <1>7, <1>9, FoldAdds
<1>11. Total(Units, S) = f[S]
  <2>1. S \in SUBSET S
    OBVIOUS
  <2> QED BY <1>2, <1>4, <1>10, <2>1, TotalIs
<1> QED BY <1>2, <1>4, <1>5, <1>8, <1>11 DEF S

\* What a part of the leases counts for, and the rest.
Splits(L, G, k) ==
    /\ PendingUnits(G, k) \in Nat
    /\ PendingUnits(L \ G, k) \in Nat
    /\ PendingUnits(L, k) = PendingUnits(G, k) + PendingUnits(L \ G, k)
    /\ Permits(G, k) \in Nat
    /\ Permits(L \ G, k) \in Nat
    /\ Permits(L, k) = Permits(G, k) + Permits(L \ G, k)

LEMMA CountsSplit ==
    ASSUME NEW L \in SUBSET RateLease, IsFiniteSet(L), NEW G \in SUBSET L, NEW k
    PROVE  Splits(L, G, k)
<1>1. PICK R : R = L \ G
  OBVIOUS
<1>2. /\ G \in SUBSET RateLease /\ R \in SUBSET RateLease
      /\ IsFiniteSet(G) /\ IsFiniteSet(R)
  BY <1>1, FS_Subset
<1>3. Pending(G, k) \in SUBSET Pending(L, k) /\ Pending(R, k) = Pending(L, k) \ Pending(G, k)
  BY <1>1 DEF Pending
<1>4. /\ PendingUnits(G, k) \in Nat
      /\ PendingUnits(R, k) \in Nat
      /\ PendingUnits(L, k) = PendingUnits(G, k) + PendingUnits(R, k)
  <2>1. /\ PendingUnits(L, k) = Total(Units, Pending(L, k))
        /\ PendingUnits(G, k) = Total(Units, Pending(G, k))
        /\ PendingUnits(R, k) = Total(Units, Pending(R, k))
        /\ IsFiniteSet(Pending(L, k)) /\ Weighs(Units, Pending(L, k))
    BY <1>2, PendingIs
  <2>2. /\ Total(Units, Pending(G, k)) \in Nat
        /\ Total(Units, Pending(L, k) \ Pending(G, k)) \in Nat
        /\ Total(Units, Pending(L, k))
             = Total(Units, Pending(G, k)) + Total(Units, Pending(L, k) \ Pending(G, k))
    BY <1>3, <2>1, TotalSplits
  <2> QED BY <1>3, <2>1, <2>2
<1>5. /\ Permits(G, k) \in Nat
      /\ Permits(R, k) \in Nat
      /\ Permits(L, k) = Permits(G, k) + Permits(R, k)
  <2>1. /\ Holding(G, k) \in SUBSET L /\ Holding(R, k) \in SUBSET L
        /\ Holding(L, k) = Holding(G, k) \cup Holding(R, k)
        /\ Holding(G, k) \cap Holding(R, k) = {}
    BY <1>1 DEF Holding
  <2>2. IsFiniteSet(Holding(G, k)) /\ IsFiniteSet(Holding(R, k))
    BY <2>1, FS_Subset
  <2>3. Cardinality(Holding(G, k)) \in Nat /\ Cardinality(Holding(R, k)) \in Nat
    BY <2>2, FS_CardinalityType
  <2>4. Cardinality(Holding(L, k)) = Cardinality(Holding(G, k)) + Cardinality(Holding(R, k))
    <3>1. Cardinality(Holding(G, k) \cup Holding(R, k))
            = Cardinality(Holding(G, k)) + Cardinality(Holding(R, k))
                 - Cardinality(Holding(G, k) \cap Holding(R, k))
      BY <2>2, FS_Union
    <3>2. Cardinality(Holding(G, k) \cap Holding(R, k)) = 0
      BY <2>1, FS_EmptySet
    <3>3. Cardinality(Holding(L, k)) = Cardinality(Holding(G, k) \cup Holding(R, k))
      BY <2>1
    <3> QED BY <2>3, <3>1, <3>2, <3>3
  <2> QED BY <2>3, <2>4 DEF Permits, Holding
<1> QED BY <1>1, <1>4, <1>5 DEF Splits

\* What one lease counts for.
LEMMA CountsOne ==
    ASSUME NEW l \in RateLease, NEW k
    PROVE  /\ PendingUnits({l}, k) = IF ~l.charged /\ k \in Rated(l.keys) THEN l.units ELSE 0
           /\ Permits({l}, k) = IF k \in Permitted(l.keys) THEN 1 ELSE 0
<1>1. {l} \in SUBSET RateLease /\ IsFiniteSet({l})
  BY FS_Singleton
<1>2. PendingUnits({l}, k) = Total(Units, Pending({l}, k))
  BY <1>1, PendingIs
<1>3. Units[l] = l.units /\ l.units \in Nat
  BY DEF Units, RateLease
<1>4. Total(Units, {l}) = Units[l] /\ Total(Units, {}) = 0
  BY <1>3, TotalOfOne, TotalOfNone
<1>5. Pending({l}, k) = IF ~l.charged /\ k \in Rated(l.keys) THEN {l} ELSE {}
  BY DEF Pending
<1>6. Holding({l}, k) = IF k \in Permitted(l.keys) THEN {l} ELSE {}
  BY DEF Holding
<1>7. Cardinality({l}) = 1 /\ Cardinality({}) = 0
  BY FS_Singleton, FS_EmptySet
<1>8. Permits({l}, k) = Cardinality(Holding({l}, k))
  BY DEF Permits, Holding
<1> QED BY <1>2, <1>3, <1>4, <1>5, <1>6, <1>7, <1>8

LEMMA CountsNone ==
    ASSUME NEW L \in SUBSET RateLease, IsFiniteSet(L), NEW k, \A l \in L : k \notin Rated(l.keys)
    PROVE  PendingUnits(L, k) = 0
<1>1. Pending(L, k) = {}
  BY DEF Pending
<1> QED BY <1>1, PendingIs, TotalOfNone

-----------------------------------------------------------------------------
(* What a controller keeps.                                                *)

Windows == [LimitKeys -> [ends : Instant, committed : Nat, pending : Nat]]

Controller ==
    [lastNow : Instant, identity : 0..MaxIdentity, windows : Windows,
     active : [LimitKeys -> Nat], leases : SUBSET RateLease]

\* A finite number of leases, no two of one identity and none of an identity to come.
Identified(c) ==
    /\ IsFiniteSet(c.leases)
    /\ \A l, m \in c.leases : l.id = m.id => l = m
    /\ \A l \in c.leases : l.id <= c.identity

Counted(c) ==
    \A k \in LimitKeys :
        /\ c.windows[k].pending = PendingUnits(c.leases, k)
        /\ c.active[k] = Permits(c.leases, k)

Limited(c) ==
    \A k \in LimitKeys :
        /\ c.windows[k].committed + c.windows[k].pending <= RateCapacity[k]
        /\ c.active[k] <= ConcurrencyLimit[k]

Enclosed(c) == \A l \in c.leases : \A k \in Rated(l.keys) : l.expires <= c.windows[k].ends

Sound(c) == c \in Controller /\ Identified(c) /\ Counted(c) /\ Limited(c) /\ Enclosed(c)

\* d follows c: leases only leave when their expiry is observed, or closed.
Follows(c, d, closed) ==
    /\ d.lastNow >= c.lastNow
    /\ d.identity >= c.identity
    /\ \A l \in c.leases : \/ l.id \in closed
                           \/ d.lastNow >= l.expires
                           \/ \E m \in d.leases : m.id = l.id /\ m.expires = l.expires
    /\ \A m \in d.leases : \E l \in c.leases : l.id = m.id

LEMMA LeaseTypes ==
    ASSUME NEW c \in Controller, NEW l \in c.leases
    PROVE  /\ l.id \in Nat /\ l.id > 0 /\ l.expires \in Nat /\ l.units \in Nat
           /\ l.keys \in SUBSET LimitKeys
           /\ c.lastNow \in Nat /\ c.identity \in Nat
PROOF
  BY RateAssumption DEF Controller, RateLease, Instant

LEMMA FollowsComposes ==
    ASSUME NEW c \in Controller, NEW d \in Controller, NEW e \in Controller,
           NEW x, NEW y, Follows(c, d, x), Follows(d, e, y)
    PROVE  Follows(c, e, x \cup y)
<1>0. {c.lastNow, d.lastNow, e.lastNow, c.identity, d.identity, e.identity} \subseteq Nat
  BY RateAssumption DEF Controller, Instant
<1>1. e.lastNow >= c.lastNow /\ e.identity >= c.identity
  BY <1>0 DEF Follows
<1>2. ASSUME NEW l \in c.leases, l.id \notin x \cup y, ~(e.lastNow >= l.expires)
      PROVE  \E m \in e.leases : m.id = l.id /\ m.expires = l.expires
  <2>1. l.expires \in Nat
    BY LeaseTypes
  <2>2. ~(d.lastNow >= l.expires)
    BY <1>0, <1>2, <2>1 DEF Follows
  <2>3. PICK m \in d.leases : m.id = l.id /\ m.expires = l.expires
    BY <1>2, <2>2 DEF Follows
  <2> QED BY <1>2, <2>3 DEF Follows
<1>3. \A n \in e.leases : \E l \in c.leases : l.id = n.id
  BY DEF Follows
<1> QED BY <1>1, <1>2, <1>3 DEF Follows

IsController(d) ==
    d = [lastNow |-> d.lastNow, identity |-> d.identity, windows |-> d.windows,
         active |-> d.active, leases |-> d.leases]

\* remove_lease returns what the leases gone had, and no more.
LEMMA RemoveKeeps ==
    ASSUME NEW c, Sound(c), NEW gone \in SUBSET c.leases
    PROVE  LET d == RemoveLeases(c, gone) IN
           /\ Sound(d)
           /\ d.lastNow = c.lastNow /\ d.identity = c.identity /\ d.leases = c.leases \ gone
<1> DEFINE d == RemoveLeases(c, gone)
<1>0. c \in Controller /\ IsFiniteSet(c.leases) /\ c.leases \in SUBSET RateLease
  BY DEF Sound, Identified, Controller
<1>1. /\ d.lastNow = c.lastNow /\ d.identity = c.identity /\ d.leases = c.leases \ gone
      /\ d.active = [k \in LimitKeys |-> Monus(c.active[k], Permits(gone, k))]
      /\ d.windows = [k \in LimitKeys |->
            [c.windows[k] EXCEPT !.pending = Monus(@, PendingUnits(gone, k))]]
      /\ IsController(d)
  <2>1. PICK W, A : /\ W = [k \in LimitKeys |->
                                [c.windows[k] EXCEPT !.pending = Monus(@, PendingUnits(gone, k))]]
                    /\ A = [k \in LimitKeys |-> Monus(c.active[k], Permits(gone, k))]
    OBVIOUS
  <2>2. d = [c EXCEPT !.active = A, !.windows = W, !.leases = c.leases \ gone]
    BY <2>1 DEF RemoveLeases
  <2> HIDE DEF d
  <2>3. /\ d.lastNow = c.lastNow /\ d.identity = c.identity
        /\ d.windows = W /\ d.active = A /\ d.leases = c.leases \ gone
        /\ IsController(d)
    BY <1>0, <2>2 DEF Controller, IsController
  <2> QED BY <2>1, <2>3
<1> HIDE DEF d
<1>2. ASSUME NEW k \in LimitKeys
      PROVE  /\ d.windows[k].ends = c.windows[k].ends
             /\ d.windows[k].committed = c.windows[k].committed
             /\ d.windows[k].pending = PendingUnits(d.leases, k)
             /\ d.active[k] = Permits(d.leases, k)
             /\ d.windows[k].pending \in Nat /\ d.windows[k].pending <= c.windows[k].pending
             /\ d.active[k] \in Nat /\ d.active[k] <= c.active[k]
             /\ d.windows[k] \in [ends : Instant, committed : Nat, pending : Nat]
  <2>1. c.windows[k] \in [ends : Instant, committed : Nat, pending : Nat] /\ c.active[k] \in Nat
    BY <1>0 DEF Controller, Windows
  <2>2. Splits(c.leases, gone, k)
    BY <1>0, CountsSplit
  <2>3. c.windows[k].pending = PendingUnits(c.leases, k) /\ c.active[k] = Permits(c.leases, k)
    BY DEF Sound, Counted
  <2>4. /\ Monus(c.windows[k].pending, PendingUnits(gone, k)) = PendingUnits(d.leases, k)
        /\ PendingUnits(d.leases, k) \in Nat
        /\ PendingUnits(d.leases, k) <= c.windows[k].pending
    BY <1>1, <2>2, <2>3 DEF Monus, Splits
  <2>5. /\ Monus(c.active[k], Permits(gone, k)) = Permits(d.leases, k)
        /\ Permits(d.leases, k) \in Nat
        /\ Permits(d.leases, k) <= c.active[k]
    BY <1>1, <2>2, <2>3 DEF Monus, Splits
  <2>6. d.windows[k] = [c.windows[k] EXCEPT !.pending = PendingUnits(d.leases, k)]
    BY <1>1, <2>4
  <2>7. d.active[k] = Permits(d.leases, k)
    BY <1>1, <2>5
  <2> QED BY <2>1, <2>4, <2>5, <2>6, <2>7
<1>3. d \in Controller
  <2>1. d.windows \in Windows /\ d.active \in [LimitKeys -> Nat]
    BY <1>1, <1>2 DEF Windows
  <2>2. d.leases \in SUBSET RateLease /\ d.lastNow \in Instant /\ d.identity \in 0..MaxIdentity
    BY <1>0, <1>1 DEF Controller
  <2> QED BY <1>1, <2>1, <2>2 DEF Controller, IsController
<1>4. Identified(d)
  <2>1. IsFiniteSet(c.leases \ gone)
    BY <1>0, FS_Subset
  <2> QED BY <1>1, <2>1 DEF Sound, Identified
<1>5. Counted(d)
  BY <1>2 DEF Counted
<1>6. Limited(d)
  <2> SUFFICES ASSUME NEW k \in LimitKeys
               PROVE  /\ d.windows[k].committed + d.windows[k].pending <= RateCapacity[k]
                      /\ d.active[k] <= ConcurrencyLimit[k]
    BY DEF Limited
  <2>1. /\ c.windows[k].committed + c.windows[k].pending <= RateCapacity[k]
        /\ c.active[k] <= ConcurrencyLimit[k]
    BY DEF Sound, Limited
  <2>2. /\ c.windows[k].committed \in Nat /\ c.windows[k].pending \in Nat /\ c.active[k] \in Nat
        /\ RateCapacity[k] \in Nat /\ ConcurrencyLimit[k] \in Nat
    BY <1>0, RateAssumption DEF Controller, Windows, ValidLimits
  <2> QED BY <1>2, <2>1, <2>2
<1>7. Enclosed(d)
  <2>1. \A l \in d.leases : \A k \in Rated(l.keys) : k \in LimitKeys
    BY <1>0, <1>1 DEF Rated, RateLease
  <2> QED BY <1>1, <1>2, <2>1 DEF Sound, Enclosed
<1> QED BY <1>1, <1>3, <1>4, <1>5, <1>6, <1>7 DEF Sound, d

\* observe_and_expire: what is left is still to expire.
LEMMA ObserveKeeps ==
    ASSUME NEW c, Sound(c), NEW now \in Instant, ~Regresses(c, now)
    PROVE  LET d == Observe(c, now) IN
           /\ Sound(d)
           /\ Follows(c, d, {})
           /\ d.lastNow = now /\ d.identity = c.identity
           /\ d.leases = {l \in c.leases : ~(l.expires <= now)}
<1> DEFINE gone == {l \in c.leases : l.expires <= now}
           r == RemoveLeases(c, gone)
           d == Observe(c, now)
<1>0. c \in Controller /\ c.lastNow \in Nat /\ now \in Nat /\ c.identity \in Nat
  BY RateAssumption DEF Sound, Controller, Instant
<1>1. gone \in SUBSET c.leases
  OBVIOUS
<1>2. Sound(r) /\ r.lastNow = c.lastNow /\ r.identity = c.identity /\ r.leases = c.leases \ gone
  BY <1>1, RemoveKeeps
<1>3. d = [r EXCEPT !.lastNow = now]
  BY DEF Observe
<1>4. r \in Controller
  BY <1>2 DEF Sound
<1>5. /\ d.lastNow = now /\ d.identity = r.identity /\ d.leases = r.leases
      /\ d.windows = r.windows /\ d.active = r.active /\ d \in Controller
  <2> HIDE DEF r, d
  <2> QED BY <1>3, <1>4 DEF Controller
<1>6. Sound(d)
  <2> HIDE DEF r, d
  <2> QED BY <1>2, <1>5 DEF Sound, Identified, Counted, Limited, Enclosed
<1>7. d.leases = {l \in c.leases : ~(l.expires <= now)}
  <2> HIDE DEF r, d
  <2> QED BY <1>2, <1>5
<1>8. Follows(c, d, {})
  <2>1. now >= c.lastNow
    BY <1>0 DEF Regresses
  <2>2. \A l \in c.leases : l.expires \in Nat
    BY <1>0, LeaseTypes
  <2> HIDE DEF r, d
  <2> QED BY <1>0, <1>2, <1>5, <1>7, <2>1, <2>2 DEF Follows
<1> QED BY <1>2, <1>5, <1>6, <1>7, <1>8

-----------------------------------------------------------------------------
(* Admission.                                                              *)

\* A window is restarted only when nothing pends in it.
LEMMA PrepareKeeps ==
    ASSUME NEW c, Sound(c), NEW now \in Instant, \A l \in c.leases : ~(l.expires <= now),
           NEW keys \in SUBSET LimitKeys, ~WindowsOverflow(keys, now)
    PROVE  LET d == PrepareWindows(c, keys, now) IN
           /\ Sound(d)
           /\ d.lastNow = c.lastNow /\ d.identity = c.identity /\ d.leases = c.leases
           /\ \A k \in Rated(keys) : d.windows[k].ends > now
<1> DEFINE d == PrepareWindows(c, keys, now)
           Restarts(k) == k \in Rated(keys) /\ c.windows[k].ends <= now
<1>0. /\ c \in Controller /\ c.windows \in Windows /\ c.active \in [LimitKeys -> Nat]
      /\ IsFiniteSet(c.leases) /\ c.leases \in SUBSET RateLease
  BY DEF Sound, Identified, Controller
<1>1. /\ d.lastNow = c.lastNow /\ d.identity = c.identity
      /\ d.leases = c.leases /\ d.active = c.active
      /\ d.windows = [k \in LimitKeys |->
            IF Restarts(k) THEN [ends |-> now + RateWindow[k], committed |-> 0, pending |-> 0]
            ELSE c.windows[k]]
      /\ IsController(d)
  <2>1. PICK W : W = [k \in LimitKeys |->
            IF Restarts(k) THEN [ends |-> now + RateWindow[k], committed |-> 0, pending |-> 0]
            ELSE c.windows[k]]
    OBVIOUS
  <2>2. d = [c EXCEPT !.windows = W]
    BY <2>1 DEF PrepareWindows
  <2> HIDE DEF d, Restarts
  <2>3. /\ d.lastNow = c.lastNow /\ d.identity = c.identity
        /\ d.windows = W /\ d.active = c.active /\ d.leases = c.leases
        /\ IsController(d)
    BY <1>0, <2>2 DEF Controller, IsController
  <2> QED BY <2>1, <2>3
<1> HIDE DEF d
<1>2. \A k \in LimitKeys : /\ RateWindow[k] \in Nat /\ RateWindow[k] > 0
                           /\ RateCapacity[k] \in Nat /\ ConcurrencyLimit[k] \in Nat
  BY RateAssumption DEF ValidLimits
<1>3. now \in Nat /\ MaxInstant \in Nat
  BY RateAssumption DEF Instant
<1>4. ASSUME NEW k \in LimitKeys, Restarts(k)
      PROVE  /\ d.windows[k] = [ends |-> now + RateWindow[k], committed |-> 0, pending |-> 0]
             /\ now + RateWindow[k] \in Instant
             /\ PendingUnits(c.leases, k) = 0
             /\ \A l \in c.leases : k \notin Rated(l.keys)
  <2>1. now + RateWindow[k] \in Instant
    <3>1. ~(now + RateWindow[k] > MaxInstant)
      BY <1>4 DEF WindowsOverflow
    <3> QED BY <1>2, <1>3, <3>1 DEF Instant
  <2>2. ASSUME NEW l \in c.leases, k \in Rated(l.keys) PROVE FALSE
    <3>1. l.expires <= c.windows[k].ends
      BY <2>2 DEF Sound, Enclosed
    <3>2. l.expires \in Nat /\ c.windows[k].ends \in Nat
      BY <1>0, LeaseTypes DEF Windows, Instant
    <3> QED BY <1>3, <1>4, <3>1, <3>2
  <2> QED BY <1>0, <1>1, <1>4, <2>1, <2>2, CountsNone
<1>5. ASSUME NEW k \in LimitKeys, ~Restarts(k) PROVE d.windows[k] = c.windows[k]
  BY <1>1, <1>5
<1> HIDE DEF Restarts
<1>6. ASSUME NEW k \in LimitKeys
      PROVE  d.windows[k] \in [ends : Instant, committed : Nat, pending : Nat]
  <2>1. CASE Restarts(k)
    <3>1. d.windows[k] = [ends |-> now + RateWindow[k], committed |-> 0, pending |-> 0]
      BY <1>4, <2>1
    <3>2. now + RateWindow[k] \in Instant
      BY <1>4, <2>1
    <3> QED BY <3>1, <3>2
  <2>2. CASE ~Restarts(k)
    BY <1>0, <1>5, <2>2 DEF Windows
  <2> QED BY <2>1, <2>2
<1>7. d \in Controller
  <2>1. d.windows \in Windows
    BY <1>1, <1>6 DEF Windows
  <2> QED BY <1>0, <1>1, <2>1 DEF Controller, IsController
<1>8. Counted(d) /\ Limited(d)
  <2> SUFFICES ASSUME NEW k \in LimitKeys
               PROVE  /\ d.windows[k].pending = PendingUnits(d.leases, k)
                      /\ d.active[k] = Permits(d.leases, k)
                      /\ d.windows[k].committed + d.windows[k].pending <= RateCapacity[k]
                      /\ d.active[k] <= ConcurrencyLimit[k]
    BY DEF Counted, Limited
  <2>1. d.active[k] = Permits(d.leases, k) /\ d.active[k] <= ConcurrencyLimit[k]
    BY <1>1 DEF Sound, Counted, Limited
  <2>2. CASE Restarts(k)
    BY <1>1, <1>2, <1>4, <2>1, <2>2
  <2>3. CASE ~Restarts(k)
    BY <1>1, <1>5, <2>1, <2>3 DEF Sound, Counted, Limited
  <2> QED BY <2>2, <2>3
<1>9. Enclosed(d)
  <2>1. \A l \in d.leases : \A k \in Rated(l.keys) : k \in LimitKeys
    BY <1>0, <1>1 DEF Rated, RateLease
  <2> QED BY <1>1, <1>4, <1>5, <2>1 DEF Sound, Enclosed
<1>10. Identified(d)
  BY <1>1 DEF Sound, Identified
<1>11. ASSUME NEW k \in Rated(keys) PROVE d.windows[k].ends > now
  <2>1. k \in LimitKeys
    BY DEF Rated
  <2>2. c.windows[k].ends \in Nat
    BY <1>0, <2>1 DEF Windows, Instant
  <2>3. CASE Restarts(k)
    <3>1. d.windows[k] = [ends |-> now + RateWindow[k], committed |-> 0, pending |-> 0]
      BY <1>4, <2>1, <2>3
    <3>2. now + RateWindow[k] > now
      BY <1>2, <1>3, <2>1
    <3> QED BY <3>1, <3>2
  <2>4. CASE ~Restarts(k)
    BY <1>3, <1>5, <2>1, <2>2, <2>4 DEF Restarts
  <2> QED BY <2>3, <2>4
<1> QED BY <1>1, <1>7, <1>8, <1>9, <1>10, <1>11 DEF Sound, d

\* allocate_identities.
LEMMA AllocateKeeps ==
    ASSUME NEW c, Sound(c), ~(c.identity + 2 > MaxIdentity)
    PROVE  LET d == Allocate(c) IN
           /\ Sound(d)
           /\ d.lastNow = c.lastNow /\ d.identity = c.identity + 2 /\ d.leases = c.leases
           /\ d.windows = c.windows /\ d.active = c.active
           /\ \A l \in d.leases : l.id < d.identity
           /\ d.identity > 0
<1> DEFINE d == Allocate(c)
<1>0. c \in Controller /\ c.identity \in Nat
  BY RateAssumption DEF Sound, Controller
<1>1. /\ d.lastNow = c.lastNow /\ d.identity = c.identity + 2 /\ d.leases = c.leases
      /\ d.windows = c.windows /\ d.active = c.active
      /\ IsController(d)
  BY <1>0 DEF Allocate, Controller, IsController
<1>2. d.identity \in 0..MaxIdentity
  BY <1>0, <1>1, RateAssumption
<1> HIDE DEF d
<1>3. d \in Controller
  BY <1>0, <1>1, <1>2 DEF Controller, IsController
<1>4. \A l \in d.leases : l.id < d.identity /\ l.id <= d.identity
  <2> SUFFICES ASSUME NEW l \in c.leases PROVE l.id < d.identity /\ l.id <= d.identity
    BY <1>1
  <2>1. l.id \in Nat /\ l.id <= c.identity
    BY <1>0, LeaseTypes DEF Sound, Identified
  <2> QED BY <1>0, <1>1, <2>1
<1>5. Sound(d)
  BY <1>1, <1>3, <1>4 DEF Sound, Identified, Counted, Limited, Enclosed
<1> QED BY <1>0, <1>1, <1>4, <1>5 DEF d

\* reserve: the lease's units and permits fit below the limits.
LEMMA GrantKeeps ==
    ASSUME NEW c, Sound(c), \A l \in c.leases : l.id < c.identity, c.identity > 0,
           NEW req \in RateRequest, ~RateExceeded(c, req), ~ConcurrencyExceeded(c, req),
           NEW expires \in Instant, \A k \in Rated(req.keys) : expires <= c.windows[k].ends
    PROVE  LET d == Grant(c, req, expires) IN
           /\ Sound(d)
           /\ d.lastNow = c.lastNow /\ d.identity = c.identity
           /\ \E l : l.id = c.identity /\ d.leases = c.leases \cup {l}
<1> DEFINE d == Grant(c, req, expires)
           l == [id |-> c.identity, keys |-> req.keys, units |-> req.units,
                 expires |-> expires, charged |-> FALSE]
<1>0. /\ c \in Controller /\ c.windows \in Windows /\ c.active \in [LimitKeys -> Nat]
      /\ IsFiniteSet(c.leases) /\ c.leases \in SUBSET RateLease /\ c.identity \in 0..MaxIdentity
  BY DEF Sound, Identified, Controller
<1>1. req.keys \in SUBSET LimitKeys /\ req.units \in Nat \ {0}
  BY DEF RateRequest
<1>2. /\ l \in RateLease
      /\ l.id = c.identity /\ l.keys = req.keys /\ l.units = req.units
      /\ l.expires = expires /\ ~l.charged
  <2>1. c.identity \in 1..MaxIdentity
    BY <1>0, RateAssumption
  <2> QED BY <1>1, <2>1 DEF RateLease
<1>3. /\ d.lastNow = c.lastNow /\ d.identity = c.identity
      /\ d.leases = c.leases \cup {l}
      /\ d.active = [k \in LimitKeys |->
            IF k \in Permitted(req.keys) THEN c.active[k] + 1 ELSE c.active[k]]
      /\ d.windows = [k \in LimitKeys |->
            IF k \in Rated(req.keys) THEN [c.windows[k] EXCEPT !.pending = @ + req.units]
            ELSE c.windows[k]]
      /\ IsController(d)
  <2>1. PICK W, A :
          /\ W = [k \in LimitKeys |->
               IF k \in Rated(req.keys) THEN [c.windows[k] EXCEPT !.pending = @ + req.units]
               ELSE c.windows[k]]
          /\ A = [k \in LimitKeys |->
               IF k \in Permitted(req.keys) THEN c.active[k] + 1 ELSE c.active[k]]
    OBVIOUS
  <2>2. d = [c EXCEPT !.windows = W, !.active = A, !.leases = c.leases \cup {l}]
    BY <2>1 DEF Grant
  <2> HIDE DEF d, l
  <2>3. /\ d.lastNow = c.lastNow /\ d.identity = c.identity
        /\ d.windows = W /\ d.active = A /\ d.leases = c.leases \cup {l}
        /\ IsController(d)
    BY <1>0, <2>2 DEF Controller, IsController
  <2> QED BY <2>1, <2>3
<1> HIDE DEF d, l
<1>4. l \notin c.leases
  BY <1>0, <1>2, RateAssumption
<1>5. IsFiniteSet(d.leases) /\ d.leases \in SUBSET RateLease
  BY <1>0, <1>2, <1>3, FS_AddElement
<1>6. ASSUME NEW k \in LimitKeys
      PROVE  /\ d.windows[k] \in [ends : Instant, committed : Nat, pending : Nat]
             /\ d.windows[k].ends = c.windows[k].ends
             /\ d.windows[k].committed = c.windows[k].committed
             /\ d.windows[k].pending = PendingUnits(d.leases, k)
             /\ d.active[k] = Permits(d.leases, k)
             /\ d.windows[k].committed + d.windows[k].pending <= RateCapacity[k]
             /\ d.active[k] <= ConcurrencyLimit[k]
             /\ d.active[k] \in Nat
  <2>1. c.windows[k] \in [ends : Instant, committed : Nat, pending : Nat] /\ c.active[k] \in Nat
    BY <1>0 DEF Windows
  <2>2. /\ c.windows[k].pending = PendingUnits(c.leases, k) /\ c.active[k] = Permits(c.leases, k)
        /\ c.windows[k].committed + c.windows[k].pending <= RateCapacity[k]
        /\ c.active[k] <= ConcurrencyLimit[k]
    BY DEF Sound, Counted, Limited
  <2>3. RateCapacity[k] \in Nat /\ ConcurrencyLimit[k] \in Nat
    BY RateAssumption DEF ValidLimits
  <2>4. /\ PendingUnits(d.leases, k) = PendingUnits({l}, k) + PendingUnits(c.leases, k)
        /\ Permits(d.leases, k) = Permits({l}, k) + Permits(c.leases, k)
    <3>1. {l} \in SUBSET d.leases /\ d.leases \ {l} = c.leases
      BY <1>3, <1>4
    <3>2. Splits(d.leases, {l}, k)
      BY <1>5, <3>1, CountsSplit
    <3> QED BY <3>1, <3>2 DEF Splits
  <2>5. /\ PendingUnits({l}, k) = IF k \in Rated(req.keys) THEN req.units ELSE 0
        /\ Permits({l}, k) = IF k \in Permitted(req.keys) THEN 1 ELSE 0
    BY <1>2, CountsOne
  <2>6. k \in Rated(req.keys) => c.windows[k].committed + c.windows[k].pending + req.units <= RateCapacity[k]
    <3> SUFFICES ASSUME k \in Rated(req.keys)
                 PROVE  c.windows[k].committed + c.windows[k].pending + req.units <= RateCapacity[k]
      OBVIOUS
    <3>1. ~(req.units > Monus(RateCapacity[k], c.windows[k].committed + c.windows[k].pending))
      BY DEF RateExceeded
    <3> QED BY <1>1, <2>1, <2>3, <3>1 DEF Monus
  <2>7. k \in Permitted(req.keys) => c.active[k] + 1 <= ConcurrencyLimit[k]
    BY <2>1, <2>3 DEF ConcurrencyExceeded
  <2>8. CASE k \in Rated(req.keys)
    <3>1. d.windows[k] = [c.windows[k] EXCEPT !.pending = @ + req.units]
      BY <1>3, <2>8
    <3>2. d.windows[k].pending = PendingUnits(d.leases, k)
      BY <1>1, <2>1, <2>2, <2>4, <2>5, <2>8, <3>1
    <3>3. /\ d.active[k] = Permits(d.leases, k) /\ d.active[k] <= ConcurrencyLimit[k]
          /\ d.active[k] \in Nat
      BY <1>3, <2>1, <2>2, <2>4, <2>5, <2>7
    <3> QED BY <1>1, <2>1, <2>3, <2>6, <2>8, <3>1, <3>2, <3>3
  <2>9. CASE k \notin Rated(req.keys)
    <3>1. d.windows[k] = c.windows[k]
      BY <1>3, <2>9
    <3>2. d.windows[k].pending = PendingUnits(d.leases, k)
      BY <1>1, <2>1, <2>2, <2>4, <2>5, <2>9, <3>1
    <3>3. /\ d.active[k] = Permits(d.leases, k) /\ d.active[k] <= ConcurrencyLimit[k]
          /\ d.active[k] \in Nat
      BY <1>3, <2>1, <2>2, <2>4, <2>5, <2>7
    <3> QED BY <2>1, <2>2, <3>1, <3>2, <3>3
  <2> QED BY <2>8, <2>9
<1>7. d \in Controller
  <2>1. d.windows \in Windows /\ d.active \in [LimitKeys -> Nat]
    BY <1>3, <1>6 DEF Windows
  <2>2. d.lastNow \in Instant /\ d.identity \in 0..MaxIdentity
    BY <1>0, <1>3 DEF Controller
  <2> QED BY <1>3, <1>5, <2>1, <2>2 DEF Controller, IsController
<1>8. Identified(d)
  <2>1. \A m \in c.leases : m.id \in Nat /\ m.id # c.identity
    BY <1>0, LeaseTypes
  <2>2. l.id = c.identity /\ c.identity \in Nat
    BY <1>0, <1>2, RateAssumption
  <2> QED BY <1>3, <1>5, <2>1, <2>2 DEF Sound, Identified
<1>9. Counted(d) /\ Limited(d)
  BY <1>6 DEF Counted, Limited
<1>10. Enclosed(d)
  <2> SUFFICES ASSUME NEW m \in d.leases, NEW k \in Rated(m.keys)
               PROVE  m.expires <= d.windows[k].ends
    BY DEF Enclosed
  <2>1. k \in LimitKeys
    BY <1>5 DEF Rated, RateLease
  <2>2. m.expires <= c.windows[k].ends
    BY <1>2, <1>3 DEF Sound, Enclosed
  <2> QED BY <1>6, <2>1, <2>2
<1> QED BY <1>2, <1>3, <1>7, <1>8, <1>9, <1>10 DEF Sound, d

\* The least of a set of instants.
LEMMA LeastIs ==
    ASSUME NEW S \in SUBSET Nat, S # {}
    PROVE  Min(S) \in S /\ \A x \in S : Min(S) <= x
<1>1. PICK x \in S : \A y \in S : ~(<<y, x>> \in OpToRel(<, Nat))
  BY NatLessThanWellFounded, WFMin
<1>2. ASSUME NEW y \in S PROVE x <= y
  <2>1. x \in Nat /\ y \in Nat
    OBVIOUS
  <2>2. ~(<<y, x>> \in OpToRel(<, Nat))
    BY <1>1
  <2>3. ~(y < x)
    BY <2>1, <2>2 DEF OpToRel
  <2> QED BY <2>1, <2>3
<1> QED BY <1>2 DEF Min

\* lease_expiry: an instant no later than the end of any window of the lease.
LEMMA ExpiryIs ==
    ASSUME NEW c, Sound(c), NEW keys \in SUBSET LimitKeys, keys # {}, NEW now \in Instant,
           ~(\E k \in Permitted(keys) : now + LeaseDuration[k] > MaxInstant)
    PROVE  /\ LeaseExpiry(c, keys, now) \in Instant
           /\ \A k \in Rated(keys) : LeaseExpiry(c, keys, now) <= c.windows[k].ends
<1> DEFINE S == {c.windows[k].ends : k \in Rated(keys)}
                \cup {now + LeaseDuration[k] : k \in Permitted(keys)}
<1>1. now \in Nat /\ MaxInstant \in Nat
  BY RateAssumption DEF Instant
<1>2. \A k \in Rated(keys) : c.windows[k].ends \in Instant
  BY DEF Sound, Controller, Windows, Rated
<1>3. ASSUME NEW k \in Permitted(keys) PROVE now + LeaseDuration[k] \in Instant
  <2>1. LeaseDuration[k] \in Nat
    BY RateAssumption DEF ValidLimits, Permitted
  <2> QED BY <1>1, <2>1 DEF Instant
<1>4. S \in SUBSET Instant /\ S \in SUBSET Nat
  BY <1>2, <1>3 DEF Instant
<1>5. S # {}
  <2>1. PICK k \in keys : TRUE
    OBVIOUS
  <2>2. k \in Rated(keys) \/ k \in Permitted(keys)
    BY RateAssumption DEF ValidLimits, Rated, Permitted
  <2> QED BY <2>2
<1>6. LeaseExpiry(c, keys, now) = Min(S)
  BY DEF LeaseExpiry
<1>7. \A k \in Rated(keys) : c.windows[k].ends \in S
  OBVIOUS
<1> HIDE DEF S
<1>8. Min(S) \in S /\ \A x \in S : Min(S) <= x
  BY <1>4, <1>5, LeastIs
<1> QED BY <1>4, <1>6, <1>7, <1>8

\* Windows and identities do not matter to those who follow leases.
LEMMA FollowsSame ==
    ASSUME NEW c \in Controller, NEW d \in Controller, NEW e \in Controller,
           NEW x, Follows(c, d, x),
           e.leases = d.leases, e.lastNow = d.lastNow, e.identity >= d.identity
    PROVE  Follows(c, e, x)
<1>1. c.identity \in Nat /\ d.identity \in Nat /\ e.identity \in Nat
  BY RateAssumption DEF Controller
<1> QED BY <1>1 DEF Follows

LEMMA FollowsItself ==
    ASSUME NEW c \in Controller
    PROVE  Follows(c, c, {})
<1>1. c.identity \in Nat /\ c.lastNow \in Nat
  BY RateAssumption DEF Controller, Instant
<1> QED BY <1>1 DEF Follows

\* d is c with one lease more, of a new identity.
Admits(c, d) ==
    /\ d.identity > c.identity
    /\ d.lastNow >= c.lastNow
    /\ \A l \in c.leases : \/ d.lastNow >= l.expires
                           \/ \E m \in d.leases : m.id = l.id /\ m.expires = l.expires
    /\ \A m \in d.leases : m.id = d.identity \/ \E l \in c.leases : l.id = m.id

LEMMA AdmitKeeps ==
    ASSUME NEW c, Sound(c), NEW req \in RateRequest, NEW now \in Instant
    PROVE  LET a == TryAdmit(c, req, now) IN
           /\ Sound(a.ctl)
           /\ a.code # "Ok" => Follows(c, a.ctl, {})
           /\ a.code = "Ok" => Admits(c, a.ctl)
<1> DEFINE a == TryAdmit(c, req, now)
           Kept == /\ Sound(a.ctl)
                   /\ a.code # "Ok" => Follows(c, a.ctl, {})
                   /\ a.code = "Ok" => Admits(c, a.ctl)
<1>0. c \in Controller /\ req.keys \in SUBSET LimitKeys /\ req.keys # {} /\ now \in Nat
  BY RateAssumption DEF Sound, RateRequest, Instant
<1>1. CASE Regresses(c, now)
  <2>1. a.ctl = c /\ a.code = "ClockRegressed"
    BY <1>1 DEF TryAdmit, Answer
  <2> HIDE DEF a
  <2> QED BY <1>0, <2>1, FollowsItself DEF a
<1>2. CASE ~Regresses(c, now)
  <2>1. PICK o : o = Observe(c, now)
    OBVIOUS
  <2>2. /\ Sound(o) /\ Follows(c, o, {}) /\ o.lastNow = now /\ o.identity = c.identity
        /\ o.leases = {l \in c.leases : ~(l.expires <= now)}
    BY <1>2, <2>1, ObserveKeeps
  <2>3. CASE WindowsOverflow(req.keys, now)
    <3>1. a.ctl = o /\ a.code = "CounterExhausted"
      BY <1>2, <2>1, <2>3 DEF TryAdmit, Answer
    <3> HIDE DEF a
    <3> QED BY <2>2, <3>1 DEF a
  <2>4. CASE ~WindowsOverflow(req.keys, now)
    <3>1. PICK p : p = PrepareWindows(o, req.keys, now)
      OBVIOUS
    <3>2. \A l \in o.leases : ~(l.expires <= now)
      BY <2>2
    <3>3. /\ Sound(p) /\ p.lastNow = o.lastNow /\ p.identity = o.identity /\ p.leases = o.leases
          /\ \A k \in Rated(req.keys) : p.windows[k].ends > now
      BY <1>0, <2>2, <2>4, <3>1, <3>2, PrepareKeeps
    <3>4. o \in Controller /\ p \in Controller /\ o.identity \in Nat
      BY <2>2, <3>3, RateAssumption DEF Sound, Controller
    <3>5. Follows(c, p, {})
      <4>1. p.identity >= o.identity
        BY <3>3, <3>4
      <4> QED BY <1>0, <2>2, <3>3, <3>4, <4>1, FollowsSame
    <3>6. CASE \/ RateExceeded(p, req)
               \/ ConcurrencyExceeded(p, req)
               \/ p.identity + 2 > MaxIdentity
      <4>1. a.ctl = p /\ a.code # "Ok"
        BY <1>2, <2>1, <2>4, <3>1, <3>6 DEF TryAdmit, Answer
      <4> HIDE DEF a
      <4> QED BY <3>3, <3>5, <4>1 DEF a
    <3>7. CASE /\ ~RateExceeded(p, req)
               /\ ~ConcurrencyExceeded(p, req)
               /\ ~(p.identity + 2 > MaxIdentity)
      <4>1. PICK q : q = Allocate(p)
        OBVIOUS
      <4>2. /\ Sound(q)
            /\ q.lastNow = p.lastNow /\ q.identity = p.identity + 2 /\ q.leases = p.leases
            /\ q.windows = p.windows /\ q.active = p.active
            /\ \A l \in q.leases : l.id < q.identity
            /\ q.identity > 0
        BY <3>3, <3>7, <4>1, AllocateKeeps
      <4>3. q \in Controller /\ p.identity \in Nat /\ q.identity \in Nat /\ c.identity \in Nat
        BY <1>0, <3>4, <4>2, RateAssumption DEF Sound, Controller
      <4>4. Follows(c, q, {})
        <5>1. q.identity >= p.identity
          BY <4>2, <4>3
        <5> QED BY <1>0, <3>4, <3>5, <4>2, <4>3, <5>1, FollowsSame
      <4>5. CASE \E k \in Permitted(req.keys) : now + LeaseDuration[k] > MaxInstant
        <5>1. a.ctl = q /\ a.code = "CounterExhausted"
          BY <1>2, <2>1, <2>4, <3>1, <3>7, <4>1, <4>5 DEF TryAdmit, Answer
        <5> HIDE DEF a
        <5> QED BY <4>2, <4>4, <5>1 DEF a
      <4>6. CASE ~(\E k \in Permitted(req.keys) : now + LeaseDuration[k] > MaxInstant)
        <5>1. PICK x : x = LeaseExpiry(p, req.keys, now)
          OBVIOUS
        <5>2. x \in Instant /\ \A k \in Rated(req.keys) : x <= q.windows[k].ends
          BY <1>0, <3>3, <4>2, <4>6, <5>1, ExpiryIs
        <5>3. ~RateExceeded(q, req) /\ ~ConcurrencyExceeded(q, req)
          BY <3>7, <4>2 DEF RateExceeded, ConcurrencyExceeded
        <5>4. PICK g : g = Grant(q, req, x)
          OBVIOUS
        <5>5. /\ Sound(g) /\ g.lastNow = q.lastNow /\ g.identity = q.identity
              /\ \E l : l.id = q.identity /\ g.leases = q.leases \cup {l}
          BY <4>2, <5>2, <5>3, <5>4, GrantKeeps
        <5>6. Admits(c, g)
          <6>1. PICK l : l.id = q.identity /\ g.leases = q.leases \cup {l}
            BY <5>5
          <6>2. g.identity > c.identity
            BY <2>2, <3>3, <4>2, <4>3, <5>5
          <6>3. \A m \in g.leases : m.id = g.identity \/ \E n \in c.leases : n.id = m.id
            BY <4>4, <5>5, <6>1 DEF Follows
          <6>4. \A m \in q.leases : m \in g.leases
            BY <6>1
          <6> QED BY <4>4, <5>5, <6>2, <6>3, <6>4 DEF Admits, Follows
        <5>7. a.ctl = g /\ a.code = "Ok"
          BY <1>2, <2>1, <2>4, <3>1, <3>7, <4>1, <4>6, <5>1, <5>4 DEF TryAdmit, Answer
        <5> HIDE DEF a
        <5> QED BY <5>5, <5>6, <5>7 DEF a
      <4> QED BY <4>5, <4>6
    <3> QED BY <3>6, <3>7
  <2> QED BY <2>3, <2>4
<1> QED BY <1>1, <1>2

-----------------------------------------------------------------------------
(* What holders do.                                                        *)

\* commit_rate: pending units become charged ones, and nothing else changes.
LEMMA ChargeKeeps ==
    ASSUME NEW c, Sound(c), NEW id
    PROVE  LET d == ChargeUnits(c, id) IN
           /\ Sound(d)
           /\ Follows(c, d, {})
           /\ d.lastNow = c.lastNow /\ d.identity = c.identity
<1> DEFINE d == ChargeUnits(c, id)
<1>0. /\ c \in Controller /\ c.windows \in Windows /\ c.active \in [LimitKeys -> Nat]
      /\ IsFiniteSet(c.leases) /\ c.leases \in SUBSET RateLease
  BY DEF Sound, Identified, Controller
<1>1. CASE LeaseOf(c, id) = {}
  <2>1. \A l \in c.leases : l.id # id
    BY <1>1 DEF LeaseOf
  <2>2. {IF l.id = id THEN [l EXCEPT !.charged = TRUE] ELSE l : l \in c.leases} = c.leases
    BY <2>1
  <2>3. [k \in LimitKeys |->
            IF \E l \in LeaseOf(c, id) : ~l.charged /\ k \in Rated(l.keys)
            THEN LET units == (CHOOSE l \in LeaseOf(c, id) : TRUE).units
                 IN [c.windows[k] EXCEPT !.pending = Monus(@, units), !.committed = @ + units]
            ELSE c.windows[k]] = c.windows
    BY <1>0, <1>1 DEF Windows
  <2>4. d = [c EXCEPT !.windows = c.windows, !.leases = c.leases]
    BY <2>2, <2>3 DEF ChargeUnits
  <2>5. d = c
    BY <1>0, <2>4 DEF Controller
  <2> QED BY <1>0, <2>5, FollowsItself
<1>2. CASE LeaseOf(c, id) # {}
  <2>1. PICK l \in c.leases : l.id = id
    BY <1>2 DEF LeaseOf
  <2>2. LeaseOf(c, id) = {l}
    BY <2>1 DEF LeaseOf, Sound, Identified
  <2> DEFINE n == [l EXCEPT !.charged = TRUE]
             Charges(k) == ~l.charged /\ k \in Rated(l.keys)
  <2>3. l \in RateLease
    BY <1>0
  <2>4. /\ n \in RateLease /\ n.id = l.id /\ n.keys = l.keys /\ n.expires = l.expires
        /\ n.charged = TRUE
    BY <2>3 DEF RateLease
  <2> HIDE DEF n
  <2>5. {IF m.id = id THEN [m EXCEPT !.charged = TRUE] ELSE m : m \in c.leases}
          = (c.leases \ {l}) \cup {n}
    <3>1. \A m \in c.leases : m.id = id <=> m = l
      BY <2>1 DEF Sound, Identified
    <3>2. {IF m.id = id THEN [m EXCEPT !.charged = TRUE] ELSE m : m \in c.leases}
            = {IF m = l THEN n ELSE m : m \in c.leases}
      BY <3>1 DEF n
    <3>3. {IF m = l THEN n ELSE m : m \in c.leases} = (c.leases \ {l}) \cup {n}
      BY <2>1
    <3> QED BY <3>2, <3>3
  <2>6. (CHOOSE m \in LeaseOf(c, id) : TRUE) = l
    BY <2>2
  <2>7. /\ d.lastNow = c.lastNow /\ d.identity = c.identity /\ d.active = c.active
        /\ d.leases = (c.leases \ {l}) \cup {n}
        /\ d.windows = [k \in LimitKeys |->
              IF Charges(k)
              THEN [c.windows[k] EXCEPT !.pending = Monus(@, l.units), !.committed = @ + l.units]
              ELSE c.windows[k]]
        /\ IsController(d)
    <3>1. PICK W : W = [k \in LimitKeys |->
              IF Charges(k)
              THEN [c.windows[k] EXCEPT !.pending = Monus(@, l.units), !.committed = @ + l.units]
              ELSE c.windows[k]]
      OBVIOUS
    <3>2. d = [c EXCEPT !.windows = W, !.leases = (c.leases \ {l}) \cup {n}]
      BY <2>2, <2>5, <2>6, <3>1 DEF ChargeUnits
    <3> HIDE DEF d, Charges
    <3>3. /\ d.lastNow = c.lastNow /\ d.identity = c.identity
          /\ d.windows = W /\ d.active = c.active /\ d.leases = (c.leases \ {l}) \cup {n}
          /\ IsController(d)
      BY <1>0, <3>2 DEF Controller, IsController
    <3> QED BY <3>1, <3>3
  <2> HIDE DEF d
  <2>8. n \notin c.leases \ {l}
    BY <2>1, <2>4 DEF Sound, Identified
  <2>9. IsFiniteSet(d.leases) /\ d.leases \in SUBSET RateLease
    <3>1. IsFiniteSet(c.leases \ {l})
      BY <1>0, FS_RemoveElement
    <3>2. IsFiniteSet((c.leases \ {l}) \cup {n})
      BY <3>1, FS_AddElement
    <3> QED BY <1>0, <2>4, <2>7, <3>2
  <2>10. ASSUME NEW k \in LimitKeys
         PROVE  /\ d.windows[k] \in [ends : Instant, committed : Nat, pending : Nat]
                /\ d.windows[k].ends = c.windows[k].ends
                /\ d.windows[k].committed + d.windows[k].pending
                     = c.windows[k].committed + c.windows[k].pending
                /\ d.windows[k].pending = PendingUnits(d.leases, k)
                /\ d.active[k] = Permits(d.leases, k)
    <3>1. c.windows[k] \in [ends : Instant, committed : Nat, pending : Nat] /\ c.active[k] \in Nat
      BY <1>0 DEF Windows
    <3>2. /\ c.windows[k].pending = PendingUnits(c.leases, k)
          /\ c.active[k] = Permits(c.leases, k)
      BY DEF Sound, Counted
    <3>3. PICK R : R = c.leases \ {l}
      OBVIOUS
    <3>4. {l} \in SUBSET c.leases /\ {n} \in SUBSET d.leases /\ d.leases \ {n} = R
      BY <2>1, <2>7, <2>8, <3>3
    <3>5. Splits(c.leases, {l}, k) /\ Splits(d.leases, {n}, k)
      BY <1>0, <2>9, <3>4, CountsSplit
    <3>6. /\ PendingUnits({l}, k) = IF Charges(k) THEN l.units ELSE 0
          /\ PendingUnits({n}, k) = 0
          /\ Permits({l}, k) = Permits({n}, k)
      BY <2>3, <2>4, CountsOne
    <3>7. /\ PendingUnits(c.leases, k) = PendingUnits({l}, k) + PendingUnits(R, k)
          /\ Permits(c.leases, k) = Permits({l}, k) + Permits(R, k)
          /\ PendingUnits(d.leases, k) = PendingUnits({n}, k) + PendingUnits(R, k)
          /\ Permits(d.leases, k) = Permits({n}, k) + Permits(R, k)
          /\ PendingUnits(R, k) \in Nat
      BY <3>3, <3>4, <3>5 DEF Splits
    <3>8. l.units \in Nat
      BY <2>3 DEF RateLease
    <3>9. d.active[k] = Permits(d.leases, k)
      BY <2>7, <3>2, <3>6, <3>7
    <3> HIDE DEF Charges
    <3>10. CASE Charges(k)
      <4>1. d.windows[k] = [c.windows[k] EXCEPT !.pending = Monus(@, l.units), !.committed = @ + l.units]
        BY <2>7, <3>10
      <4>2. PendingUnits(d.leases, k) = PendingUnits(R, k) /\ c.windows[k].pending = l.units + PendingUnits(R, k)
        BY <3>2, <3>6, <3>7, <3>10
      <4>3. Monus(c.windows[k].pending, l.units) = PendingUnits(R, k)
        BY <3>7, <3>8, <4>2 DEF Monus
      <4>4. /\ d.windows[k].ends = c.windows[k].ends
            /\ d.windows[k].committed = c.windows[k].committed + l.units
            /\ d.windows[k].pending = PendingUnits(R, k)
            /\ d.windows[k] \in [ends : Instant, committed : Nat, pending : Nat]
        <5>1. PICK w, v, p : w = c.windows[k] /\ v = d.windows[k] /\ p = Monus(w.pending, l.units)
          OBVIOUS
        <5>2. v = [w EXCEPT !.pending = p, !.committed = @ + l.units]
          BY <4>1, <5>1
        <5>3. w \in [ends : Instant, committed : Nat, pending : Nat] /\ p \in Nat
          BY <3>1, <3>7, <4>3, <5>1
        <5>4. v = [ends |-> w.ends, committed |-> w.committed + l.units, pending |-> p]
          BY <5>2, <5>3
        <5> QED BY <3>8, <4>3, <5>1, <5>3, <5>4
      <4>5. c.windows[k].committed \in Nat
        BY <3>1
      <4> QED BY <3>7, <3>8, <3>9, <4>2, <4>4, <4>5
    <3>11. CASE ~Charges(k)
      <4>1. d.windows[k] = c.windows[k]
        BY <2>7, <3>11
      <4>2. PendingUnits(d.leases, k) = PendingUnits(c.leases, k)
        BY <3>6, <3>7, <3>11
      <4> QED BY <3>1, <3>2, <3>9, <4>1, <4>2
    <3> QED BY <3>10, <3>11
  <2> HIDE DEF Charges
  <2>11. d \in Controller
    <3>1. d.windows \in Windows
      BY <2>7, <2>10 DEF Windows
    <3>2. d.lastNow \in Instant /\ d.identity \in 0..MaxIdentity
      BY <1>0, <2>7 DEF Controller
    <3> QED BY <1>0, <2>7, <2>9, <3>1, <3>2 DEF Controller, IsController
  <2>12. Identified(d)
    BY <2>1, <2>4, <2>7, <2>9 DEF Sound, Identified
  <2>13. Counted(d)
    BY <2>10 DEF Counted
  <2>14. Limited(d)
    BY <2>7, <2>10 DEF Sound, Limited
  <2>15. Enclosed(d)
    <3> SUFFICES ASSUME NEW m \in d.leases, NEW k \in Rated(m.keys)
                 PROVE  m.expires <= d.windows[k].ends
      BY DEF Enclosed
    <3>1. k \in LimitKeys
      BY <2>9 DEF Rated, RateLease
    <3>2. m.expires <= c.windows[k].ends
      BY <2>1, <2>4, <2>7 DEF Sound, Enclosed
    <3> QED BY <2>10, <3>1, <3>2
  <2>16. Follows(c, d, {})
    <3>1. c.lastNow \in Nat /\ c.identity \in Nat
      BY <1>0, RateAssumption DEF Controller, Instant
    <3>2. \A m \in c.leases : \E o \in d.leases : o.id = m.id /\ o.expires = m.expires
      BY <2>4, <2>7
    <3>3. \A o \in d.leases : \E m \in c.leases : m.id = o.id
      BY <2>1, <2>4, <2>7
    <3>4. d.lastNow >= c.lastNow /\ d.identity >= c.identity
      <4>1. d.lastNow = c.lastNow /\ d.identity = c.identity
        BY <2>7
      <4> QED BY <3>1, <4>1
    <3> QED BY <3>2, <3>3, <3>4 DEF Follows
  <2> QED BY <2>7, <2>11, <2>12, <2>13, <2>14, <2>15, <2>16 DEF Sound, d
<1> QED BY <1>1, <1>2

\* snapshot.
LEMMA InspectKeeps ==
    ASSUME NEW c, Sound(c), NEW k \in LimitKeys, NEW now \in Instant
    PROVE  LET d == Inspect(c, k, now).ctl IN Sound(d) /\ Follows(c, d, {})
<1> DEFINE d == Inspect(c, k, now).ctl
<1>0. c \in Controller /\ {k} \in SUBSET LimitKeys
  BY DEF Sound
<1>1. CASE Regresses(c, now)
  <2>1. d = c
    BY <1>1 DEF Inspect, Answer
  <2> QED BY <1>0, <2>1, FollowsItself
<1>2. CASE ~Regresses(c, now)
  <2>1. PICK o : o = Observe(c, now)
    OBVIOUS
  <2>2. /\ Sound(o) /\ Follows(c, o, {}) /\ o.lastNow = now
        /\ o.leases = {l \in c.leases : ~(l.expires <= now)}
    BY <1>2, <2>1, ObserveKeeps
  <2>3. CASE WindowsOverflow({k}, now)
    <3>1. d = o
      BY <1>2, <2>1, <2>3 DEF Inspect, Answer
    <3> QED BY <2>2, <3>1
  <2>4. CASE ~WindowsOverflow({k}, now)
    <3>1. PICK p : p = PrepareWindows(o, {k}, now)
      OBVIOUS
    <3>2. \A l \in o.leases : ~(l.expires <= now)
      BY <2>2
    <3>3. Sound(p) /\ p.lastNow = o.lastNow /\ p.identity = o.identity /\ p.leases = o.leases
      BY <1>0, <2>2, <2>4, <3>1, <3>2, PrepareKeeps
    <3>4. o \in Controller /\ p \in Controller /\ o.identity \in Nat
      BY <2>2, <3>3, RateAssumption DEF Sound, Controller
    <3>5. p.identity >= o.identity
      BY <3>3, <3>4
    <3>6. Follows(c, p, {})
      BY <1>0, <2>2, <3>3, <3>4, <3>5, FollowsSame
    <3>7. d = p
      BY <1>2, <2>1, <2>4, <3>1 DEF Inspect, Answer
    <3> QED BY <3>3, <3>6, <3>7
  <2> QED BY <2>3, <2>4
<1> QED BY <1>1, <1>2

\* Removing the lease of one identity closes it and no other.
LEMMA CloseKeeps ==
    ASSUME NEW c, Sound(c), NEW id
    PROVE  LET d == RemoveLeases(c, LeaseOf(c, id)) IN
           /\ Sound(d) /\ Follows(c, d, {id})
           /\ \A l \in d.leases : l.id # id
<1> DEFINE d == RemoveLeases(c, LeaseOf(c, id))
<1>1. LeaseOf(c, id) \in SUBSET c.leases
  BY DEF LeaseOf
<1>2. /\ Sound(d)
      /\ d.lastNow = c.lastNow /\ d.identity = c.identity
      /\ d.leases = c.leases \ LeaseOf(c, id)
  BY <1>1, RemoveKeeps
<1> HIDE DEF d
<1>3. c.lastNow \in Nat /\ c.identity \in Nat
  BY RateAssumption DEF Sound, Controller, Instant
<1>4. d.lastNow >= c.lastNow /\ d.identity >= c.identity
  BY <1>2, <1>3
<1>5. Follows(c, d, {id})
  BY <1>2, <1>4 DEF Follows, LeaseOf
<1>6. \A l \in d.leases : l.id # id
  BY <1>2 DEF LeaseOf
<1> QED BY <1>2, <1>5, <1>6 DEF d

\* The lease is charged before the clock is looked at, so that nothing is refunded.
LEMMA ChargeObserveKeeps ==
    ASSUME NEW c, Sound(c), NEW id, NEW now \in Instant, ~Regresses(ChargeUnits(c, id), now)
    PROVE  LET o == Observe(ChargeUnits(c, id), now) IN Sound(o) /\ Follows(c, o, {})
<1>1. PICK h, o : h = ChargeUnits(c, id) /\ o = Observe(h, now)
  OBVIOUS
<1>2. Sound(h) /\ Follows(c, h, {})
  BY <1>1, ChargeKeeps
<1>3. Sound(o) /\ Follows(h, o, {})
  BY <1>1, <1>2, ObserveKeeps
<1>4. {} \cup {} = {} /\ c \in Controller /\ h \in Controller /\ o \in Controller
  BY <1>2, <1>3 DEF Sound
<1>5. Follows(c, o, {} \cup {})
  BY <1>2, <1>3, <1>4, FollowsComposes
<1>6. Follows(c, o, {})
  BY <1>4, <1>5
<1> QED BY <1>1, <1>3, <1>6

\* AdmissionLease::commit_rate.
LEMMA CommitKeeps ==
    ASSUME NEW c, Sound(c), NEW id, NEW now \in Instant
    PROVE  LET d == CommitRateAt(c, id, now).ctl IN Sound(d) /\ Follows(c, d, {})
<1> DEFINE d == CommitRateAt(c, id, now).ctl
<1>0. c \in Controller
  BY DEF Sound
<1>1. CASE Regresses(c, now)
  <2>1. d = c
    BY <1>1 DEF CommitRateAt, Answer
  <2> QED BY <1>0, <2>1, FollowsItself
<1>2. CASE ~Regresses(c, now)
  <2>1. PICK o : o = Observe(c, now)
    OBVIOUS
  <2>2. Sound(o) /\ Follows(c, o, {})
    BY <1>2, <2>1, ObserveKeeps
  <2>3. CASE LeaseOf(o, id) = {}
    <3>1. d = o
      BY <1>2, <2>1, <2>3 DEF CommitRateAt, CommitRate, Answer
    <3> QED BY <2>2, <3>1
  <2>4. CASE LeaseOf(o, id) # {}
    <3>1. PICK h : h = ChargeUnits(o, id)
      OBVIOUS
    <3>2. Sound(h) /\ Follows(o, h, {})
      BY <2>2, <3>1, ChargeKeeps
    <3>3. {} \cup {} = {} /\ o \in Controller /\ h \in Controller
      BY <2>2, <3>2 DEF Sound
    <3>4. Follows(c, h, {} \cup {})
      BY <1>0, <2>2, <3>2, <3>3, FollowsComposes
    <3>5. d = h
      BY <1>2, <2>1, <2>4, <3>1 DEF CommitRateAt, CommitRate, Answer
    <3>6. Follows(c, h, {})
      BY <3>3, <3>4
    <3> QED BY <3>2, <3>5, <3>6
  <2> QED BY <2>3, <2>4
<1> QED BY <1>1, <1>2

\* finalize_accepted: the lease is gone, or it is left to expire.
LEMMA FinalizeKeeps ==
    ASSUME NEW c, Sound(c), NEW id, NEW now \in Instant
    PROVE  LET a == FinalizeAccepted(c, id, now) IN
           /\ Sound(a.ctl)
           /\ a.code = "ReconciliationRequired" => Follows(c, a.ctl, {})
           /\ a.code # "ReconciliationRequired" =>
                Follows(c, a.ctl, {id}) /\ \A l \in a.ctl.leases : l.id # id
<1> DEFINE a == FinalizeAccepted(c, id, now)
<1>0. c \in Controller
  BY DEF Sound
<1>1. CASE LeaseOf(c, id) = {}
  <2>1. a.ctl = c /\ a.code = "LeaseExpired"
    BY <1>1 DEF FinalizeAccepted, Answer
  <2>2. Follows(c, c, {id})
    BY <1>0, FollowsItself DEF Follows
  <2>3. \A l \in c.leases : l.id # id
    BY <1>1 DEF LeaseOf
  <2> HIDE DEF a
  <2> QED BY <2>1, <2>2, <2>3 DEF a
<1>2. CASE LeaseOf(c, id) # {}
  <2>1. PICK h : h = ChargeUnits(c, id)
    OBVIOUS
  <2>2. Sound(h) /\ Follows(c, h, {})
    BY <2>1, ChargeKeeps
  <2>3. CASE Regresses(h, now)
    <3>1. a.ctl = h /\ a.code = "ReconciliationRequired"
      BY <1>2, <2>1, <2>3 DEF FinalizeAccepted, Answer
    <3> HIDE DEF a
    <3> QED BY <2>2, <3>1 DEF a
  <2>4. CASE ~Regresses(h, now)
    <3>1. PICK o : o = Observe(h, now)
      OBVIOUS
    <3>2. Sound(o) /\ Follows(c, o, {})
      BY <2>1, <2>4, <3>1, ChargeObserveKeeps
    <3>3. CASE LeaseOf(o, id) = {}
      <4>1. a.ctl = o /\ a.code = "LeaseExpired"
        BY <1>2, <2>1, <2>4, <3>1, <3>3 DEF FinalizeAccepted, Answer
      <4>2. Follows(c, o, {id}) /\ \A l \in o.leases : l.id # id
        BY <3>2, <3>3 DEF Follows, LeaseOf
      <4> HIDE DEF a
      <4> QED BY <3>2, <4>1, <4>2 DEF a
    <3>4. CASE LeaseOf(o, id) # {}
      <4>1. PICK r : r = RemoveLeases(o, LeaseOf(o, id))
        OBVIOUS
      <4>2. Sound(r) /\ Follows(o, r, {id}) /\ \A l \in r.leases : l.id # id
        BY <3>2, <4>1, CloseKeeps
      <4>3. {} \cup {id} = {id} /\ o \in Controller /\ r \in Controller
        BY <3>2, <4>2 DEF Sound
      <4>4. Follows(c, r, {} \cup {id})
        BY <1>0, <3>2, <4>2, <4>3, FollowsComposes
      <4>5. a.ctl = r /\ a.code = "Completed"
        BY <1>2, <2>1, <2>4, <3>1, <3>4, <4>1 DEF FinalizeAccepted, Answer
      <4>6. Follows(c, r, {id})
        BY <4>3, <4>4
      <4> HIDE DEF a
      <4> QED BY <4>2, <4>5, <4>6 DEF a
    <3> QED BY <3>3, <3>4
  <2> QED BY <2>3, <2>4
<1> QED BY <1>1, <1>2

\* commit_rate_and_retain_concurrency, and finalizing without a clock.
LEMMA RetainKeeps ==
    ASSUME NEW c, Sound(c), NEW id, NEW now \in Instant
    PROVE  LET d == RetainDispatched(c, id, now).ctl
               e == FinalizeUntimed(c, id).ctl
           IN /\ Sound(d) /\ Follows(c, d, {})
              /\ Sound(e) /\ Follows(c, e, {})
<1> DEFINE d == RetainDispatched(c, id, now).ctl
           e == FinalizeUntimed(c, id).ctl
<1>0. c \in Controller
  BY DEF Sound
<1>1. CASE LeaseOf(c, id) = {}
  <2>1. d = c /\ e = c
    BY <1>1 DEF RetainDispatched, FinalizeUntimed, Answer
  <2> QED BY <1>0, <2>1, FollowsItself
<1>2. CASE LeaseOf(c, id) # {}
  <2>1. PICK h : h = ChargeUnits(c, id)
    OBVIOUS
  <2>2. Sound(h) /\ Follows(c, h, {})
    BY <2>1, ChargeKeeps
  <2>3. e = h
    BY <1>2, <2>1 DEF FinalizeUntimed, Answer
  <2>4. CASE Regresses(h, now)
    <3>1. d = h
      BY <1>2, <2>1, <2>4 DEF RetainDispatched, Answer
    <3> QED BY <2>2, <2>3, <3>1
  <2>5. CASE ~Regresses(h, now)
    <3>1. PICK o : o = Observe(h, now)
      OBVIOUS
    <3>2. Sound(o) /\ Follows(c, o, {})
      BY <2>1, <2>5, <3>1, ChargeObserveKeeps
    <3>3. d = o
      BY <1>2, <2>1, <2>5, <3>1 DEF RetainDispatched, Answer
    <3> QED BY <2>2, <2>3, <3>2, <3>3
  <2> QED BY <2>4, <2>5
<1> QED BY <1>1, <1>2

\* release and cancel.
LEMMA ReleaseKeeps ==
    ASSUME NEW c, Sound(c), NEW id, NEW now \in Instant
    PROVE  LET a == CloseLease(c, id, now) IN
           /\ Sound(a.ctl)
           /\ a.code = "ClockRegressed" => Follows(c, a.ctl, {})
           /\ a.code # "ClockRegressed" =>
                Follows(c, a.ctl, {id}) /\ \A l \in a.ctl.leases : l.id # id
<1> DEFINE a == CloseLease(c, id, now)
<1>0. c \in Controller
  BY DEF Sound
<1>1. CASE Regresses(c, now)
  <2>1. a.ctl = c /\ a.code = "ClockRegressed"
    BY <1>1 DEF CloseLease, Answer
  <2> HIDE DEF a
  <2> QED BY <1>0, <2>1, FollowsItself DEF a
<1>2. CASE ~Regresses(c, now)
  <2>1. PICK o : o = Observe(c, now)
    OBVIOUS
  <2>2. Sound(o) /\ Follows(c, o, {})
    BY <1>2, <2>1, ObserveKeeps
  <2>3. CASE LeaseOf(o, id) = {}
    <3>1. a.ctl = o /\ a.code = "LeaseExpired"
      BY <1>2, <2>1, <2>3 DEF CloseLease, Answer
    <3>2. Follows(c, o, {id}) /\ \A l \in o.leases : l.id # id
      BY <2>2, <2>3 DEF Follows, LeaseOf
    <3> HIDE DEF a
    <3> QED BY <2>2, <3>1, <3>2 DEF a
  <2>4. CASE LeaseOf(o, id) # {}
    <3>1. PICK r : r = RemoveLeases(o, LeaseOf(o, id))
      OBVIOUS
    <3>2. Sound(r) /\ Follows(o, r, {id}) /\ \A l \in r.leases : l.id # id
      BY <2>2, <3>1, CloseKeeps
    <3>3. {} \cup {id} = {id} /\ o \in Controller /\ r \in Controller
      BY <2>2, <3>2 DEF Sound
    <3>4. Follows(c, r, {} \cup {id})
      BY <1>0, <2>2, <3>2, <3>3, FollowsComposes
    <3>5. a.ctl = r /\ a.code = "Ok"
      BY <1>2, <2>1, <2>4, <3>1 DEF CloseLease, Answer
    <3>6. Follows(c, r, {id})
      BY <3>3, <3>4
    <3> HIDE DEF a
    <3> QED BY <3>2, <3>5, <3>6 DEF a
  <2> QED BY <2>3, <2>4
<1> QED BY <1>1, <1>2

-----------------------------------------------------------------------------
(* The state machine.                                                      *)

Holders == handles \cup dropping \cup retained

\* Every identity was given out and is in one place, and every lease has a holder.
Held ==
    /\ \A id \in Holders : id \in Nat /\ id > 0 /\ id <= ctl.identity
    /\ handles \cap dropping = {}
    /\ retained \cap (handles \cup dropping) = {}
    /\ NoOrphanedLease

IInv == Sound(ctl) /\ Held

\* What a step does to retained leases.
RetainedStep ==
    \A l \in ctl.leases :
        l.id \in retained' /\ LeaseOf(ctl', l.id) = {} => ctl'.lastNow >= l.expires

\* A step of a holder: nobody else is disturbed.
LEMMA HolderStep ==
    ASSUME IInv, NEW closed, Sound(ctl'), Follows(ctl, ctl', closed),
           closed \cap retained' = {}, Holders' \subseteq Holders,
           handles' \cap dropping' = {}, retained' \cap (handles' \cup dropping') = {},
           \A l \in ctl'.leases : l.id \in Holders => l.id \in Holders'
    PROVE  IInv' /\ RetainedStep
<1>1. ctl.identity \in Nat /\ ctl'.identity \in Nat /\ ctl'.identity >= ctl.identity
  BY RateAssumption DEF IInv, Sound, Controller, Follows
<1>2. \A id \in Holders' : id \in Nat /\ id > 0 /\ id <= ctl'.identity
  BY <1>1 DEF IInv, Held
<1>3. NoOrphanedLease'
  <2> SUFFICES ASSUME NEW m \in ctl'.leases PROVE m.id \in Holders'
    BY DEF NoOrphanedLease, Holders
  <2>1. PICK l \in ctl.leases : l.id = m.id
    BY DEF Follows
  <2> QED BY <2>1 DEF IInv, Held, NoOrphanedLease, Holders
<1>4. RetainedStep
  BY DEF RetainedStep, Follows, LeaseOf
<1> QED BY <1>2, <1>3, <1>4 DEF IInv, Held

LEMMA AdmitStep ==
    ASSUME IInv, NEW req \in RateRequests, NEW now \in Instant, Admit(req, now)
    PROVE  IInv' /\ RetainedStep
<1>0. req \in RateRequest /\ Sound(ctl)
  BY RateAssumption DEF IInv
<1>1. PICK a : a = TryAdmit(ctl, req, now)
  OBVIOUS
<1>2. /\ Sound(a.ctl)
      /\ a.code # "Ok" => Follows(ctl, a.ctl, {})
      /\ a.code = "Ok" => Admits(ctl, a.ctl)
  BY <1>0, <1>1, AdmitKeeps
<1>3. /\ ctl' = a.ctl /\ dropping' = dropping /\ retained' = retained
      /\ handles' = IF a.code = "Ok" THEN handles \cup {a.ctl.identity} ELSE handles
  BY <1>1 DEF Admit
<1>4. CASE a.code # "Ok"
  <2>1. Holders' = Holders /\ handles' = handles
    BY <1>3, <1>4 DEF Holders
  <2>2. {} \cap retained' = {} /\ Holders' \subseteq Holders
        /\ \A l \in ctl'.leases : l.id \in Holders => l.id \in Holders'
    BY <2>1
  <2>3. handles' \cap dropping' = {} /\ retained' \cap (handles' \cup dropping') = {}
    BY <1>3, <2>1 DEF IInv, Held
  <2> QED BY <1>2, <1>3, <1>4, <2>2, <2>3, HolderStep
<1>5. CASE a.code = "Ok"
  <2>1. handles' = handles \cup {ctl'.identity} /\ Admits(ctl, ctl') /\ Sound(ctl')
    BY <1>2, <1>3, <1>5
  <2>2. ctl.identity \in Nat /\ ctl'.identity \in Nat /\ ctl'.identity > ctl.identity
    BY <1>0, <2>1, RateAssumption DEF Sound, Controller, Admits
  <2>3. ctl'.identity \notin Holders
    BY <2>2 DEF IInv, Held
  <2>4. Holders' = Holders \cup {ctl'.identity}
    BY <1>3, <2>1 DEF Holders
  <2>5. \A id \in Holders' : id \in Nat /\ id > 0 /\ id <= ctl'.identity
    BY <2>2, <2>4 DEF IInv, Held
  <2>6. handles' \cap dropping' = {} /\ retained' \cap (handles' \cup dropping') = {}
    BY <1>3, <2>1, <2>3 DEF IInv, Held, Holders
  <2>7. NoOrphanedLease'
    <3> SUFFICES ASSUME NEW m \in ctl'.leases PROVE m.id \in Holders'
      BY DEF NoOrphanedLease, Holders
    <3>1. m.id = ctl'.identity \/ \E l \in ctl.leases : l.id = m.id
      BY <2>1 DEF Admits
    <3> QED BY <2>4, <3>1 DEF IInv, Held, NoOrphanedLease, Holders
  <2>8. RetainedStep
    BY <2>1 DEF RetainedStep, Admits, LeaseOf
  <2> QED BY <2>1, <2>5, <2>6, <2>7, <2>8 DEF IInv, Held
<1> QED BY <1>4, <1>5

\* Every step keeps the invariant, and retained leases to their expiry.
LEMMA Step ==
    ASSUME IInv, [RateNext]_rateVars
    PROVE  IInv' /\ RetainedStep
<1>0. /\ Sound(ctl) /\ ctl \in Controller
      /\ handles \cap dropping = {} /\ retained \cap (handles \cup dropping) = {}
  BY DEF IInv, Held, Sound
<1>1. ASSUME NEW now \in Instant, NEW req \in RateRequests, Admit(req, now)
      PROVE  IInv' /\ RetainedStep
  BY <1>1, AdmitStep
<1>2. ASSUME handles' = handles, dropping' = dropping, retained' = retained,
             Sound(ctl'), Follows(ctl, ctl', {})
      PROVE  IInv' /\ RetainedStep
  <2>1. {} \cap retained' = {} /\ Holders' = Holders
    BY <1>2 DEF Holders
  <2>2. Holders' \subseteq Holders /\ \A l \in ctl'.leases : l.id \in Holders => l.id \in Holders'
    BY <2>1
  <2>3. handles' \cap dropping' = {} /\ retained' \cap (handles' \cup dropping') = {}
    BY <1>0, <1>2
  <2> QED BY <1>2, <2>1, <2>2, <2>3, HolderStep
<1>3. ASSUME NEW now \in Instant, NEW k \in LimitKeys, Snapshot(k, now)
      PROVE  IInv' /\ RetainedStep
  <2>1. Sound(ctl') /\ Follows(ctl, ctl', {})
    BY <1>0, <1>3, InspectKeeps DEF Snapshot
  <2> QED BY <1>2, <1>3, <2>1 DEF Snapshot
<1>4. ASSUME NEW now \in Instant, NEW id \in handles, CommitHeld(id, now)
      PROVE  IInv' /\ RetainedStep
  <2>1. Sound(ctl') /\ Follows(ctl, ctl', {})
    BY <1>0, <1>4, CommitKeeps DEF CommitHeld
  <2> QED BY <1>2, <1>4, <2>1 DEF CommitHeld
\* The handle is consumed and the lease left to its expiry.
<1>5. ASSUME NEW id \in handles, handles' = handles \ {id}, retained' = retained \cup {id},
             dropping' = dropping, Sound(ctl'), Follows(ctl, ctl', {})
      PROVE  IInv' /\ RetainedStep
  <2>1. {} \cap retained' = {} /\ Holders' = Holders
    BY <1>5 DEF Holders
  <2>2. Holders' \subseteq Holders /\ \A l \in ctl'.leases : l.id \in Holders => l.id \in Holders'
    BY <2>1
  <2>3. handles' \cap dropping' = {} /\ retained' \cap (handles' \cup dropping') = {}
    BY <1>0, <1>5
  <2> QED BY <1>5, <2>1, <2>2, <2>3, HolderStep
\* The handle is consumed and the lease closed.
<1>6. ASSUME NEW id \in handles \cup dropping, handles' = handles \ {id}, retained' = retained,
             dropping' \in {dropping, dropping \ {id}}, id \in handles \/ id \notin dropping',
             Sound(ctl'), Follows(ctl, ctl', {id}), \A l \in ctl'.leases : l.id # id
      PROVE  IInv' /\ RetainedStep
  <2>1. {id} \cap retained' = {} /\ Holders' \subseteq Holders
    BY <1>0, <1>6 DEF Holders
  <2>2. \A l \in ctl'.leases : l.id \in Holders => l.id \in Holders'
    BY <1>6 DEF Holders
  <2>3. handles' \cap dropping' = {} /\ retained' \cap (handles' \cup dropping') = {}
    BY <1>0, <1>6
  <2> QED BY <1>6, <2>1, <2>2, <2>3, HolderStep
<1>7. ASSUME NEW now \in Instant, NEW id \in handles, Finalize(id, now)
      PROVE  IInv' /\ RetainedStep
  <2>1. PICK a : a = FinalizeAccepted(ctl, id, now)
    OBVIOUS
  <2>2. /\ Sound(a.ctl)
        /\ a.code = "ReconciliationRequired" => Follows(ctl, a.ctl, {})
        /\ a.code # "ReconciliationRequired" =>
             Follows(ctl, a.ctl, {id}) /\ \A l \in a.ctl.leases : l.id # id
    BY <1>0, <2>1, FinalizeKeeps
  <2>3. /\ ctl' = a.ctl /\ handles' = handles \ {id} /\ dropping' = dropping
        /\ retained' = IF a.code = "ReconciliationRequired" THEN retained \cup {id} ELSE retained
    BY <1>7, <2>1 DEF Finalize
  <2>4. CASE a.code = "ReconciliationRequired"
    BY <1>5, <2>2, <2>3, <2>4
  <2>5. CASE a.code # "ReconciliationRequired"
    <3>1. id \in handles \cup dropping /\ (id \in handles \/ id \notin dropping')
          /\ dropping' \in {dropping, dropping \ {id}} /\ retained' = retained
      BY <2>3, <2>5
    <3>2. Sound(ctl') /\ Follows(ctl, ctl', {id}) /\ \A l \in ctl'.leases : l.id # id
      BY <2>2, <2>3, <2>5
    <3> QED BY <1>6, <2>3, <3>1, <3>2
  <2> QED BY <2>4, <2>5
<1>8. ASSUME NEW now \in Instant, NEW id \in handles, Retain(id, now)
      PROVE  IInv' /\ RetainedStep
  <2>1. Sound(ctl') /\ Follows(ctl, ctl', {})
    BY <1>0, <1>8, RetainKeeps DEF Retain
  <2> QED BY <1>5, <1>8, <2>1 DEF Retain
<1>9. ASSUME NEW id \in handles, FinalizeWithoutClock(id)
      PROVE  IInv' /\ RetainedStep
  <2>1. ctl.lastNow \in Instant
    BY <1>0 DEF Controller
  <2>2. Sound(ctl') /\ Follows(ctl, ctl', {})
    BY <1>0, <1>9, <2>1, RetainKeeps DEF FinalizeWithoutClock
  <2> QED BY <1>5, <1>9, <2>2 DEF FinalizeWithoutClock
<1>10. ASSUME NEW now \in Instant, NEW id \in handles, Close(id, now)
       PROVE  IInv' /\ RetainedStep
  <2>1. PICK a : a = CloseLease(ctl, id, now)
    OBVIOUS
  <2>2. /\ Sound(a.ctl)
        /\ a.code = "ClockRegressed" => Follows(ctl, a.ctl, {})
        /\ a.code # "ClockRegressed" =>
             Follows(ctl, a.ctl, {id}) /\ \A l \in a.ctl.leases : l.id # id
    BY <1>0, <2>1, ReleaseKeeps
  <2>3. /\ ctl' = a.ctl /\ handles' = handles \ {id} /\ retained' = retained
        /\ dropping' = IF a.code = "ClockRegressed" THEN dropping \cup {id} ELSE dropping
    BY <1>10, <2>1 DEF Close
  <2>4. CASE a.code = "ClockRegressed"
    <3>1. {} \cap retained' = {} /\ Holders' = Holders
      BY <2>3, <2>4 DEF Holders
    <3>2. Holders' \subseteq Holders /\ \A l \in ctl'.leases : l.id \in Holders => l.id \in Holders'
      BY <3>1
    <3>3. handles' \cap dropping' = {} /\ retained' \cap (handles' \cup dropping') = {}
      BY <1>0, <2>3, <2>4
    <3> QED BY <2>2, <2>3, <2>4, <3>1, <3>2, <3>3, HolderStep
  <2>5. CASE a.code # "ClockRegressed"
    <3>1. id \in handles \cup dropping /\ (id \in handles \/ id \notin dropping')
          /\ dropping' \in {dropping, dropping \ {id}}
      BY <2>3, <2>5
    <3>2. Sound(ctl') /\ Follows(ctl, ctl', {id}) /\ \A l \in ctl'.leases : l.id # id
      BY <2>2, <2>3, <2>5
    <3> QED BY <1>6, <2>3, <3>1, <3>2
  <2> QED BY <2>4, <2>5
<1>11. ASSUME NEW id \in handles \cup dropping, DropHandle(id)
       PROVE  IInv' /\ RetainedStep
  <2>1. Sound(ctl') /\ Follows(ctl, ctl', {id}) /\ \A l \in ctl'.leases : l.id # id
    BY <1>0, <1>11, CloseKeeps DEF DropHandle, CloseUntimed
  <2>2. /\ handles' = handles \ {id} /\ retained' = retained
        /\ dropping' \in {dropping, dropping \ {id}} /\ (id \in handles \/ id \notin dropping')
    BY <1>11 DEF DropHandle
  <2> QED BY <1>6, <2>1, <2>2
<1>12. ASSUME UNCHANGED rateVars PROVE IInv' /\ RetainedStep
  <2>1. ctl' = ctl /\ handles' = handles /\ dropping' = dropping /\ retained' = retained
    BY <1>12 DEF rateVars
  <2>2. Sound(ctl') /\ Follows(ctl, ctl', {})
    BY <1>0, <2>1, FollowsItself
  <2> QED BY <1>2, <2>1, <2>2
<1> QED BY <1>1, <1>3, <1>4, <1>7, <1>8, <1>9, <1>10, <1>11, <1>12 DEF RateNext

LEMMA Starts ==
    ASSUME RateInit
    PROVE  IInv
<1>1. ctl = NewController(0) /\ handles = {} /\ dropping = {} /\ retained = {}
  BY DEF RateInit
<1>2. /\ ctl.lastNow = 0 /\ ctl.identity = 0 /\ ctl.leases = {}
      /\ ctl.windows = [k \in LimitKeys |-> NoWindow]
      /\ ctl.active = [k \in LimitKeys |-> 0]
      /\ IsController(ctl)
  BY <1>1 DEF NewController, IsController
<1>3. 0 \in Instant /\ 0 \in 0..MaxIdentity /\ {} \in SUBSET RateLease
  BY RateAssumption DEF Instant
<1>4. ctl.windows \in Windows /\ ctl.active \in [LimitKeys -> Nat]
  BY <1>2, <1>3 DEF Windows, NoWindow
<1>5. ctl \in Controller
  BY <1>2, <1>3, <1>4 DEF Controller, IsController
<1>6. IsFiniteSet({}) /\ Cardinality({}) = 0
  BY FS_EmptySet
<1>7. Identified(ctl)
  BY <1>2, <1>6 DEF Identified
<1>8. ASSUME NEW k \in LimitKeys
      PROVE  /\ ctl.windows[k].pending = PendingUnits(ctl.leases, k)
             /\ ctl.active[k] = Permits(ctl.leases, k)
             /\ ctl.windows[k].committed + ctl.windows[k].pending <= RateCapacity[k]
             /\ ctl.active[k] <= ConcurrencyLimit[k]
  <2>1. PendingUnits({}, k) = 0
    BY <1>6, CountsNone
  <2>2. Permits({}, k) = 0
    <3>1. {l \in {} : k \in Permitted(l.keys)} = {}
      OBVIOUS
    <3> QED BY <1>6, <3>1 DEF Permits
  <2>3. ctl.windows[k] = [ends |-> 0, committed |-> 0, pending |-> 0] /\ ctl.active[k] = 0
    BY <1>2 DEF NoWindow
  <2>4. RateCapacity[k] \in Nat /\ ConcurrencyLimit[k] \in Nat
    BY RateAssumption DEF ValidLimits
  <2> QED BY <1>2, <2>1, <2>2, <2>3, <2>4
<1>9. Counted(ctl) /\ Limited(ctl) /\ Enclosed(ctl)
  BY <1>2, <1>8 DEF Counted, Limited, Enclosed
<1>10. Held
  BY <1>1, <1>2 DEF Held, Holders, NoOrphanedLease
<1> QED BY <1>5, <1>7, <1>9, <1>10 DEF IInv, Sound

\* The invariant: the controller is sound and every lease has a holder.
THEOREM Invariant == RateSpec => []IInv
<1>1. RateInit => IInv
  BY Starts
<1>2. IInv /\ [RateNext]_rateVars => IInv'
  BY Step
<1> QED BY <1>1, <1>2, PTL DEF RateSpec

\* The windows, permits, leases and handles of the controller are always well
\* formed: no counter drops below zero and no instant or identity passes its end.
THEOREM RateTyped == RateSpec => []RateTypeOK
<1>1. IInv => RateTypeOK
  <2> SUFFICES ASSUME IInv PROVE RateTypeOK
    OBVIOUS
  <2>1. ctl \in Controller
    BY DEF IInv, Sound
  <2>2. /\ ctl.lastNow \in Instant /\ ctl.identity \in 0..MaxIdentity
        /\ ctl.windows \in Windows /\ ctl.active \in [LimitKeys -> Nat]
        /\ ctl.leases \subseteq RateLease
    BY <2>1 DEF Controller
  <2>3. \A id \in Holders : id \in 1..MaxIdentity
    BY <2>2, RateAssumption DEF IInv, Held
  <2> QED BY <2>2, <2>3 DEF RateTypeOK, Holders, Windows
<1> QED BY <1>1, Invariant, PTL

\* try_admit and every way to end a lease: pending units and permits are those of the
\* leases on record, no key is above its limits, no unit moves to a later window and
\* every lease has somebody to end it, for every number of keys, holders and requests.
THEOREM NothingLeaks == RateSpec => []AccountedWithinLimits
<1>1. IInv => AccountedWithinLimits
  BY DEF IInv, Held, Sound, Counted, Limited, Enclosed, AccountedWithinLimits,
         CapacityIsAccounted, WithinLimits, LeasesEndWithTheirWindow
<1> QED BY <1>1, Invariant, PTL

\* commit_rate_and_retain_concurrency and finalize_accepted: a retained permit comes
\* back only when its expiry is observed, whatever the other holders do meanwhile.
THEOREM RetainedStay == RateSpec => RetainedUntilExpiry
<1>1. IInv /\ [RateNext]_rateVars => [RetainedStep]_rateVars
  BY Step
<1>2. RetainedUntilExpiry <=> [][RetainedStep]_rateVars
  BY DEF RetainedUntilExpiry, RetainedStep
<1> QED BY <1>1, <1>2, Invariant, PTL DEF RateSpec

=============================================================================
