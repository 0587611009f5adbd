---------------------------- MODULE RoutingProofs ----------------------------
(***************************************************************************)
(* The routing runtime, for any number of requests, accounts, permits and  *)
(* snapshots.                                                              *)
(***************************************************************************)
EXTENDS RoutingRuntime, FiniteSums

-----------------------------------------------------------------------------
(* Sequences of any elements.                                              *)

IsSeq(s) == \E S : s \in Seq(S)

LEMMA SeqFacts ==
    ASSUME NEW s, IsSeq(s)
    PROVE  Len(s) \in Nat /\ DOMAIN s = 1..Len(s)
BY DEF IsSeq

LEMMA AppendFacts ==
    ASSUME NEW s, IsSeq(s), NEW x
    PROVE  /\ IsSeq(Append(s, x)) /\ Len(Append(s, x)) = Len(s) + 1
           /\ DOMAIN Append(s, x) = 1..(Len(s) + 1)
           /\ \A i \in 1..Len(s) : Append(s, x)[i] = s[i]
           /\ Append(s, x)[Len(s) + 1] = x
<1>1. PICK S : s \in Seq(S)
  BY DEF IsSeq
<1>2. s \in Seq(S \cup {x}) /\ x \in S \cup {x}
  BY <1>1
<1>3. Append(s, x) \in Seq(S \cup {x})
  BY <1>2
<1> QED BY <1>2, <1>3 DEF IsSeq

LEMMA ExceptFacts ==
    ASSUME NEW s, IsSeq(s), NEW n \in 1..Len(s), NEW x, NEW u, u = [s EXCEPT ![n] = x]
    PROVE  /\ IsSeq(u) /\ Len(u) = Len(s) /\ DOMAIN u = DOMAIN s
           /\ u[n] = x /\ \A i \in DOMAIN s : i # n => u[i] = s[i]
<1>1. PICK S : s \in Seq(S)
  BY DEF IsSeq
<1>2. s \in Seq(S \cup {x}) /\ x \in S \cup {x}
  BY <1>1
<1>3. [s EXCEPT ![n] = x] \in Seq(S \cup {x})
  BY <1>2
<1> QED BY <1>2, <1>3 DEF IsSeq

-----------------------------------------------------------------------------
(* The retry plan names no candidate twice.                                *)

Distinct(s) == \A i, j \in DOMAIN s : s[i] = s[j] => i = j

LEMMA PoolOrderIs ==
    ASSUME NEW C, C \subseteq Nat, IsFiniteSet(C)
    PROVE  /\ PoolOrder(C) \in Seq(C) /\ Len(PoolOrder(C)) = Cardinality(C)
           /\ Distinct(PoolOrder(C))
<1>1. PoolOrder(C) \in [1..Cardinality(C) -> C] /\ Ascends(PoolOrder(C))
  BY OrderExists DEF PoolOrder, Ascends
<1>2. Cardinality(C) \in Nat
  BY FS_CardinalityType
<1>3. PoolOrder(C) \in Seq(C) /\ Len(PoolOrder(C)) = Cardinality(C)
  BY <1>1, <1>2
<1>4. ASSUME NEW i \in 1..Cardinality(C), NEW j \in 1..Cardinality(C), PoolOrder(C)[i] = PoolOrder(C)[j]
      PROVE  i = j
  <2>1. PoolOrder(C)[i] \in Nat /\ PoolOrder(C)[j] \in Nat
    BY <1>1
  <2> QED BY <1>1, <1>4, <2>1, <1>2 DEF Ascends
<1> QED BY <1>1, <1>3, <1>4 DEF Distinct

LEMMA EligibleIsInPool ==
    ASSUME NEW w, NEW pool
    PROVE  Eligible(w, pool) \subseteq pool
BY DEF Eligible, Preferred, Affordable, Quoted

\* A plan starts with the candidate selected and names none twice.
PlanOf(p, c) == IsSeq(p) /\ Distinct(p) /\ 1 \in DOMAIN p /\ p[1] = c

LEMMA RetryPlanIs ==
    ASSUME NEW w, NEW c, NEW max \in Nat \ {0}
    PROVE  PlanOf(RetryPlan(w, Candidates, c, max), c)
<1> DEFINE R == Eligible(w, Candidates) \ {c}
           rest == PoolOrder(R)
           room == IF Len(rest) < max - 1 THEN Len(rest) ELSE max - 1
           tail == SubSeq(rest, 1, room)
           p == <<c>> \o tail
<1>1. R \subseteq Nat /\ IsFiniteSet(R)
  BY EligibleIsInPool, RuntimeAssumption, FS_Subset DEF RuntimeAssumption
<1>2. rest \in Seq(R) /\ Distinct(rest) /\ Len(rest) \in Nat /\ DOMAIN rest = 1..Len(rest)
  <2> HIDE DEF R
  <2>1. PoolOrder(R) \in Seq(R) /\ Distinct(PoolOrder(R))
    BY <1>1, PoolOrderIs
  <2> QED BY <2>1
<1>3. room \in Nat /\ room <= Len(rest)
  BY <1>2
<1> HIDE DEF R, rest, room
<1>4. tail \in Seq(R) /\ Len(tail) = room /\ \A i \in 1..room : tail[i] = rest[i] /\ tail[i] \in R
  BY <1>2, <1>3
<1> HIDE DEF tail
<1>5. /\ p \in Seq(R \cup {c}) /\ Len(p) = room + 1 /\ DOMAIN p = 1..(room + 1) /\ p[1] = c
      /\ \A i \in 2..(room + 1) : p[i] = tail[i - 1]
  <2>1. <<c>> \in Seq(R \cup {c}) /\ tail \in Seq(R \cup {c}) /\ Len(<<c>>) = 1 /\ <<c>>[1] = c
    BY <1>4
  <2> QED BY <1>3, <1>4, <2>1
<1>6. \A i \in 2..(room + 1) : i - 1 \in 1..room /\ p[i] = rest[i - 1] /\ p[i] \in R /\ i - 1 \in DOMAIN rest
  BY <1>2, <1>3, <1>4, <1>5
<1>7. c \notin R
  BY DEF R
<1>8. Distinct(p)
  <2> SUFFICES ASSUME NEW i \in 1..(room + 1), NEW j \in 1..(room + 1), p[i] = p[j] PROVE i = j
    BY <1>5 DEF Distinct
  <2>1. CASE i = 1 \/ j = 1
    BY <1>3, <1>5, <1>6, <1>7, <2>1
  <2>2. CASE i # 1 /\ j # 1
    <3>1. i \in 2..(room + 1) /\ j \in 2..(room + 1)
      BY <1>3, <2>2
    <3>2. rest[i - 1] = rest[j - 1] /\ i - 1 \in DOMAIN rest /\ j - 1 \in DOMAIN rest
      BY <1>6, <3>1
    <3>3. i - 1 = j - 1
      BY <1>2, <3>2 DEF Distinct
    <3> QED BY <1>3, <3>3
  <2> QED BY <2>1, <2>2
<1>9. RetryPlan(w, Candidates, c, max) = p
  BY DEF RetryPlan, p, tail, room, rest, R
<1> QED BY <1>3, <1>5, <1>8, <1>9 DEF PlanOf, IsSeq

LEMMA RouteIs ==
    ASSUME NEW w, NEW pool, NEW max, Route(w, pool, max).code = "Ok"
    PROVE  \E c, more :
             /\ Route(w, pool, max) = Chosen(w, pool, c, max, more)
             /\ \/ c \in Eligible(w, pool)
                \/ Weighted(w, pool) # {} /\ c = WeightedWinner(w, pool)
<1>1. \A x : Failed(x).code = x
  BY DEF Failed
<1> QED BY <1>1 DEF Route, AffinityHit, PolicySelects

LEMMA FirstRoute ==
    ASSUME NEW w, NEW route, route = Route(w, Candidates, MaxAttempts), route.code = "Ok"
    PROVE  PlanOf(route.plan, route.selected)
<1>1. PICK c, more : route = Chosen(w, Candidates, c, MaxAttempts, more)
  BY RouteIs
<1>2. route.selected = c /\ route.plan = RetryPlan(w, Candidates, c, MaxAttempts)
  BY <1>1 DEF Chosen
<1> QED BY <1>2, RetryPlanIs, RuntimeAssumption DEF RuntimeAssumption

LEMMA NextRoute ==
    ASSUME NEW w, NEW t, NEW route, route = Route(w, {t}, MaxAttempts), route.code = "Ok"
    PROVE  route.selected = t
<1>1. PICK c, more : /\ route = Chosen(w, {t}, c, MaxAttempts, more)
                     /\ c \in Eligible(w, {t}) \/ (Weighted(w, {t}) # {} /\ c = WeightedWinner(w, {t}))
  BY RouteIs
<1>2. route.selected = c
  BY <1>1 DEF Chosen
<1>3. CASE c \in Eligible(w, {t})
  BY <1>2, <1>3, EligibleIsInPool
<1>4. CASE Weighted(w, {t}) # {} /\ c = WeightedWinner(w, {t})
  <2>1. Weighted(w, {t}) = {t}
    BY <1>4, EligibleIsInPool DEF Weighted
  <2>2. {x \in Weighted(w, {t}) : \A d \in Weighted(w, {t}) \ {x} : w.meta[x].priority <= w.meta[d].priority} = {t}
    BY <2>1
  <2>3. WeightedWinner(w, {t}) = CHOOSE x \in {t} : \A d \in {t} \ {x} : Lighter(w, x, d)
    BY <2>2, Zenon DEF WeightedWinner
  <2>4. \E x \in {t} : \A d \in {t} \ {x} : Lighter(w, x, d)
    OBVIOUS
  <2> HIDE DEF WeightedWinner
  <2>5. WeightedWinner(w, {t}) \in {t}
    BY <2>3, <2>4
  <2> QED BY <1>2, <1>4, <2>5
<1> QED BY <1>1, <1>3, <1>4

-----------------------------------------------------------------------------
(* One request: its control state u and its attempts s.                    *)

Places == {"Idle", "Refused", "Retry", "Prepare", "Authorise", "Ready", "InFlight", "Ended", "Dropped"}
Active == {"Prepare", "Authorise", "Ready", "InFlight"}

RunShape(u) ==
    /\ DOMAIN u = {"pc", "plan", "target", "ordinal", "left", "accepted", "committed", "refusal", "answer"}
    /\ DOMAIN u.plan = {"candidates", "max", "safe"}
    /\ u.pc \in Places /\ u.ordinal \in Nat /\ IsSeq(u.accepted)
AttemptShape(a) ==
    DOMAIN a = {"candidate", "admission", "probe", "outcome", "sent", "accepted", "committed", "failure"}

\* How far an attempt is: open, settled, settled with a failure worth another attempt,
\* or left behind by a caller that went away.
Fresh(a) == a.admission = "Held" /\ ~a.accepted /\ ~a.committed /\ a.failure = "None"
Closed(a) ==
    /\ a.admission \in {"Released", "Charged"} /\ a.probe = NoProbe
    /\ a.accepted <=> a.admission = "Charged"
    /\ a.admission = "Released" /\ a.sent => a.failure # "None"
FailedOver(a) == Closed(a) /\ Retryable(a.failure) /\ ~a.committed
Abandoned(a) == a.admission \in {"Unknown", "Lapsed"} /\ a.sent /\ ~a.accepted /\ a.probe = NoProbe

LastFits(pc, a) ==
    /\ pc \in {"Prepare", "Authorise", "Ready"} => Fresh(a) /\ ~a.sent
    /\ pc = "InFlight" => Fresh(a) /\ a.sent
    /\ pc \in {"Refused", "Retry"} => FailedOver(a)
    /\ pc = "Ended" => Closed(a)
    /\ pc = "Dropped" => Closed(a) \/ Abandoned(a)

AttemptsFit(u, s) ==
    /\ IsSeq(s) /\ \A i \in DOMAIN s : AttemptShape(s[i])
    /\ \A i \in DOMAIN s : i < Len(s) => FailedOver(s[i])
    /\ Len(s) # 0 => LastFits(u.pc, s[Len(s)])
    /\ u.pc = "Idle" => Len(s) = 0
    /\ u.pc \in Active => Len(s) # 0 /\ s[Len(s)].candidate = u.target

AcceptedFits(u, s) ==
    /\ u.pc \notin {"Ended", "Dropped"} => Lists(u.accepted, s)
    /\ u.pc = "Ended" => Lists(u.answer.accepted, s)

\* c comes before d in the plan, or is the last one, again.
Before(plan, c, d) ==
    \/ IndexIn(plan, c) < IndexIn(plan, d)
    \/ c = d /\ ~HasNext(plan, d)
Named(plan, c) == \E i \in DOMAIN plan.candidates : plan.candidates[i] = c

PlanFits(u, s) ==
    /\ IsSeq(u.plan.candidates) /\ Distinct(u.plan.candidates) /\ u.plan.max = MaxAttempts
    /\ Len(s) <= u.ordinal /\ u.ordinal <= MaxAttempts /\ (u.ordinal > 1 => u.plan.safe)
    /\ \A i \in DOMAIN s : Named(u.plan, s[i].candidate)
    /\ \A i, j \in DOMAIN s : i < j => Before(u.plan, s[i].candidate, s[j].candidate)
    /\ u.pc \in {"Refused", "Retry"} =>
         Named(u.plan, u.target) /\ \A i \in DOMAIN s : Before(u.plan, s[i].candidate, u.target)
    /\ u.pc = "Retry" => u.plan.safe /\ u.ordinal < MaxAttempts

Planned(u, s) == Len(s) # 0 \/ u.pc \in {"Refused", "Retry"}

RequestOK(u, s) ==
    RunShape(u) /\ AttemptsFit(u, s) /\ AcceptedFits(u, s) /\ (Planned(u, s) => PlanFits(u, s))

-----------------------------------------------------------------------------
(* The list of accepted attempts.                                          *)

LEMMA ListsSame ==
    ASSUME NEW l, NEW s, NEW z, Lists(l, s), DOMAIN z = DOMAIN s,
           \A i \in DOMAIN s : z[i].accepted <=> s[i].accepted
    PROVE  Lists(l, z)
BY DEF Lists

LEMMA ListsAppend ==
    ASSUME NEW l, NEW s, IsSeq(s), Lists(l, s), NEW x, ~x.accepted
    PROVE  Lists(l, Append(s, x))
<1>1. /\ DOMAIN Append(s, x) = 1..(Len(s) + 1) /\ Len(s) \in Nat /\ DOMAIN s = 1..Len(s)
      /\ \A i \in 1..Len(s) : Append(s, x)[i] = s[i]
      /\ Append(s, x)[Len(s) + 1] = x
  BY AppendFacts, SeqFacts
<1>2. {i \in DOMAIN Append(s, x) : Append(s, x)[i].accepted} = {i \in DOMAIN s : s[i].accepted}
  BY <1>1
<1> QED BY <1>2 DEF Lists

LEMMA ListsMore ==
    ASSUME NEW l, IsSeq(l), NEW s, IsSeq(s), Lists(l, s), NEW z, DOMAIN z = DOMAIN s,
           Len(s) # 0, ~s[Len(s)].accepted, z[Len(s)].accepted,
           \A i \in DOMAIN s : i # Len(s) => z[i] = s[i]
    PROVE  Lists(Append(l, Len(s)), z)
<1> DEFINE n == Len(s)
           m == Append(l, n)
<1>1. /\ n \in Nat /\ DOMAIN s = 1..n /\ DOMAIN l = 1..Len(l) /\ Len(l) \in Nat
      /\ DOMAIN m = 1..(Len(l) + 1) /\ m[Len(l) + 1] = n
      /\ \A k \in 1..Len(l) : m[k] = l[k]
  BY AppendFacts, SeqFacts
<1>2. \A k \in 1..Len(l) : l[k] \in DOMAIN s /\ s[l[k]].accepted /\ l[k] # n /\ l[k] \in 1..n /\ l[k] < n
  <2>1. \A k \in 1..Len(l) : l[k] \in DOMAIN s /\ s[l[k]].accepted
    BY <1>1 DEF Lists
  <2> QED BY <1>1, <2>1
<1>3. {m[k] : k \in DOMAIN m} = {l[k] : k \in DOMAIN l} \cup {n}
  BY <1>1
<1>4. {i \in DOMAIN z : z[i].accepted} = {i \in DOMAIN s : s[i].accepted} \cup {n}
  BY <1>1
<1>5. \A j, k \in DOMAIN m : j < k => m[j] < m[k]
  <2> SUFFICES ASSUME NEW j \in DOMAIN m, NEW k \in DOMAIN m, j < k PROVE m[j] < m[k]
    OBVIOUS
  <2>1. j \in 1..Len(l) /\ m[j] = l[j]
    BY <1>1
  <2>2. CASE k = Len(l) + 1
    BY <1>1, <1>2, <2>1, <2>2
  <2>3. CASE k # Len(l) + 1
    BY <1>1, <2>1, <2>3 DEF Lists
  <2> QED BY <2>2, <2>3
<1> HIDE DEF m, n
<1>6. {l[k] : k \in DOMAIN l} = {i \in DOMAIN s : s[i].accepted}
  BY DEF Lists
<1>7. Lists(m, z)
  BY <1>3, <1>4, <1>5, <1>6 DEF Lists
<1> QED BY <1>7 DEF m, n

LEMMA JoinIsAppend ==
    ASSUME NEW l, IsSeq(l), NEW n
    PROVE  l \o <<n>> = Append(l, n) /\ l \o <<>> = l
<1>1. PICK S : l \in Seq(S)
  BY DEF IsSeq
<1>2. l \in Seq(S \cup {n}) /\ n \in S \cup {n}
  BY <1>1
<1> QED BY <1>2

-----------------------------------------------------------------------------
(* The order of a plan.                                                    *)

LEMMA IndexIs ==
    ASSUME NEW plan, IsSeq(plan.candidates), Distinct(plan.candidates), NEW i \in DOMAIN plan.candidates
    PROVE  IndexIn(plan, plan.candidates[i]) = i
<1>1. IndexIn(plan, plan.candidates[i]) \in DOMAIN plan.candidates
  BY DEF IndexIn
<1>2. plan.candidates[IndexIn(plan, plan.candidates[i])] = plan.candidates[i]
  BY DEF IndexIn
<1> QED BY <1>1, <1>2 DEF Distinct

LEMMA IndexTypes ==
    ASSUME NEW plan, IsSeq(plan.candidates), Distinct(plan.candidates), NEW c, Named(plan, c)
    PROVE  /\ IndexIn(plan, c) \in 1..Len(plan.candidates) /\ Len(plan.candidates) \in Nat
           /\ HasNext(plan, c) => Named(plan, NextOf(plan, c))
                                  /\ IndexIn(plan, NextOf(plan, c)) = IndexIn(plan, c) + 1
<1>1. PICK i \in DOMAIN plan.candidates : plan.candidates[i] = c
  BY DEF Named
<1>2. IndexIn(plan, c) = i /\ Len(plan.candidates) \in Nat /\ DOMAIN plan.candidates = 1..Len(plan.candidates)
  BY <1>1, IndexIs, SeqFacts
<1>3. ASSUME HasNext(plan, c)
      PROVE  Named(plan, NextOf(plan, c)) /\ IndexIn(plan, NextOf(plan, c)) = i + 1
  <2>1. i + 1 \in DOMAIN plan.candidates
    BY <1>2, <1>3 DEF HasNext
  <2>2. NextOf(plan, c) = plan.candidates[i + 1]
    BY <1>2 DEF NextOf
  <2> QED BY <2>1, <2>2, IndexIs DEF Named
<1> QED BY <1>2, <1>3

LEMMA BeforeNext ==
    ASSUME NEW plan, IsSeq(plan.candidates), Distinct(plan.candidates), NEW b, Named(plan, b),
           NEW c, Named(plan, c), Before(plan, b, c) \/ b = c, HasNext(plan, c)
    PROVE  Before(plan, b, NextOf(plan, c))
<1>1. /\ IndexIn(plan, b) \in Nat /\ IndexIn(plan, c) \in Nat
      /\ IndexIn(plan, NextOf(plan, c)) = IndexIn(plan, c) + 1
  BY IndexTypes
<1> QED BY <1>1 DEF Before

\* A candidate that is tried again is the last one of the plan.
LEMMA BeforeLast ==
    ASSUME NEW plan, NEW b, NEW c, Before(plan, b, c) \/ b = c, ~HasNext(plan, c)
    PROVE  Before(plan, b, c)
BY DEF Before

-----------------------------------------------------------------------------
(* What a step does to a request.                                          *)

\* It ends between two attempts.
LEMMA StopsKeep ==
    ASSUME NEW u, NEW s, RequestOK(u, s), u.pc \in {"Idle", "Refused", "Retry"}, NEW kind
    PROVE  RequestOK(Answered(u, kind, <<>>), s)
<1>1. PICK v : v = Answered(u, kind, <<>>)
  OBVIOUS
<1>2. /\ RunShape(u) /\ RunShape(v) /\ v.pc = "Ended" /\ v.plan = u.plan /\ v.ordinal = u.ordinal
      /\ v.answer.accepted = u.accepted \o <<>>
  <2>1. RunShape(u)
    BY DEF RequestOK
  <2> QED BY <1>1, <2>1 DEF Answered, RunShape, Places
<1>3. v.answer.accepted = u.accepted
  BY <1>2, JoinIsAppend DEF RunShape
<1>4. AttemptsFit(v, s)
  BY <1>2 DEF RequestOK, AttemptsFit, LastFits, FailedOver, Active
<1>5. AcceptedFits(v, s)
  BY <1>2, <1>3 DEF RequestOK, AcceptedFits
<1>6. Planned(v, s) => PlanFits(v, s)
  BY <1>2 DEF RequestOK, Planned, PlanFits
<1> QED BY <1>1, <1>2, <1>4, <1>5, <1>6 DEF RequestOK

\* Its attempt moves on.
Edited(s, z, a) ==
    /\ IsSeq(z) /\ Len(z) = Len(s) /\ DOMAIN z = DOMAIN s
    /\ z[Len(s)] = a /\ \A i \in DOMAIN s : i # Len(s) => z[i] = s[i]

LEMMA EditIs ==
    ASSUME NEW u, NEW s, RequestOK(u, s), u.pc \in Active, NEW a
    PROVE  Edited(s, [s EXCEPT ![Len(s)] = a], a)
<1>1. IsSeq(s) /\ Len(s) \in 1..Len(s)
  BY SeqFacts DEF RequestOK, AttemptsFit
<1> QED BY <1>1, ExceptFacts DEF Edited

LEMMA EditedFits ==
    ASSUME NEW u, NEW s, RequestOK(u, s), u.pc \in Active,
           NEW a, AttemptShape(a), a.candidate = u.target, NEW z, Edited(s, z, a),
           NEW v, RunShape(v), v.pc \in Active \cup {"Ended", "Dropped"}, LastFits(v.pc, a),
           v.plan = u.plan, v.ordinal = u.ordinal, v.pc \in Active => v.target = u.target
    PROVE  AttemptsFit(v, z) /\ (Planned(v, z) => PlanFits(v, z))
<1>1. /\ IsSeq(s) /\ Len(s) \in Nat /\ DOMAIN s = 1..Len(s) /\ Len(s) # 0
      /\ s[Len(s)].candidate = u.target
  BY SeqFacts DEF RequestOK, AttemptsFit
<1>2. AttemptsFit(v, z)
  BY <1>1 DEF RequestOK, AttemptsFit, Edited, Active
<1>3. \A i \in DOMAIN z : z[i].candidate = s[i].candidate
  BY <1>1 DEF Edited
<1>4. PlanFits(u, s)
  BY <1>1 DEF RequestOK, Planned
<1>5. PlanFits(v, z)
  BY <1>3, <1>4 DEF PlanFits, Edited, Active
<1> QED BY <1>2, <1>5

\* An attempt that is still open moves on.
LEMMA MovesKeep ==
    ASSUME NEW u, NEW s, RequestOK(u, s), u.pc \in Active, NEW pc \in Active,
           NEW a, AttemptShape(a), a.candidate = u.target, LastFits(pc, a)
    PROVE  RequestOK([u EXCEPT !.pc = pc], [s EXCEPT ![Len(s)] = a])
<1>1. PICK v, z : v = [u EXCEPT !.pc = pc] /\ z = [s EXCEPT ![Len(s)] = a]
  OBVIOUS
<1>2. Edited(s, z, a)
  BY <1>1, EditIs
<1>3. /\ RunShape(u) /\ RunShape(v) /\ v.pc = pc /\ v.plan = u.plan /\ v.ordinal = u.ordinal
      /\ v.target = u.target /\ v.accepted = u.accepted
  BY <1>1 DEF RequestOK, RunShape, Active, Places
<1>4. AttemptsFit(v, z) /\ (Planned(v, z) => PlanFits(v, z))
  BY <1>2, <1>3, EditedFits
<1>5. Lists(u.accepted, s) /\ ~s[Len(s)].accepted /\ ~a.accepted
  BY DEF RequestOK, AcceptedFits, AttemptsFit, Active, LastFits, Fresh
<1>6. Lists(u.accepted, z)
  BY <1>2, <1>5, ListsSame DEF Edited
<1>7. AcceptedFits(v, z)
  BY <1>3, <1>6 DEF AcceptedFits, Active
<1> QED BY <1>1, <1>3, <1>4, <1>7 DEF RequestOK

\* Its attempt is settled and the request ends.
LEMMA EndsKeep ==
    ASSUME NEW u, NEW s, RequestOK(u, s), u.pc \in Active,
           NEW a, AttemptShape(a), a.candidate = u.target, Closed(a), NEW kind,
           NEW more, more = IF a.accepted THEN <<Len(s)>> ELSE <<>>
    PROVE  RequestOK(Answered(u, kind, more), [s EXCEPT ![Len(s)] = a])
<1>1. PICK v, z : v = Answered(u, kind, more) /\ z = [s EXCEPT ![Len(s)] = a]
  OBVIOUS
<1>2. Edited(s, z, a)
  BY <1>1, EditIs
<1>3. /\ RunShape(u) /\ RunShape(v) /\ v.pc = "Ended" /\ v.plan = u.plan /\ v.ordinal = u.ordinal
      /\ v.answer.accepted = u.accepted \o more
  <2>1. RunShape(u)
    BY DEF RequestOK
  <2> QED BY <1>1, <2>1 DEF Answered, RunShape, Places
<1>4. AttemptsFit(v, z) /\ (Planned(v, z) => PlanFits(v, z))
  BY <1>2, <1>3, EditedFits DEF LastFits, Active
<1>5. Lists(u.accepted, s) /\ ~s[Len(s)].accepted /\ IsSeq(s) /\ Len(s) # 0 /\ IsSeq(u.accepted)
  BY DEF RequestOK, AcceptedFits, AttemptsFit, Active, LastFits, Fresh, RunShape
<1>6. Lists(v.answer.accepted, z)
  <2>1. CASE a.accepted
    <3>1. DOMAIN z = DOMAIN s /\ z[Len(s)].accepted /\ \A i \in DOMAIN s : i # Len(s) => z[i] = s[i]
      BY <1>2, <2>1 DEF Edited
    <3>2. Lists(Append(u.accepted, Len(s)), z)
      BY <1>5, <3>1, ListsMore
    <3>3. v.answer.accepted = u.accepted \o <<Len(s)>>
      BY <1>3, <2>1
    <3>4. u.accepted \o <<Len(s)>> = Append(u.accepted, Len(s))
      BY <1>5, JoinIsAppend
    <3> QED BY <3>2, <3>3, <3>4
  <2>2. CASE ~a.accepted
    BY <1>2, <1>3, <1>5, <2>2, ListsSame, JoinIsAppend DEF Edited
  <2> QED BY <2>1, <2>2
<1>7. AcceptedFits(v, z)
  BY <1>3, <1>6 DEF AcceptedFits
<1> QED BY <1>1, <1>3, <1>4, <1>7 DEF RequestOK

\* The caller goes away.
LEMMA DropsKeep ==
    ASSUME NEW u, NEW s, RequestOK(u, s), u.pc \in Active,
           NEW a, AttemptShape(a), a.candidate = u.target, Closed(a) \/ Abandoned(a)
    PROVE  RequestOK([u EXCEPT !.pc = "Dropped"], [s EXCEPT ![Len(s)] = a])
<1>1. PICK v, z : v = [u EXCEPT !.pc = "Dropped"] /\ z = [s EXCEPT ![Len(s)] = a]
  OBVIOUS
<1>2. Edited(s, z, a)
  BY <1>1, EditIs
<1>3. RunShape(u) /\ RunShape(v) /\ v.pc = "Dropped" /\ v.plan = u.plan /\ v.ordinal = u.ordinal
  BY <1>1 DEF RequestOK, RunShape, Places
<1>4. AttemptsFit(v, z) /\ (Planned(v, z) => PlanFits(v, z))
  BY <1>2, <1>3, EditedFits DEF LastFits, Active
<1>5. AcceptedFits(v, z)
  BY <1>3 DEF AcceptedFits
<1> QED BY <1>1, <1>3, <1>4, <1>5 DEF RequestOK

\* A failure goes to the failover plan.
LEMMA AdvanceKeeps ==
    ASSUME NEW u, NEW s, RequestOK(u, s), u.pc = "InFlight",
           NEW a, AttemptShape(a), a.candidate = u.target, Closed(a),
           NEW b, b.accepted = a.accepted, b.failure = a.failure, b.committed = a.committed
    PROVE  RequestOK(Advance(u, b, Len(s)), [s EXCEPT ![Len(s)] = a])
<1>1. PICK z : z = [s EXCEPT ![Len(s)] = a]
  OBVIOUS
<1>2. PICK next : next = DecideFailure(u.plan, u.target, u.ordinal, b.committed, b.failure)
  OBVIOUS
<1>3. PICK l : l = IF b.accepted THEN Append(u.accepted, Len(s)) ELSE u.accepted
  OBVIOUS
<1>4. PICK kept : kept = [u EXCEPT !.committed = b.committed, !.accepted = l]
  OBVIOUS
<1>5. Advance(u, b, Len(s)) = IF next = 0 THEN Answered(kept, "FailoverStopped", <<>>)
                              ELSE [kept EXCEPT !.pc = "Retry", !.target = next]
  BY <1>2, <1>3, <1>4 DEF Advance
<1>6. u.pc \in Active /\ Edited(s, z, a)
  BY <1>1, EditIs DEF Active
<1>7. /\ Lists(u.accepted, s) /\ ~s[Len(s)].accepted /\ IsSeq(s) /\ Len(s) # 0 /\ IsSeq(u.accepted)
      /\ RunShape(u) /\ PlanFits(u, s) /\ s[Len(s)].candidate = u.target
      /\ Len(s) \in Nat /\ DOMAIN s = 1..Len(s)
  BY <1>6, SeqFacts DEF RequestOK, AcceptedFits, AttemptsFit, Active, LastFits, Fresh, RunShape, Planned
<1>8. IsSeq(l) /\ Lists(l, z)
  <2>1. CASE a.accepted
    <3>1. DOMAIN z = DOMAIN s /\ z[Len(s)].accepted /\ \A i \in DOMAIN s : i # Len(s) => z[i] = s[i]
      BY <1>6, <2>1 DEF Edited
    <3>2. Lists(Append(u.accepted, Len(s)), z)
      BY <1>7, <3>1, ListsMore
    <3> QED BY <1>3, <1>7, <2>1, <3>2, AppendFacts
  <2>2. CASE ~a.accepted
    BY <1>3, <1>6, <1>7, <2>2, ListsSame DEF Edited
  <2> QED BY <2>1, <2>2
<1>9. /\ RunShape(kept) /\ kept.plan = u.plan /\ kept.ordinal = u.ordinal /\ kept.accepted = l
  BY <1>4, <1>7, <1>8 DEF RunShape, Places
<1>10. CASE next = 0
  <2>1. PICK v : v = Answered(kept, "FailoverStopped", <<>>)
    OBVIOUS
  <2>2. /\ RunShape(v) /\ v.pc = "Ended" /\ v.plan = u.plan /\ v.ordinal = u.ordinal
        /\ v.answer.accepted = l \o <<>>
    BY <1>9, <2>1 DEF Answered, RunShape, Places
  <2>3. v.answer.accepted = l
    BY <1>8, <2>2, JoinIsAppend
  <2>4. AttemptsFit(v, z) /\ (Planned(v, z) => PlanFits(v, z))
    BY <1>6, <2>2, EditedFits DEF LastFits, Active
  <2>5. AcceptedFits(v, z)
    BY <1>8, <2>2, <2>3 DEF AcceptedFits
  <2> QED BY <1>1, <1>5, <1>10, <2>1, <2>2, <2>4, <2>5 DEF RequestOK
<1>11. CASE next # 0
  <2>1. PICK v : v = [kept EXCEPT !.pc = "Retry", !.target = next]
    OBVIOUS
  <2>2. /\ RunShape(v) /\ v.pc = "Retry" /\ v.plan = u.plan /\ v.ordinal = u.ordinal /\ v.accepted = l
        /\ v.target = next
    BY <1>9, <2>1 DEF RunShape, Places
  <2>3. /\ MayRetry(u.plan, u.ordinal, b.committed) /\ Retryable(b.failure)
        /\ next = IF HasNext(u.plan, u.target) THEN NextOf(u.plan, u.target) ELSE u.target
    BY <1>2, <1>11 DEF DecideFailure
  <2>4. ~a.committed /\ u.plan.safe /\ u.ordinal < MaxAttempts /\ FailedOver(a)
    BY <1>7, <2>3 DEF MayRetry, PlanFits, FailedOver
  <2>5. AttemptsFit(v, z)
    BY <1>6, <1>7, <2>2, <2>4 DEF RequestOK, AttemptsFit, Edited, Active, LastFits
  <2>6. \A i \in DOMAIN z : z[i].candidate = s[i].candidate
    BY <1>6, <1>7 DEF Edited
  <2>7. \A i \in DOMAIN s : Named(u.plan, s[i].candidate)
                            /\ (Before(u.plan, s[i].candidate, u.target) \/ s[i].candidate = u.target)
    BY <1>7 DEF PlanFits
  <2>8. Named(u.plan, u.target) /\ IsSeq(u.plan.candidates) /\ Distinct(u.plan.candidates)
    BY <1>7, <2>7 DEF PlanFits
  <2>9. Named(u.plan, next) /\ \A i \in DOMAIN s : Before(u.plan, s[i].candidate, next)
    <3>1. CASE HasNext(u.plan, u.target)
      BY <2>3, <2>7, <2>8, <3>1, IndexTypes, BeforeNext
    <3>2. CASE ~HasNext(u.plan, u.target)
      BY <2>3, <2>7, <2>8, <3>2, BeforeLast
    <3> QED BY <3>1, <3>2
  <2>10. PlanFits(v, z)
    BY <1>6, <1>7, <2>2, <2>4, <2>6, <2>9 DEF PlanFits, Edited
  <2>11. AcceptedFits(v, z)
    BY <1>8, <2>2 DEF AcceptedFits
  <2> QED BY <1>1, <1>5, <1>11, <2>1, <2>2, <2>5, <2>10, <2>11 DEF RequestOK
<1> QED BY <1>10, <1>11

\* A refusal of the account goes to the next one.
LEMMA RefusalKeeps ==
    ASSUME NEW u, NEW s, RequestOK(u, s), u.pc = "Refused",
           NEW next, next = DecideRefusal(u.plan, u.target, u.ordinal, u.committed, u.refusal), next # 0
    PROVE  RequestOK([u EXCEPT !.pc = "Retry", !.target = next], s)
<1>1. PICK v : v = [u EXCEPT !.pc = "Retry", !.target = next]
  OBVIOUS
<1>2. /\ RunShape(u) /\ RunShape(v) /\ v.pc = "Retry" /\ v.plan = u.plan /\ v.ordinal = u.ordinal
      /\ v.target = next /\ v.accepted = u.accepted
  BY <1>1 DEF RequestOK, RunShape, Places
<1>3. /\ MayRetry(u.plan, u.ordinal, u.committed) /\ HasNext(u.plan, u.target)
      /\ next = NextOf(u.plan, u.target)
  BY DEF DecideRefusal
<1>4. PlanFits(u, s)
  BY DEF RequestOK, Planned
<1>5. u.plan.safe /\ u.ordinal < MaxAttempts
  BY <1>3, <1>4 DEF MayRetry, PlanFits
<1>6. /\ Named(u.plan, u.target) /\ IsSeq(u.plan.candidates) /\ Distinct(u.plan.candidates)
      /\ \A i \in DOMAIN s : Named(u.plan, s[i].candidate) /\ Before(u.plan, s[i].candidate, u.target)
  BY <1>4 DEF PlanFits
<1>7. Named(u.plan, next) /\ \A i \in DOMAIN s : Before(u.plan, s[i].candidate, next)
  BY <1>3, <1>6, IndexTypes, BeforeNext
<1>8. PlanFits(v, s)
  BY <1>2, <1>4, <1>5, <1>7 DEF PlanFits
<1>9. AttemptsFit(v, s) /\ AcceptedFits(v, s)
  BY <1>2 DEF RequestOK, AttemptsFit, AcceptedFits, LastFits, Active
<1> QED BY <1>1, <1>2, <1>8, <1>9 DEF RequestOK

\* A coordination that names a candidate, before it is admitted.
Routed(u, s) ==
    /\ RunShape(u) /\ IsSeq(s) /\ \A i \in DOMAIN s : AttemptShape(s[i]) /\ FailedOver(s[i])
    /\ Lists(u.accepted, s)
    /\ IsSeq(u.plan.candidates) /\ Distinct(u.plan.candidates) /\ u.plan.max = MaxAttempts
    /\ Len(s) + 1 <= u.ordinal /\ u.ordinal <= MaxAttempts /\ (u.ordinal > 1 => u.plan.safe)
    /\ \A i, j \in DOMAIN s : i < j => Before(u.plan, s[i].candidate, s[j].candidate)
    /\ Named(u.plan, u.target)
    /\ \A i \in DOMAIN s : Named(u.plan, s[i].candidate) /\ Before(u.plan, s[i].candidate, u.target)

LEMMA RefusedKeeps ==
    ASSUME NEW u, NEW s, Routed(u, s), NEW refusal
    PROVE  RequestOK([u EXCEPT !.pc = "Refused", !.refusal = refusal], s)
<1>1. PICK v : v = [u EXCEPT !.pc = "Refused", !.refusal = refusal]
  OBVIOUS
<1>2. /\ RunShape(v) /\ v.pc = "Refused" /\ v.plan = u.plan /\ v.ordinal = u.ordinal
      /\ v.target = u.target /\ v.accepted = u.accepted /\ u.ordinal \in Nat
  BY <1>1 DEF Routed, RunShape, Places
<1>3. Len(s) \in Nat /\ DOMAIN s = 1..Len(s)
  BY SeqFacts DEF Routed
<1>4. AttemptsFit(v, s) /\ AcceptedFits(v, s)
  BY <1>2, <1>3 DEF Routed, AttemptsFit, AcceptedFits, LastFits, Active
<1>5. PlanFits(v, s)
  BY <1>2, <1>3 DEF Routed, PlanFits
<1> QED BY <1>1, <1>2, <1>4, <1>5 DEF RequestOK

LEMMA AdmittedKeeps ==
    ASSUME NEW u, NEW s, Routed(u, s), NEW x, AttemptShape(x), x.candidate = u.target, Fresh(x), ~x.sent
    PROVE  RequestOK([u EXCEPT !.pc = "Prepare"], Append(s, x))
<1>1. PICK v, z : v = [u EXCEPT !.pc = "Prepare"] /\ z = Append(s, x)
  OBVIOUS
<1>2. /\ RunShape(v) /\ v.pc = "Prepare" /\ v.plan = u.plan /\ v.ordinal = u.ordinal
      /\ v.target = u.target /\ v.accepted = u.accepted /\ u.ordinal \in Nat
  BY <1>1 DEF Routed, RunShape, Places
<1>3. Len(s) \in Nat /\ DOMAIN s = 1..Len(s)
  BY SeqFacts DEF Routed
<1>4. /\ IsSeq(z) /\ Len(z) = Len(s) + 1 /\ DOMAIN z = 1..(Len(s) + 1)
      /\ \A i \in 1..Len(s) : z[i] = s[i]
      /\ z[Len(s) + 1] = x
  BY <1>1, AppendFacts DEF Routed
<1>5. AttemptsFit(v, z)
  BY <1>2, <1>3, <1>4 DEF Routed, AttemptsFit, LastFits, Active
<1>6. Lists(u.accepted, z)
  BY <1>1, ListsAppend DEF Routed, Fresh
<1>7. AcceptedFits(v, z)
  BY <1>2, <1>6 DEF AcceptedFits
<1>8. \A i \in DOMAIN z : Named(u.plan, z[i].candidate)
  BY <1>3, <1>4 DEF Routed
<1>9. ASSUME NEW i \in DOMAIN z, NEW j \in DOMAIN z, i < j
      PROVE  Before(u.plan, z[i].candidate, z[j].candidate)
  <2>1. i \in DOMAIN s /\ z[i] = s[i]
    BY <1>3, <1>4, <1>9
  <2>2. CASE j = Len(s) + 1
    BY <1>4, <2>1, <2>2 DEF Routed
  <2>3. CASE j # Len(s) + 1
    BY <1>3, <1>4, <1>9, <2>1, <2>3 DEF Routed
  <2> QED BY <2>2, <2>3
<1>10. PlanFits(v, z)
  BY <1>2, <1>3, <1>4, <1>8, <1>9 DEF Routed, PlanFits
<1> QED BY <1>1, <1>2, <1>5, <1>7, <1>10 DEF RequestOK

\* The permits of an attempt left behind run out.
LEMMA LapseKeeps ==
    ASSUME NEW u, NEW s, RequestOK(u, s), NEW n \in DOMAIN s, s[n].admission = "Unknown"
    PROVE  RequestOK(u, [s EXCEPT ![n] = [s[n] EXCEPT !.admission = "Lapsed"]])
<1>1. PICK a, z : a = [s[n] EXCEPT !.admission = "Lapsed"] /\ z = [s EXCEPT ![n] = a]
  OBVIOUS
<1>2. IsSeq(s) /\ Len(s) \in Nat /\ DOMAIN s = 1..Len(s) /\ RunShape(u) /\ AttemptShape(s[n])
  BY SeqFacts DEF RequestOK, AttemptsFit
<1>3. n = Len(s) /\ u.pc = "Dropped" /\ Abandoned(s[n])
  BY <1>2 DEF RequestOK, AttemptsFit, FailedOver, Closed, LastFits, Fresh, RunShape, Places, Abandoned
<1>4. AttemptShape(a) /\ Abandoned(a) /\ a.candidate = s[n].candidate
  BY <1>1, <1>2, <1>3 DEF AttemptShape, Abandoned
<1>5. /\ IsSeq(z) /\ Len(z) = Len(s) /\ DOMAIN z = DOMAIN s
      /\ z[n] = a /\ \A i \in DOMAIN s : i # n => z[i] = s[i]
  <2>1. n \in 1..Len(s) /\ IsSeq(s) /\ z = [s EXCEPT ![n] = a]
    BY <1>1, <1>2
  <2> QED BY <2>1, ExceptFacts
<1>6. AttemptsFit(u, z)
  BY <1>2, <1>3, <1>4, <1>5 DEF RequestOK, AttemptsFit, LastFits, Active
<1>7. \A i \in DOMAIN s : z[i].candidate = s[i].candidate
  BY <1>4, <1>5
<1>8. Planned(u, z) => PlanFits(u, z)
  BY <1>3, <1>5, <1>7 DEF RequestOK, Planned, PlanFits
<1>9. AcceptedFits(u, z)
  BY <1>3 DEF AcceptedFits
<1> QED BY <1>1, <1>2, <1>6, <1>8, <1>9 DEF RequestOK

-----------------------------------------------------------------------------
(* The steps.                                                              *)

RuntimeIInv ==
    /\ runs = [r \in Requests |-> runs[r]] /\ attempts = [r \in Requests |-> attempts[r]]
    /\ \A r \in Requests : RequestOK(runs[r], attempts[r])

LEMMA OneRequest ==
    ASSUME RuntimeIInv, NEW r \in Requests, NEW u, NEW s, RequestOK(u, s),
           runs' = [runs EXCEPT ![r] = u], attempts' = [attempts EXCEPT ![r] = s]
    PROVE  RuntimeIInv'
<1>1. /\ runs' = [q \in Requests |-> runs'[q]] /\ attempts' = [q \in Requests |-> attempts'[q]]
      /\ runs'[r] = u /\ attempts'[r] = s
      /\ \A q \in Requests \ {r} : runs'[q] = runs[q] /\ attempts'[q] = attempts[q]
  BY DEF RuntimeIInv
<1> QED BY <1>1 DEF RuntimeIInv

LEMMA OneRun ==
    ASSUME RuntimeIInv, NEW r \in Requests, NEW u, RequestOK(u, attempts[r]),
           runs' = [runs EXCEPT ![r] = u], UNCHANGED attempts
    PROVE  RuntimeIInv'
<1>1. attempts' = [attempts EXCEPT ![r] = attempts[r]]
  BY DEF RuntimeIInv
<1> QED BY <1>1, OneRequest

LEMMA SettledIs ==
    ASSUME NEW a, AttemptShape(a), NEW admission, NEW outcome, NEW b, b = Settled(a, admission, outcome)
    PROVE  /\ AttemptShape(b) /\ b.candidate = a.candidate /\ b.admission = admission /\ b.probe = NoProbe
           /\ b.sent = a.sent /\ b.accepted = a.accepted /\ b.committed = a.committed
           /\ b.failure = a.failure
BY DEF Settled, AttemptShape

LEMMA CurrentIs ==
    ASSUME RuntimeIInv, NEW r \in Requests, runs[r].pc \in Active
    PROVE  /\ RequestOK(runs[r], attempts[r]) /\ AttemptShape(Current(r)) /\ Fresh(Current(r))
           /\ Current(r).candidate = runs[r].target
           /\ Current(r).sent <=> runs[r].pc = "InFlight"
<1>1. RequestOK(runs[r], attempts[r])
  BY DEF RuntimeIInv
<1>2. Len(attempts[r]) \in DOMAIN attempts[r]
  BY <1>1, SeqFacts DEF RequestOK, AttemptsFit
<1> QED BY <1>1, <1>2 DEF RequestOK, AttemptsFit, LastFits, Active, Current

\* The attempt of a request is replaced.
LEMMA OneAttempt ==
    ASSUME RuntimeIInv, NEW r \in Requests, NEW a, SetCurrent(r, a), NEW u,
           runs' = [runs EXCEPT ![r] = u], RequestOK(u, [attempts[r] EXCEPT ![Len(attempts[r])] = a])
    PROVE  RuntimeIInv'
<1>1. attempts' = [attempts EXCEPT ![r] = [attempts[r] EXCEPT ![Len(attempts[r])] = a]]
  BY DEF SetCurrent, RuntimeIInv
<1> QED BY <1>1, OneRequest

\* Released before the dispatch.
LEMMA ReleaseKeeps ==
    ASSUME RuntimeIInv, NEW r \in Requests, runs[r].pc \in Active \ {"InFlight"}, NEW a, NEW outcome,
           NEW b, AttemptShape(b), Fresh(b), ~b.sent, b.candidate = runs[r].target,
           a = Settled(b, "Released", outcome), SetCurrent(r, a),
           runs' = [runs EXCEPT ![r] = Answered(runs[r], "Error", <<>>)]
    PROVE  RuntimeIInv'
<1>1. RequestOK(runs[r], attempts[r]) /\ runs[r].pc \in Active
  BY DEF RuntimeIInv
<1>2. AttemptShape(a) /\ a.candidate = runs[r].target /\ Closed(a) /\ ~a.accepted
  BY SettledIs DEF Closed, Fresh
<1>3. PICK more : more = IF a.accepted THEN <<Len(attempts[r])>> ELSE <<>>
  OBVIOUS
<1>4. more = <<>>
  BY <1>2, <1>3
<1>5. RequestOK(Answered(runs[r], "Error", more), [attempts[r] EXCEPT ![Len(attempts[r])] = a])
  BY <1>1, <1>2, <1>3, EndsKeep
<1> QED BY <1>4, <1>5, OneAttempt

LEMMA PreDispatchKeeps ==
    ASSUME RuntimeIInv, NEW r \in Requests,
           \/ PrepareFails(r) \/ AuthoriseFails(r) \/ DispatchFails(r)
           \/ ProbeRejected(r) \/ ProbeInvalidated(r)
    PROVE  RuntimeIInv'
<1>1. runs[r].pc \in Active \ {"InFlight"}
  BY DEF PrepareFails, AuthoriseFails, DispatchFails, ProbeRejected, ProbeInvalidated, AtPc, Active
<1>2. /\ AttemptShape(Current(r)) /\ Fresh(Current(r)) /\ ~Current(r).sent
      /\ Current(r).candidate = runs[r].target
  BY <1>1, CurrentIs
<1>3. CASE PrepareFails(r) \/ AuthoriseFails(r) \/ DispatchFails(r)
  <2>1. /\ SetCurrent(r, Settled(Current(r), "Released", "Neutral"))
        /\ runs' = [runs EXCEPT ![r] = Answered(runs[r], "Error", <<>>)]
    BY <1>3 DEF PrepareFails, AuthoriseFails, DispatchFails, ReleasePreDispatch
  <2> QED BY <1>1, <1>2, <2>1, ReleaseKeeps
<1>4. CASE ProbeRejected(r)
  <2>1. /\ SetCurrent(r, Settled(Current(r), "Released", "None"))
        /\ runs' = [runs EXCEPT ![r] = Answered(runs[r], "Error", <<>>)]
    BY <1>4 DEF ProbeRejected
  <2> QED BY <1>1, <1>2, <2>1, ReleaseKeeps
<1>5. CASE ProbeInvalidated(r)
  <2>1. PICK b : b = [Current(r) EXCEPT !.probe = NoProbe]
    OBVIOUS
  <2>2. AttemptShape(b) /\ Fresh(b) /\ ~b.sent /\ b.candidate = runs[r].target
    BY <1>2, <2>1 DEF AttemptShape, Fresh
  <2>3. /\ SetCurrent(r, Settled(b, "Released", "None"))
        /\ runs' = [runs EXCEPT ![r] = Answered(runs[r], "Error", <<>>)]
    BY <1>5, <2>1 DEF ProbeInvalidated
  <2> QED BY <1>1, <2>2, <2>3, ReleaseKeeps
<1> QED BY <1>3, <1>4, <1>5

LEMMA PrepareKeeps ==
    ASSUME RuntimeIInv, NEW r \in Requests, AcquireCircuitProbe(r) \/ Authorised(r) \/ Dispatch(r)
    PROVE  RuntimeIInv'
<1>1. runs[r].pc \in Active /\ runs[r].pc # "InFlight"
  BY DEF AcquireCircuitProbe, Authorised, Dispatch, AtPc, Active
<1>2. /\ RequestOK(runs[r], attempts[r]) /\ AttemptShape(Current(r)) /\ Fresh(Current(r))
      /\ ~Current(r).sent /\ Current(r).candidate = runs[r].target
  BY <1>1, CurrentIs
<1>3. ASSUME NEW pc \in Active, NEW a, AttemptShape(a), a.candidate = runs[r].target, LastFits(pc, a),
             SetCurrent(r, a), runs' = [runs EXCEPT ![r] = [runs[r] EXCEPT !.pc = pc]]
      PROVE  RuntimeIInv'
  BY <1>1, <1>2, <1>3, MovesKeep, OneAttempt
<1>4. CASE AcquireCircuitProbe(r)
  <2>1. PICK probe : /\ SetCurrent(r, [Current(r) EXCEPT !.probe = probe])
                     /\ runs' = [runs EXCEPT ![r] = [runs[r] EXCEPT !.pc = "Authorise"]]
    BY <1>4 DEF AcquireCircuitProbe, RuntimeIInv
  <2>2. PICK a : a = [Current(r) EXCEPT !.probe = probe]
    OBVIOUS
  <2>3. AttemptShape(a) /\ a.candidate = runs[r].target /\ LastFits("Authorise", a)
    BY <1>2, <2>2 DEF AttemptShape, LastFits, Fresh
  <2> QED BY <1>3, <2>1, <2>2, <2>3 DEF Active
<1>5. CASE Dispatch(r)
  <2>1. /\ SetCurrent(r, [Current(r) EXCEPT !.sent = TRUE])
        /\ runs' = [runs EXCEPT ![r] = [runs[r] EXCEPT !.pc = "InFlight"]]
    BY <1>5 DEF Dispatch, RuntimeIInv
  <2>2. PICK a : a = [Current(r) EXCEPT !.sent = TRUE]
    OBVIOUS
  <2>3. AttemptShape(a) /\ a.candidate = runs[r].target /\ LastFits("InFlight", a)
    BY <1>2, <2>2 DEF AttemptShape, LastFits, Fresh
  <2> QED BY <1>3, <2>1, <2>2, <2>3 DEF Active
<1>6. CASE Authorised(r)
  <2>1. runs' = [runs EXCEPT ![r] = [runs[r] EXCEPT !.pc = "Ready"]] /\ attempts' = attempts
    BY <1>6 DEF Authorised, RuntimeIInv
  <2>2. IsSeq(attempts[r])
    BY <1>2 DEF RequestOK, AttemptsFit
  <2>3. attempts[r] = [attempts[r] EXCEPT ![Len(attempts[r])] = Current(r)]
    BY <2>2 DEF Current, IsSeq
  <2>4. SetCurrent(r, Current(r))
    <3>1. attempts = [attempts EXCEPT ![r] = [attempts[r] EXCEPT ![Len(attempts[r])] = Current(r)]]
      BY <2>3 DEF RuntimeIInv
    <3> QED BY <2>1, <3>1 DEF SetCurrent, RuntimeIInv
  <2>5. LastFits("Ready", Current(r))
    BY <1>2 DEF LastFits
  <2> QED BY <1>2, <1>3, <2>1, <2>4, <2>5 DEF Active
<1> QED BY <1>4, <1>5, <1>6

\* It ends, or goes on to another candidate, between two attempts.
LEMMA BetweenKeeps ==
    ASSUME RuntimeIInv, NEW r \in Requests,
           LoadFails(r) \/ NoSlotLeft(r) \/ AfterRefusal(r) \/ DropLoading(r)
    PROVE  RuntimeIInv'
<1>1. RequestOK(runs[r], attempts[r]) /\ UNCHANGED attempts
  BY DEF RuntimeIInv, LoadFails, NoSlotLeft, AfterRefusal, DropLoading
<1>2. runs[r].pc \in {"Idle", "Refused", "Retry"} =>
          \A kind : RequestOK(Answered(runs[r], kind, <<>>), attempts[r])
  BY <1>1, StopsKeep
<1>3. CASE LoadFails(r)
  <2>1. runs[r].pc = "Idle" /\ runs' = [runs EXCEPT ![r] = Answered(runs[r], "Error", <<>>)]
    BY <1>3 DEF LoadFails, AtPc
  <2>2. RequestOK(Answered(runs[r], "Error", <<>>), attempts[r])
    BY <1>2, <2>1
  <2> QED BY <1>1, <2>1, <2>2, OneRun
<1>4. CASE NoSlotLeft(r)
  <2>1. runs[r].pc = "Retry" /\ runs' = [runs EXCEPT ![r] = Answered(runs[r], "AttemptsExhausted", <<>>)]
    BY <1>4 DEF NoSlotLeft, AtPc
  <2>2. RequestOK(Answered(runs[r], "AttemptsExhausted", <<>>), attempts[r])
    BY <1>2, <2>1
  <2> QED BY <1>1, <2>1, <2>2, OneRun
<1>5. CASE AfterRefusal(r)
  <2>1. PICK u, s, next : /\ u = runs[r] /\ s = attempts[r]
                          /\ next = DecideRefusal(u.plan, u.target, u.ordinal, u.committed, u.refusal)
    OBVIOUS
  <2>2. /\ runs[r].pc = "Refused"
        /\ runs' = [runs EXCEPT ![r] = IF next = 0 THEN Answered(runs[r], "Error", <<>>)
                                       ELSE [runs[r] EXCEPT !.pc = "Retry", !.target = next]]
    BY <1>5, <2>1 DEF AfterRefusal, AtPc
  <2>3. CASE next = 0
    <3>1. runs' = [runs EXCEPT ![r] = Answered(runs[r], "Error", <<>>)]
      BY <2>2, <2>3
    <3>2. RequestOK(Answered(runs[r], "Error", <<>>), attempts[r])
      BY <1>2, <2>2
    <3> QED BY <1>1, <3>1, <3>2, OneRun
  <2>4. CASE next # 0
    <3>1. runs' = [runs EXCEPT ![r] = [runs[r] EXCEPT !.pc = "Retry", !.target = next]]
      BY <2>2, <2>4
    <3>2. RequestOK(u, s) /\ u.pc = "Refused"
      BY <1>1, <2>1, <2>2
    <3>3. RequestOK([u EXCEPT !.pc = "Retry", !.target = next], s)
      BY <2>1, <2>4, <3>2, RefusalKeeps
    <3> QED BY <1>1, <2>1, <3>1, <3>3, OneRun
  <2> QED BY <2>3, <2>4
<1>6. CASE DropLoading(r)
  <2>1. PICK v : v = [runs[r] EXCEPT !.pc = "Dropped"]
    OBVIOUS
  <2>2. runs' = [runs EXCEPT ![r] = v] /\ runs[r].pc = "Idle"
    BY <1>6, <2>1 DEF DropLoading, RuntimeIInv, AtPc
  <2>3. RunShape(v) /\ v.pc = "Dropped"
    BY <1>1, <2>1 DEF RequestOK, RunShape, Places
  <2>4. RequestOK(v, attempts[r])
    BY <1>1, <2>2, <2>3 DEF RequestOK, AttemptsFit, AcceptedFits, Planned, Active
  <2> QED BY <1>1, <2>2, <2>4, OneRun
<1> QED BY <1>3, <1>4, <1>5, <1>6

\* Admission of a routed request.
LEMMA AdmitKeeps ==
    ASSUME RuntimeIInv, NEW r \in Requests, NEW u, Routed(u, attempts[r]),
           NEW route, route.selected = u.target, NEW refusal, Admit(r, u, route, refusal)
    PROVE  RuntimeIInv'
<1>1. CASE refusal = "None"
  <2>1. /\ runs' = [runs EXCEPT ![r] = [u EXCEPT !.pc = "Prepare"]]
        /\ attempts' = [attempts EXCEPT ![r] = Append(attempts[r], NewAttempt(route))]
    BY <1>1 DEF Admit, RuntimeIInv
  <2>2. PICK x : x = NewAttempt(route)
    OBVIOUS
  <2>3. AttemptShape(x) /\ x.candidate = u.target /\ Fresh(x) /\ ~x.sent
    BY <2>2 DEF NewAttempt, AttemptShape, Fresh
  <2>4. RequestOK([u EXCEPT !.pc = "Prepare"], Append(attempts[r], x))
    BY <2>3, AdmittedKeeps
  <2> QED BY <2>1, <2>2, <2>4, OneRequest
<1>2. CASE refusal # "None"
  BY <1>2, RefusedKeeps, OneRun DEF Admit
<1> QED BY <1>1, <1>2

LEMMA StartKeeps ==
    ASSUME RuntimeIInv, NEW r \in Requests, NEW w, StartRoute(r, w)
    PROVE  RuntimeIInv'
<1>1. PICK route : route = Route(w, Candidates, MaxAttempts)
  OBVIOUS
<1>2. PICK u : u = [runs[r] EXCEPT !.plan.candidates = route.plan, !.plan.max = MaxAttempts,
                                   !.target = route.selected, !.ordinal = 1, !.left = @ - 1]
  OBVIOUS
<1>3. /\ runs[r].pc = "Idle" /\ RequestOK(runs[r], attempts[r])
      /\ IF route.code # "Ok"
         THEN runs' = [runs EXCEPT ![r] = Answered(runs[r], "Error", <<>>)] /\ UNCHANGED attempts
         ELSE \E refusal \in Admissions(route.selected) : Admit(r, u, route, refusal)
  BY <1>1, <1>2 DEF StartRoute, RuntimeIInv, AtPc
<1>4. CASE route.code # "Ok"
  BY <1>3, <1>4, StopsKeep, OneRun
<1>5. CASE route.code = "Ok"
  <2>1. PlanOf(route.plan, route.selected)
    BY <1>1, <1>5, FirstRoute
  <2>2. RunShape(runs[r]) /\ IsSeq(attempts[r]) /\ Len(attempts[r]) = 0 /\ Lists(runs[r].accepted, attempts[r])
    BY <1>3 DEF RequestOK, AttemptsFit, AcceptedFits
  <2>3. /\ RunShape(u) /\ u.plan.candidates = route.plan /\ u.plan.max = MaxAttempts
        /\ u.target = route.selected /\ u.ordinal = 1 /\ u.accepted = runs[r].accepted
    BY <1>2, <2>2 DEF RunShape
  <2>4. DOMAIN attempts[r] = {}
    BY <2>2, SeqFacts
  <2>5. Routed(u, attempts[r])
    BY <2>1, <2>2, <2>3, <2>4, RuntimeAssumption DEF Routed, PlanOf, Named, RuntimeAssumption
  <2> QED BY <1>3, <1>5, <2>3, <2>5, AdmitKeeps
<1> QED BY <1>4, <1>5

LEMMA RetryKeeps ==
    ASSUME RuntimeIInv, NEW r \in Requests, NEW w, RetryRoute(r, w)
    PROVE  RuntimeIInv'
<1>1. PICK route : route = Route(w, {runs[r].target}, MaxAttempts)
  OBVIOUS
<1>2. PICK u : u = [runs[r] EXCEPT !.ordinal = @ + 1, !.left = @ - 1]
  OBVIOUS
<1>3. /\ runs[r].pc = "Retry" /\ RequestOK(runs[r], attempts[r])
      /\ IF route.code # "Ok"
         THEN runs' = [runs EXCEPT ![r] = Answered(runs[r], "Error", <<>>)] /\ UNCHANGED attempts
         ELSE \E refusal \in Admissions(route.selected) : Admit(r, u, route, refusal)
  BY <1>1, <1>2 DEF RetryRoute, RuntimeIInv, AtPc
<1>4. CASE route.code # "Ok"
  BY <1>3, <1>4, StopsKeep, OneRun
<1>5. CASE route.code = "Ok"
  <2>1. route.selected = runs[r].target
    BY <1>1, <1>5, NextRoute
  <2>2. /\ RunShape(runs[r]) /\ IsSeq(attempts[r]) /\ Lists(runs[r].accepted, attempts[r])
        /\ PlanFits(runs[r], attempts[r])
    BY <1>3 DEF RequestOK, AttemptsFit, AcceptedFits, Planned
  <2>3. /\ RunShape(u) /\ u.plan = runs[r].plan /\ u.target = runs[r].target
        /\ u.ordinal = runs[r].ordinal + 1 /\ u.accepted = runs[r].accepted /\ runs[r].ordinal \in Nat
    BY <1>2, <2>2 DEF RunShape
  <2>4. Len(attempts[r]) \in Nat /\ DOMAIN attempts[r] = 1..Len(attempts[r])
    BY <2>2, SeqFacts
  <2>5. \A i \in DOMAIN attempts[r] : AttemptShape(attempts[r][i]) /\ FailedOver(attempts[r][i])
    BY <1>3, <2>4 DEF RequestOK, AttemptsFit, LastFits
  <2>6. Routed(u, attempts[r])
    BY <1>3, <2>2, <2>3, <2>4, <2>5, RuntimeAssumption DEF Routed, PlanFits, RuntimeAssumption
  <2> QED BY <1>3, <1>5, <2>1, <2>3, <2>6, AdmitKeeps
<1> QED BY <1>4, <1>5
\* The provider's answer, whichever the outcome of finalizing it.
LEMMA FinalizeKeeps ==
    ASSUME RuntimeIInv, NEW r \in Requests, runs[r].pc = "InFlight",
           NEW b, NEW a, NEW admission, NEW outcome, a = Settled(b, admission, outcome),
           NEW finalized, NEW refused, Finalize(r, b, admission, outcome, finalized, refused),
           RequestOK(finalized, [attempts[r] EXCEPT ![Len(attempts[r])] = a]),
           RequestOK(refused, [attempts[r] EXCEPT ![Len(attempts[r])] = a])
    PROVE  RuntimeIInv'
<1>1. SetCurrent(r, a) /\ \E u \in {finalized, refused} : runs' = [runs EXCEPT ![r] = u]
  BY DEF Finalize
<1> QED BY <1>1, OneAttempt

\* The current attempt with the answer of the provider.
LEMMA AnswerIs ==
    ASSUME RuntimeIInv, NEW r \in Requests, runs[r].pc = "InFlight",
           NEW b, AttemptShape(b), b.candidate = runs[r].target, b.sent, b.accepted \in BOOLEAN,
           b.failure # "None" \/ b.accepted,
           NEW admission, admission = IF b.accepted THEN "Charged" ELSE "Released",
           NEW outcome, NEW a, a = Settled(b, admission, outcome)
    PROVE  \A kind : RequestOK(Answered(runs[r], kind, This(r, b.accepted)),
                               [attempts[r] EXCEPT ![Len(attempts[r])] = a])
<1>1. /\ AttemptShape(a) /\ a.candidate = b.candidate /\ a.admission = admission /\ a.probe = NoProbe
      /\ a.sent = b.sent /\ a.accepted = b.accepted /\ a.committed = b.committed /\ a.failure = b.failure
  BY DEF Settled, AttemptShape
<1>2. Closed(a)
  BY <1>1 DEF Closed
<1>3. RequestOK(runs[r], attempts[r]) /\ runs[r].pc \in Active
  BY DEF RuntimeIInv, Active
<1>4. PICK more : more = This(r, b.accepted)
  OBVIOUS
<1>5. more = IF a.accepted THEN <<Len(attempts[r])>> ELSE <<>>
  BY <1>1, <1>4 DEF This
<1>6. \A kind : RequestOK(Answered(runs[r], kind, more), [attempts[r] EXCEPT ![Len(attempts[r])] = a])
  BY <1>1, <1>2, <1>3, <1>5, EndsKeep
<1> QED BY <1>1, <1>2, <1>4, <1>6

LEMMA AnsweringKeeps ==
    ASSUME RuntimeIInv, NEW r \in Requests,
           \/ \E committed \in BOOLEAN : Succeeds(r, committed)
           \/ \E accepted, committed \in BOOLEAN :
               \/ \E failure \in Failures : Fails(r, accepted, committed, failure)
               \/ Interrupted(r, accepted, committed)
           \/ Contradicts(r)
    PROVE  RuntimeIInv'
<1>1. runs[r].pc = "InFlight"
  BY DEF Succeeds, Fails, Interrupted, Contradicts, AtPc
<1>2. /\ RequestOK(runs[r], attempts[r]) /\ AttemptShape(Current(r)) /\ Current(r).sent
      /\ Current(r).candidate = runs[r].target
  BY <1>1, CurrentIs DEF Active
<1>4. ASSUME NEW committed \in BOOLEAN, Succeeds(r, committed)
      PROVE  RuntimeIInv'
  <2>1. PICK b, a : /\ b = [Current(r) EXCEPT !.accepted = TRUE, !.committed = committed]
                    /\ a = Settled(b, "Charged", "Success")
    OBVIOUS
  <2>2. AttemptShape(b) /\ b.candidate = runs[r].target /\ b.sent /\ b.accepted = TRUE
    BY <1>2, <2>1 DEF AttemptShape
  <2>3. \A kind : RequestOK(Answered(runs[r], kind, This(r, TRUE)),
                            [attempts[r] EXCEPT ![Len(attempts[r])] = a])
    BY <1>1, <2>1, <2>2, AnswerIs
  <2>4. Finalize(r, b, "Charged", "Success",
            Answered(runs[r], "Succeeded", This(r, TRUE)), Answered(runs[r], "Error", This(r, TRUE)))
    BY <1>4, <2>1 DEF Succeeds
  <2> QED BY <1>1, <2>1, <2>3, <2>4, FinalizeKeeps
<1>5. ASSUME NEW accepted \in BOOLEAN, NEW committed \in BOOLEAN, NEW failure \in Failures,
             Fails(r, accepted, committed, failure)
      PROVE  RuntimeIInv'
  <2>1. PICK b, admission, outcome, a :
            /\ b = [Current(r) EXCEPT !.accepted = accepted, !.committed = committed, !.failure = failure]
            /\ admission = IF accepted THEN "Charged" ELSE "Released"
            /\ outcome = CircuitFailureOutcome(failure) /\ a = Settled(b, admission, outcome)
    OBVIOUS
  <2>2. /\ AttemptShape(b) /\ b.candidate = runs[r].target /\ b.sent
        /\ b.accepted = accepted /\ b.committed = committed /\ b.failure = failure
    BY <1>2, <2>1 DEF AttemptShape
  <2>3. failure # "None"
    BY RuntimeAssumption DEF RuntimeAssumption, FailureClass
  <2>4. /\ AttemptShape(a) /\ a.candidate = runs[r].target /\ Closed(a)
        /\ b.accepted = a.accepted /\ b.failure = a.failure /\ b.committed = a.committed
        /\ \A kind : RequestOK(Answered(runs[r], kind, This(r, accepted)),
                               [attempts[r] EXCEPT ![Len(attempts[r])] = a])
    <3>1. b.accepted \in BOOLEAN /\ b.failure # "None" /\ a = Settled(b, admission, outcome)
          /\ admission = IF b.accepted THEN "Charged" ELSE "Released"
      BY <2>1, <2>2, <2>3
    <3>2. /\ AttemptShape(a) /\ a.candidate = runs[r].target /\ Closed(a)
          /\ b.accepted = a.accepted /\ b.failure = a.failure /\ b.committed = a.committed
      BY <2>2, <3>1 DEF Settled, AttemptShape, Closed
    <3>3. \A kind : RequestOK(Answered(runs[r], kind, This(r, b.accepted)),
                              [attempts[r] EXCEPT ![Len(attempts[r])] = a])
      BY <1>1, <2>2, <3>1, AnswerIs
    <3> QED BY <2>2, <3>2, <3>3
  <2>5. RequestOK(Advance(runs[r], b, Len(attempts[r])), [attempts[r] EXCEPT ![Len(attempts[r])] = a])
    BY <1>1, <1>2, <2>4, AdvanceKeeps
  <2>6. Finalize(r, b, admission, outcome, Advance(runs[r], b, Len(attempts[r])),
            Answered(runs[r], "Error", This(r, accepted)))
    BY <1>5, <2>1 DEF Fails
  <2> QED BY <1>1, <2>1, <2>4, <2>5, <2>6, FinalizeKeeps
<1>6. ASSUME NEW accepted \in BOOLEAN, NEW committed \in BOOLEAN, Interrupted(r, accepted, committed)
      PROVE  RuntimeIInv'
  <2>1. PICK b, admission, outcome, a :
            /\ b = [Current(r) EXCEPT !.accepted = accepted, !.committed = committed, !.failure = "Interrupted"]
            /\ admission = IF accepted THEN "Charged" ELSE "Released"
            /\ outcome = IF accepted THEN "RetryableFailure" ELSE "Neutral"
            /\ a = Settled(b, admission, outcome)
    OBVIOUS
  <2>2. /\ AttemptShape(b) /\ b.candidate = runs[r].target /\ b.sent
        /\ b.accepted = accepted /\ b.failure = "Interrupted"
    BY <1>2, <2>1 DEF AttemptShape
  <2>3. \A kind : RequestOK(Answered(runs[r], kind, This(r, accepted)),
                            [attempts[r] EXCEPT ![Len(attempts[r])] = a])
    <3>1. b.accepted \in BOOLEAN /\ b.failure # "None" /\ a = Settled(b, admission, outcome)
          /\ admission = IF b.accepted THEN "Charged" ELSE "Released"
      BY <2>1, <2>2
    <3> QED BY <1>1, <2>2, <3>1, AnswerIs
  <2>4. Finalize(r, b, admission, outcome, Answered(runs[r], "Error", This(r, accepted)),
            Answered(runs[r], "Error", This(r, accepted)))
    BY <1>6, <2>1 DEF Interrupted
  <2> QED BY <1>1, <2>1, <2>3, <2>4, FinalizeKeeps
<1>7. CASE Contradicts(r)
  <2>1. PICK b, a : /\ b = [Current(r) EXCEPT !.accepted = TRUE, !.committed = TRUE, !.failure = "Contradiction"]
                    /\ a = Settled(b, "Charged", "RetryableFailure")
    OBVIOUS
  <2>2. AttemptShape(b) /\ b.candidate = runs[r].target /\ b.sent /\ b.accepted = TRUE
    BY <1>2, <2>1 DEF AttemptShape
  <2>3. \A kind : RequestOK(Answered(runs[r], kind, This(r, TRUE)),
                            [attempts[r] EXCEPT ![Len(attempts[r])] = a])
    BY <1>1, <2>1, <2>2, AnswerIs
  <2>4. Finalize(r, b, "Charged", "RetryableFailure", Answered(runs[r], "Error", This(r, TRUE)),
            Answered(runs[r], "Error", This(r, TRUE)))
    BY <1>7, <2>1 DEF Contradicts
  <2> QED BY <1>1, <2>1, <2>3, <2>4, FinalizeKeeps
<1> QED BY <1>4, <1>5, <1>6, <1>7

LEMMA DroppingKeeps ==
    ASSUME RuntimeIInv, NEW r \in Requests, DropInFlight(r) \/ DropPreparing(r)
    PROVE  RuntimeIInv'
<1>1. runs[r].pc \in Active /\ (DropInFlight(r) => runs[r].pc = "InFlight")
                            /\ (DropPreparing(r) => runs[r].pc = "Authorise")
  BY DEF DropInFlight, DropPreparing, AtPc, Active
<1>2. /\ RequestOK(runs[r], attempts[r]) /\ AttemptShape(Current(r)) /\ Fresh(Current(r))
      /\ Current(r).candidate = runs[r].target /\ (Current(r).sent <=> runs[r].pc = "InFlight")
  BY <1>1, CurrentIs
<1>3. PICK admission, outcome : /\ SetCurrent(r, Settled(Current(r), admission, outcome))
                                /\ runs' = [runs EXCEPT ![r] = [runs[r] EXCEPT !.pc = "Dropped"]]
                                /\ \/ DropInFlight(r) /\ admission = "Unknown"
                                   \/ DropPreparing(r) /\ admission = "Released"
  BY DEF DropInFlight, DropPreparing, RuntimeIInv
<1>4. PICK a : a = Settled(Current(r), admission, outcome)
  OBVIOUS
<1>5. AttemptShape(a) /\ a.candidate = runs[r].target /\ (Closed(a) \/ Abandoned(a))
  BY <1>1, <1>2, <1>3, <1>4, SettledIs DEF Closed, Abandoned, Fresh
<1>6. RequestOK([runs[r] EXCEPT !.pc = "Dropped"], [attempts[r] EXCEPT ![Len(attempts[r])] = a])
  BY <1>1, <1>2, <1>5, DropsKeep
<1> QED BY <1>3, <1>4, <1>6, OneAttempt

LEMMA LapsingKeeps ==
    ASSUME RuntimeIInv, NEW r \in Requests, NEW i \in DOMAIN attempts[r], PermitLapses(r, i)
    PROVE  RuntimeIInv'
<1>1. RequestOK(runs[r], attempts[r]) /\ attempts[r][i].admission = "Unknown"
  BY DEF RuntimeIInv, PermitLapses
<1>2. PICK z : z = [attempts[r] EXCEPT ![i] = [attempts[r][i] EXCEPT !.admission = "Lapsed"]]
  OBVIOUS
<1>3. RequestOK(runs[r], z)
  BY <1>1, <1>2, LapseKeeps
<1>4. attempts' = [attempts EXCEPT ![r] = z] /\ runs' = [runs EXCEPT ![r] = runs[r]]
  BY <1>2 DEF PermitLapses, RuntimeIInv
<1> QED BY <1>3, <1>4, OneRequest

LEMMA RuntimeInvariant == RuntimeSpec => []RuntimeIInv
<1>1. RuntimeInit => RuntimeIInv
  <2> SUFFICES ASSUME RuntimeInit PROVE RuntimeIInv
    OBVIOUS
  <2>1. PICK safe \in [Requests -> BOOLEAN] : runs = [r \in Requests |-> NewRun(r, safe[r])]
    BY DEF RuntimeInit
  <2>2. attempts = [r \in Requests |-> <<>>]
    BY DEF RuntimeInit
  <2>3. ASSUME NEW r \in Requests PROVE RequestOK(runs[r], attempts[r])
    <3>1. PICK u : u = NewRun(r, safe[r])
      OBVIOUS
    <3>2. runs[r] = u /\ attempts[r] = <<>>
      BY <2>1, <2>2, <3>1
    <3>3. IsSeq(<<>>) /\ Len(<<>>) = 0 /\ DOMAIN <<>> = {}
      <4>1. <<>> \in Seq({})
        OBVIOUS
      <4> QED BY <4>1 DEF IsSeq
    <3>4. RunShape(u) /\ u.pc = "Idle" /\ u.accepted = <<>>
      BY <3>1, <3>3 DEF NewRun, NoPlan, RunShape, Places
    <3> QED BY <3>2, <3>3, <3>4 DEF RequestOK, AttemptsFit, AcceptedFits, Planned, Active, Lists
  <2> QED BY <2>1, <2>2, <2>3 DEF RuntimeIInv
<1>2. RuntimeIInv /\ [RuntimeNext]_runtimeVars => RuntimeIInv'
  <2> SUFFICES ASSUME RuntimeIInv, [RuntimeNext]_runtimeVars PROVE RuntimeIInv'
    OBVIOUS
  <2>1. CASE UNCHANGED runtimeVars
    BY <2>1 DEF runtimeVars, RuntimeIInv
  <2>2. CASE \E c \in Candidates : ResetCircuit(c)
    BY <2>2 DEF ResetCircuit, RuntimeIInv
  <2>3. ASSUME NEW r \in Requests,
               \/ LoadFails(r) \/ AfterRefusal(r) \/ NoSlotLeft(r) \/ DropLoading(r)
               \/ \E w \in Worlds : StartRoute(r, w) \/ RetryRoute(r, w)
        PROVE  RuntimeIInv'
    BY <2>3, BetweenKeeps, StartKeeps, RetryKeeps
  <2>4. ASSUME NEW r \in Requests,
               \/ PrepareFails(r) \/ AuthoriseFails(r) \/ DispatchFails(r)
               \/ ProbeRejected(r) \/ ProbeInvalidated(r)
               \/ AcquireCircuitProbe(r) \/ Authorised(r) \/ Dispatch(r)
        PROVE  RuntimeIInv'
    BY <2>4, PreDispatchKeeps, PrepareKeeps
  <2>5. ASSUME NEW r \in Requests,
               \/ \E committed \in BOOLEAN : Succeeds(r, committed)
               \/ \E accepted, committed \in BOOLEAN :
                   \/ \E failure \in Failures : Fails(r, accepted, committed, failure)
                   \/ Interrupted(r, accepted, committed)
               \/ Contradicts(r)
        PROVE  RuntimeIInv'
    BY <2>5, AnsweringKeeps
  <2>6. ASSUME NEW r \in Requests,
               DropInFlight(r) \/ DropPreparing(r) \/ \E i \in DOMAIN attempts[r] : PermitLapses(r, i)
        PROVE  RuntimeIInv'
    BY <2>6, DroppingKeeps, LapsingKeeps
  <2> QED BY <2>1, <2>2, <2>3, <2>4, <2>5, <2>6 DEF RuntimeNext
<1> QED BY <1>1, <1>2, PTL DEF RuntimeSpec

-----------------------------------------------------------------------------
(* What the runtime promises.                                              *)

\* However a routed request ends, no permit and no probe of any of its attempts
\* stays behind, the admission agrees with what the provider did, and the answer
\* lists exactly the attempts to be metered.
THEOREM EveryAttemptEnds == RuntimeSpec => []AttemptsAreSettled
<1>1. ASSUME RuntimeIInv PROVE EveryAttemptIsSettled
  <2> SUFFICES ASSUME NEW r \in Requests, NEW i \in DOMAIN attempts[r]
               PROVE  /\ Over(r) \/ i < Len(attempts[r]) =>
                            attempts[r][i].admission # "Held" /\ attempts[r][i].probe = NoProbe
                      /\ attempts[r][i].accepted <=> attempts[r][i].admission = "Charged"
                      /\ attempts[r][i].admission \in {"Unknown", "Lapsed"} =>
                            attempts[r][i].sent /\ runs[r].pc = "Dropped" /\ i = Len(attempts[r])
                      /\ attempts[r][i].admission = "Released" /\ attempts[r][i].sent =>
                            attempts[r][i].failure # "None"
    BY DEF EveryAttemptIsSettled
  <2>1. RequestOK(runs[r], attempts[r])
    BY <1>1 DEF RuntimeIInv
  <2>2. Len(attempts[r]) \in Nat /\ DOMAIN attempts[r] = 1..Len(attempts[r])
    BY <2>1, SeqFacts DEF RequestOK, AttemptsFit
  <2>3. CASE i < Len(attempts[r])
    <3>1. FailedOver(attempts[r][i])
      BY <2>1, <2>3 DEF RequestOK, AttemptsFit
    <3> QED BY <2>3, <3>1 DEF FailedOver, Closed
  <2>4. CASE i = Len(attempts[r])
    <3>1. LastFits(runs[r].pc, attempts[r][i]) /\ runs[r].pc \in Places /\ runs[r].pc # "Idle"
      BY <2>1, <2>2, <2>4 DEF RequestOK, AttemptsFit, RunShape
    <3> QED BY <2>2, <2>4, <3>1 DEF LastFits, Places, Fresh, FailedOver, Closed, Abandoned, Over
  <2> QED BY <2>2, <2>3, <2>4
<1>2. ASSUME RuntimeIInv PROVE AcceptancesAreReported
  BY <1>2 DEF RuntimeIInv, RequestOK, AcceptedFits, AcceptancesAreReported
<1> QED BY <1>1, <1>2, RuntimeInvariant, PTL DEF AttemptsAreSettled

\* Another attempt is made only after a failure before the first byte, of a class
\* worth retrying, for an operation that may be repeated, within the ceiling, and
\* at a later candidate of the first plan, or again at its last.
THEOREM RetriesStaySafe == RuntimeSpec => []RetriesAreSafe
<1>1. ASSUME RuntimeIInv PROVE RetriesAreSafe
  <2> SUFFICES ASSUME NEW r \in Requests, NEW i \in DOMAIN attempts[r], NEW j \in DOMAIN attempts[r], i < j
               PROVE  /\ Retryable(attempts[r][i].failure) /\ ~attempts[r][i].committed
                      /\ runs[r].plan.safe /\ Len(attempts[r]) <= MaxAttempts
                      /\ IndexIn(runs[r].plan, attempts[r][i].candidate)
                           <= IndexIn(runs[r].plan, attempts[r][j].candidate)
                      /\ attempts[r][i].candidate = attempts[r][j].candidate =>
                           ~HasNext(runs[r].plan, attempts[r][j].candidate)
    BY DEF RetriesAreSafe
  <2>1. RequestOK(runs[r], attempts[r])
    BY <1>1 DEF RuntimeIInv
  <2>2. Len(attempts[r]) \in Nat /\ DOMAIN attempts[r] = 1..Len(attempts[r]) /\ i \in Nat /\ j \in Nat
    BY <2>1, SeqFacts DEF RequestOK, AttemptsFit
  <2>3. i < Len(attempts[r]) /\ Len(attempts[r]) > 1 /\ Len(attempts[r]) # 0
    BY <2>2
  <2>4. PlanFits(runs[r], attempts[r]) /\ runs[r].ordinal \in Nat
    BY <2>1, <2>3 DEF RequestOK, Planned, RunShape
  <2>5. Retryable(attempts[r][i].failure) /\ ~attempts[r][i].committed
    BY <2>1, <2>3 DEF RequestOK, AttemptsFit, FailedOver
  <2>6. runs[r].plan.safe /\ Len(attempts[r]) <= MaxAttempts
    BY <2>2, <2>3, <2>4, RuntimeAssumption DEF PlanFits, RuntimeAssumption
  <2>7. /\ IndexIn(runs[r].plan, attempts[r][i].candidate) \in Nat
        /\ IndexIn(runs[r].plan, attempts[r][j].candidate) \in Nat
    BY <2>4, IndexTypes DEF PlanFits
  <2>8. Before(runs[r].plan, attempts[r][i].candidate, attempts[r][j].candidate)
    BY <2>4 DEF PlanFits
  <2> QED BY <2>5, <2>6, <2>7, <2>8 DEF Before
<1> QED BY <1>1, RuntimeInvariant, PTL

\* A step of one request leaves the others where they are; only the dispatch puts
\* an attempt in flight.
LEMMA OnlyDispatchSends ==
    ASSUME RuntimeIInv, [RuntimeNext]_runtimeVars, NEW r \in Requests,
           runs[r].pc = "Ready", runs'[r].pc = "InFlight"
    PROVE  Dispatch(r)
<1>1. runs'[r] # runs[r]
  OBVIOUS
<1>2. ~UNCHANGED runtimeVars /\ ~\E c \in Candidates : ResetCircuit(c)
  BY <1>1 DEF runtimeVars, ResetCircuit
<1>3. ASSUME NEW q \in Requests, NEW u, runs' = [runs EXCEPT ![q] = u]
      PROVE  q = r /\ u.pc = "InFlight"
  BY <1>1, <1>3 DEF RuntimeIInv
<1>4. \A u, kind, more : Answered(u, kind, more).pc = "Ended" \/ "pc" \notin DOMAIN u
  BY DEF Answered
<1>5. \A q \in Requests : "pc" \in DOMAIN runs[q]
  BY DEF RuntimeIInv, RequestOK, RunShape
<1>6. ASSUME NEW q \in Requests,
             \/ LoadFails(q) \/ NoSlotLeft(q) \/ AfterRefusal(q) \/ DropLoading(q)
             \/ \E w \in Worlds : StartRoute(q, w) \/ RetryRoute(q, w)
      PROVE  FALSE
  <2>1. runs[q].pc \in {"Idle", "Refused", "Retry"}
    BY <1>6 DEF LoadFails, NoSlotLeft, AfterRefusal, DropLoading, StartRoute, RetryRoute, AtPc
  <2>2. \E u : runs' = [runs EXCEPT ![q] = u]
    BY <1>6 DEF LoadFails, NoSlotLeft, AfterRefusal, DropLoading, StartRoute, RetryRoute, Admit
  <2> QED BY <1>3, <2>1, <2>2
<1>7. ASSUME NEW q \in Requests,
             \/ PrepareFails(q) \/ AcquireCircuitProbe(q) \/ ProbeRejected(q)
             \/ AuthoriseFails(q) \/ Authorised(q) \/ DropPreparing(q)
      PROVE  FALSE
  <2>1. runs[q].pc \in {"Prepare", "Authorise"}
    BY <1>7 DEF PrepareFails, AcquireCircuitProbe, ProbeRejected, AuthoriseFails, Authorised,
                DropPreparing, AtPc
  <2>2. \E u : runs' = [runs EXCEPT ![q] = u]
    BY <1>7 DEF PrepareFails, AcquireCircuitProbe, ProbeRejected, AuthoriseFails, Authorised,
                DropPreparing, ReleasePreDispatch
  <2> QED BY <1>3, <2>1, <2>2
<1>8. ASSUME NEW q \in Requests, ProbeInvalidated(q) \/ DispatchFails(q) PROVE FALSE
  <2>1. runs' = [runs EXCEPT ![q] = Answered(runs[q], "Error", <<>>)]
    BY <1>8 DEF ProbeInvalidated, DispatchFails, ReleasePreDispatch
  <2>2. Answered(runs[q], "Error", <<>>).pc = "InFlight"
    BY <1>3, <2>1
  <2>3. Answered(runs[q], "Error", <<>>).pc = "Ended"
    BY <1>5 DEF Answered
  <2> QED BY <2>2, <2>3
<1>9. ASSUME NEW q \in Requests,
             \/ \E committed \in BOOLEAN : Succeeds(q, committed)
             \/ \E accepted, committed \in BOOLEAN :
                 \/ \E failure \in Failures : Fails(q, accepted, committed, failure)
                 \/ Interrupted(q, accepted, committed)
             \/ Contradicts(q) \/ DropInFlight(q)
      PROVE  FALSE
  <2>1. runs[q].pc = "InFlight"
    BY <1>9 DEF Succeeds, Fails, Interrupted, Contradicts, DropInFlight, AtPc
  <2>2. CASE DropInFlight(q)
    <3>1. \E u : runs' = [runs EXCEPT ![q] = u]
      BY <2>2 DEF DropInFlight
    <3> QED BY <1>3, <2>1, <3>1
  <2>3. ASSUME NEW b, NEW admission, NEW outcome, NEW finalized, NEW refused,
               Finalize(q, b, admission, outcome, finalized, refused)
        PROVE  FALSE
    <3>1. \E u : runs' = [runs EXCEPT ![q] = u]
      BY <2>3 DEF Finalize
    <3> QED BY <1>3, <2>1, <3>1
  <2>4. \A committed \in BOOLEAN : ~Succeeds(q, committed)
    BY <2>3 DEF Succeeds
  <2>5. \A accepted, committed \in BOOLEAN : \A failure \in Failures : ~Fails(q, accepted, committed, failure)
    BY <2>3 DEF Fails
  <2>6. \A accepted, committed \in BOOLEAN : ~Interrupted(q, accepted, committed)
    BY <2>3 DEF Interrupted
  <2>7. ~Contradicts(q)
    BY <2>3 DEF Contradicts
  <2> QED BY <1>9, <2>2, <2>4, <2>5, <2>6, <2>7
<1>10. ASSUME NEW q \in Requests, Dispatch(q) PROVE q = r
  <2>1. \E u : runs' = [runs EXCEPT ![q] = u]
    BY <1>10 DEF Dispatch
  <2> QED BY <1>3, <2>1
<1>11. ~\E q \in Requests : \E i \in DOMAIN attempts[q] : PermitLapses(q, i)
  BY <1>1 DEF PermitLapses
<1> QED BY <1>2, <1>6, <1>7, <1>8, <1>9, <1>10, <1>11 DEF RuntimeNext

CircuitsKnown == circuits = [c \in Candidates |-> circuits[c]]

LEMMA CircuitsStayKnown == RuntimeSpec => []CircuitsKnown
<1>1. RuntimeInit => CircuitsKnown
  BY DEF RuntimeInit, CircuitsKnown
<1>2. CircuitsKnown /\ [RuntimeNext]_runtimeVars => CircuitsKnown'
  <2> SUFFICES ASSUME CircuitsKnown, [RuntimeNext]_runtimeVars PROVE CircuitsKnown'
    OBVIOUS
  <2>1. ASSUME NEW c, NEW circuit, SetCircuit(c, circuit) PROVE CircuitsKnown'
    BY <2>1 DEF SetCircuit, CircuitsKnown
  <2>2. ASSUME UNCHANGED circuits PROVE CircuitsKnown'
    BY <2>2 DEF CircuitsKnown
  <2>3. CASE UNCHANGED runtimeVars \/ \E c \in Candidates : ResetCircuit(c)
    BY <2>1, <2>2, <2>3 DEF runtimeVars, ResetCircuit
  <2>4. ASSUME NEW r \in Requests,
               \/ LoadFails(r) \/ AfterRefusal(r) \/ NoSlotLeft(r) \/ DropLoading(r) \/ Authorised(r)
               \/ \E w \in Worlds : StartRoute(r, w) \/ RetryRoute(r, w)
               \/ \E i \in DOMAIN attempts[r] : PermitLapses(r, i)
        PROVE  CircuitsKnown'
    BY <2>2, <2>4 DEF LoadFails, AfterRefusal, NoSlotLeft, DropLoading, Authorised, StartRoute, RetryRoute,
                      PermitLapses
  <2>5. ASSUME NEW r \in Requests,
               \/ PrepareFails(r) \/ AuthoriseFails(r) \/ DispatchFails(r)
               \/ ProbeRejected(r) \/ ProbeInvalidated(r) \/ AcquireCircuitProbe(r) \/ Dispatch(r)
               \/ DropInFlight(r) \/ DropPreparing(r)
        PROVE  CircuitsKnown'
    <3>1. \E c, circuit : SetCircuit(c, circuit)
      BY <2>5 DEF PrepareFails, AuthoriseFails, DispatchFails, ProbeRejected, ProbeInvalidated,
                  AcquireCircuitProbe, Dispatch, DropInFlight, DropPreparing, ReleasePreDispatch
    <3> QED BY <2>1, <3>1
  <2>6. ASSUME NEW r \in Requests, NEW b, NEW admission, NEW outcome, NEW finalized, NEW refused,
               Finalize(r, b, admission, outcome, finalized, refused)
        PROVE  CircuitsKnown'
    BY <2>1, <2>6 DEF Finalize
  <2>7. ASSUME NEW r \in Requests,
               \/ \E committed \in BOOLEAN : Succeeds(r, committed)
               \/ \E accepted, committed \in BOOLEAN :
                   \/ \E failure \in Failures : Fails(r, accepted, committed, failure)
                   \/ Interrupted(r, accepted, committed)
               \/ Contradicts(r)
        PROVE  CircuitsKnown'
    <3>1. ASSUME NEW committed \in BOOLEAN, Succeeds(r, committed) PROVE CircuitsKnown'
      BY <2>6, <3>1 DEF Succeeds
    <3>2. ASSUME NEW accepted \in BOOLEAN, NEW committed \in BOOLEAN, NEW failure \in Failures,
                 Fails(r, accepted, committed, failure)
          PROVE  CircuitsKnown'
      BY <2>6, <3>2 DEF Fails
    <3>3. ASSUME NEW accepted \in BOOLEAN, NEW committed \in BOOLEAN, Interrupted(r, accepted, committed)
          PROVE  CircuitsKnown'
      BY <2>6, <3>3 DEF Interrupted
    <3>4. CASE Contradicts(r)
      BY <2>6, <3>4 DEF Contradicts
    <3> QED BY <2>7, <3>1, <3>2, <3>3, <3>4
  <2> QED BY <2>3, <2>4, <2>5, <2>7 DEF RuntimeNext
<1> QED BY <1>1, <1>2, PTL DEF RuntimeSpec

\* The step that hands an attempt to its provider looks at the circuit again and
\* takes place only while the circuit honours the probe, whatever happened to the
\* circuit since the probe was acquired.
THEOREM DispatchIsAdmitted == RuntimeSpec => DispatchesAreAdmittedByTheCircuit
<1>1. ASSUME RuntimeIInv, CircuitsKnown, [RuntimeNext]_runtimeVars, NEW r \in Requests,
             runs[r].pc = "Ready", runs'[r].pc = "InFlight"
      PROVE  Holds(circuits'[AccountOf(r)], Current(r).probe, Id(r))
  <2>1. PICK valid \in Validated(circuits[AccountOf(r)], Current(r).probe, Id(r)) :
            valid.ok /\ SetCircuit(AccountOf(r), valid.circuit)
    BY <1>1, OnlyDispatchSends DEF Dispatch
  <2>2. /\ Holds(circuits[AccountOf(r)], Current(r).probe, Id(r))
        /\ valid.circuit = circuits[AccountOf(r)]
    BY <2>1 DEF Validated, Refused, Reclaimed
  <2>3. circuits' = circuits
    BY <1>1, <2>1, <2>2 DEF SetCircuit, CircuitsKnown
  <2> QED BY <2>2, <2>3
<1>2. RuntimeIInv /\ CircuitsKnown /\ [RuntimeNext]_runtimeVars =>
        [\A r \in Requests : runs[r].pc = "Ready" /\ runs'[r].pc = "InFlight" =>
           Holds(circuits'[AccountOf(r)], Current(r).probe, Id(r))]_runtimeVars
  BY <1>1
<1> QED BY <1>2, RuntimeInvariant, CircuitsStayKnown, PTL DEF RuntimeSpec, DispatchesAreAdmittedByTheCircuit
=============================================================================
