--------------------------- MODULE RouteSelection ---------------------------
(***************************************************************************)
(* How the coordinator picks a candidate and a retry plan from immutable   *)
(* snapshots (ariadnion-routing-coordinator, with the policy, cost and     *)
(* failover crates it calls).  Everything here is a pure function of one   *)
(* world, the snapshots and the attempt-local times of one coordination    *)
(* request; admission, the only part with an effect, is in RoutingRuntime. *)
(*                                                                         *)
(* A candidate is a number: pools are sorted by identity, and ties go to   *)
(* the smaller one.  A signal tells of a candidate Pass, Degraded, Deny or *)
(* Unknown, the last also when its account is not listed.                  *)
(***************************************************************************)
EXTENDS Naturals, FiniteSets, Sequences
LOCAL INSTANCE SequencesExt

SignalOrder == <<"Health", "Circuit", "Quota", "Schedule", "Proxy">>

\* What the optional WASM policy answers.  Traps, timeouts, exhausted
\* resources and invalid output are Degraded; other failures are an Error.
WasmAnswer == {"NotInstalled", "Error", "Degraded", "Decline", "Select"}

-----------------------------------------------------------------------------
(* Eligibility.                                                            *)

\* initial_exclusion, then apply_effective_windows.
BaseExclusion(meta) ==
    CASE ~meta.available -> "PoolUnavailable"
      [] ~meta.mapped    -> "ModelMappingMissing"
      [] ~meta.effective -> "ScheduleClosed"
      [] OTHER           -> "None"

Unknown(signal, c) == ~signal.present \/ signal.view[c] = "Unknown"

SignalExclusion(signal, kind, c) ==
    CASE Unknown(signal, c) /\ signal.failClosed -> "MissingSignal"
      [] signal.present /\ signal.view[c] = "Deny" -> kind
      [] OTHER -> "None"

\* The first stage that excludes a candidate names the reason; later stages
\* look only at candidates that are still eligible.
StageReasons(w, c) ==
    <<BaseExclusion(w.meta[c])>>
        \o [i \in 1..Len(SignalOrder) |-> SignalExclusion(w.signals[SignalOrder[i]], SignalOrder[i], c)]

StageExclusion(w, c) ==
    LET reasons == StageReasons(w, c)
        first == SelectInSeq(reasons, LAMBDA reason : reason # "None")
    IN IF first = 0 THEN "None" ELSE reasons[first]

\* apply_pricing: no quote, too dear, or dearer than the preferred ones.
Quoted(w, pool) == {c \in pool : StageExclusion(w, c) = "None" /\ w.meta[c].price > 0}
Affordable(w, pool) == {c \in Quoted(w, pool) : w.meta[c].price <= w.hard}
Preferred(w, pool) == {c \in Affordable(w, pool) : w.meta[c].price <= w.soft}

Eligible(w, pool) ==
    IF Preferred(w, pool) # {} THEN Preferred(w, pool) ELSE Affordable(w, pool)

\* A signal is recorded as degraded when an eligible candidate passed its
\* stage without it.
ReachedStage(w, c, i) == \A j \in 1..i : StageReasons(w, c)[j] = "None"

Degradations(w, pool) ==
    {SignalOrder[i] : i \in {j \in 1..Len(SignalOrder) :
        LET signal == w.signals[SignalOrder[j]] IN
        \/ ~signal.present /\ ~signal.failClosed
        \/ \E c \in pool : /\ ReachedStage(w, c, j)
                           /\ signal.present
                           /\ \/ signal.view[c] = "Unknown" /\ ~signal.failClosed
                              \/ signal.view[c] = "Degraded"}}

-----------------------------------------------------------------------------
(* Selection: affinity, then the WASM policy, then weighted least load.    *)

Lighter(w, a, b) ==
    LET left == w.meta[a].load * w.meta[b].weight
        right == w.meta[b].load * w.meta[a].weight
    IN left < right \/ (left = right /\ a < b)

\* A candidate of weight zero is never chosen by the native policy.
Weighted(w, pool) == {c \in Eligible(w, pool) : w.meta[c].weight > 0}

WeightedWinner(w, pool) ==
    LET tier == {c \in Weighted(w, pool) :
                    \A d \in Weighted(w, pool) \ {c} : w.meta[c].priority <= w.meta[d].priority}
    IN CHOOSE c \in tier : \A d \in tier \ {c} : Lighter(w, c, d)

AffinityHit(w, pool) == w.affinity.asked /\ w.affinity.present /\ w.affinity.binding \in Eligible(w, pool)

\* The policy is asked only about a pool with eligible candidates.
PolicyAnswer(w, pool) == IF Eligible(w, pool) = {} THEN "NotInstalled" ELSE w.wasm.answer
PolicySelects(w, pool) == PolicyAnswer(w, pool) = "Select" /\ w.wasm.pick \in Eligible(w, pool)
PolicyFails(w, pool) ==
    PolicyAnswer(w, pool) \in {"Error", "Select"} /\ ~PolicySelects(w, pool)

\* Pools are sorted by identity.
PoolOrder(S) == CHOOSE s \in [1..Cardinality(S) -> S] : \A i, j \in DOMAIN s : i < j => s[i] < s[j]

\* build_retry_plan: the selected candidate, then the eligible in pool order.
RetryPlan(w, pool, selected, max) ==
    LET rest == PoolOrder(Eligible(w, pool) \ {selected})
        room == IF Len(rest) < max - 1 THEN Len(rest) ELSE max - 1
    IN <<selected>> \o SubSeq(rest, 1, room)

Failed(code) == [code |-> code, selected |-> 0, plan |-> <<>>, degraded |-> {}]

Chosen(w, pool, c, max, more) ==
    [code |-> "Ok", selected |-> c, plan |-> RetryPlan(w, pool, c, max),
     degraded |-> Degradations(w, pool) \cup more]

\* prepare_selection and build_retry_plan, up to the call of admit.  inputs is
\* the code of a model, tenant or snapshot that failed validation.
Route(w, pool, max) ==
    LET unaided == w.affinity.asked /\ ~w.affinity.present
        noted == (IF unaided THEN {"Affinity"} ELSE {})
                    \cup (IF PolicyAnswer(w, pool) = "Degraded" THEN {"RoutingPolicy"} ELSE {})
    IN CASE w.inputs # "Ok" -> Failed(w.inputs)
         [] ~w.priced -> Failed("PricingUnavailable")
         [] unaided /\ w.affinity.failClosed -> Failed("MissingSignal")
         [] AffinityHit(w, pool) -> Chosen(w, pool, w.affinity.binding, max, {})
         [] PolicyFails(w, pool) -> Failed("PolicyUnavailable")
         [] PolicySelects(w, pool) -> Chosen(w, pool, w.wasm.pick, max, noted)
         [] Weighted(w, pool) = {} -> Failed("NoEligibleCandidate")
         [] OTHER -> Chosen(w, pool, WeightedWinner(w, pool), max, noted)

-----------------------------------------------------------------------------
(* Failover: what the immutable plan says after a failed attempt.          *)

FailureClass == {"Transport", "TransientServer", "RateLimited", "Authentication",
                 "InvalidRequest", "Policy"}
Retryable(failure) == failure \in {"Transport", "TransientServer", "RateLimited"}

\* Mutant: the first byte does not stop the failover.
MayRetryAfterByte(plan, attempt, committed) == plan.safe /\ attempt < plan.max

MayRetry(plan, attempt, committed) == ~committed /\ plan.safe /\ attempt < plan.max

IndexIn(plan, c) == CHOOSE i \in DOMAIN plan.candidates : plan.candidates[i] = c
HasNext(plan, c) == IndexIn(plan, c) < Len(plan.candidates)
NextOf(plan, c) == plan.candidates[IndexIn(plan, c) + 1]

\* decide: the next candidate, or the last one again; 0 stops.
DecideFailure(plan, c, attempt, committed, failure) ==
    IF ~MayRetry(plan, attempt, committed) \/ ~Retryable(failure) THEN 0
    ELSE IF HasNext(plan, c) THEN NextOf(plan, c) ELSE c

\* admission_action: only another candidate helps, and only when the refusal
\* was about the account.
DecideRefusal(plan, c, attempt, committed, refusal) ==
    IF refusal = "Request" \/ ~MayRetry(plan, attempt, committed) \/ ~HasNext(plan, c) THEN 0
    ELSE NextOf(plan, c)

=============================================================================
