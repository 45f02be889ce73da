------------------------------- MODULE TargetPlan ------------------------------
(***************************************************************************)
(* What a target's labels and type make of it: TargetPlan::derive of       *)
(* scheduler.rs with policy.rs, environment.rs, variant.rs and the         *)
(* translator registry, and how execution.rs puts it on a request.         *)
(* Operators only.  A label is what follows the first colon of the label   *)
(* buck2 sends, and what stands before it is "rust"; the order of a        *)
(* target's labels is theirs.                                              *)
(***************************************************************************)
EXTENDS Ordering

CONSTANTS
    ResourceLabels,    \* the labels local-resource=...
    OwnerLabels        \* the labels owner=...

\* TranslatorRegistry: the types that have a translator; the others are refused.
Translators ==
    [rust |-> [overrides |-> FALSE, attributable |-> TRUE],
     rust_doctest_v1 |-> [overrides |-> FALSE, attributable |-> FALSE],
     custom_test_v1 |-> [overrides |-> TRUE, attributable |-> FALSE]]

TargetTypes == {"rust", "rust_doctest_v1", "custom_test_v1"}

NoHardware == {}
DefaultProfile == [hardware |-> NoHardware, exclusive |-> FALSE, resources |-> {}]

\* What one label asks for.
Single(label) ==
    [hardware |-> {label} \cap {"gpu", "large-mem", "network-private"},
     exclusive |-> label \in {"exclusive", "serial_global_state"},
     resources |-> {label} \cap ResourceLabels]

Conflicting(hardware) == {"gpu", "large-mem"} \subseteq hardware

\* A slip: the last label decides on exclusivity.
Combine_LastWins(p, q) ==
    [hardware |-> p.hardware \cup q.hardware, exclusive |-> q.exclusive,
     resources |-> p.resources \cup q.resources]

\* SchedulingProfile::combine.
Combine(p, q) ==
    [hardware |-> p.hardware \cup q.hardware, exclusive |-> p.exclusive \/ q.exclusive,
     resources |-> p.resources \cup q.resources]

\* profile_from_labels, and derive's default when the labels conflict.
Profile(labels) ==
    LET p == FoldLeft(LAMBDA acc, l : Combine(acc, Single(l)), DefaultProfile, labels)
    IN IF Conflicting(p.hardware) THEN DefaultProfile ELSE p

\* RepeatKind: --stress is for every target, the stress label for those that carry it.
Repeats(labels, config) ==
    IF config.stress > 0 THEN config.stress
    ELSE IF "stress" \in ToSet(labels) THEN config.stressLabelReps ELSE 1

IsStress(labels, config) == config.stress > 0 \/ "stress" \in ToSet(labels)

\* TargetPlan::derive; the last owner label counts.
Derive(type, labels, config) ==
    LET owners == Keep(labels, OwnerLabels)
    IN [translator |-> Translators[type], policy |-> config.policy,
        attempts |-> IF ToSet(labels) \cap {"flaky", "retry"} # {} THEN config.flakyAttempts ELSE 1,
        quarantined |-> "quarantined" \in ToSet(labels),
        profile |-> Profile(labels), owner |-> IF owners = <<>> THEN "unowned" ELSE Last(owners),
        big |-> "big" \in ToSet(labels), repeats |-> Repeats(labels, config),
        stress |-> IsStress(labels, config)]

\* testing_profile: libtest and doctest targets leave their hardware and resources to buck2.
TestingProfile(plan, config) ==
    CASE ~plan.translator.overrides -> [plan.profile EXCEPT !.hardware = NoHardware, !.resources = {}]
      [] plan.translator.overrides /\ config.localDebug ->
            [plan.profile EXCEPT !.hardware = {"local-debug"}]
      [] plan.translator.overrides /\ ~config.localDebug -> plan.profile

\* executor_override_proto and host_sharing_proto: one executor, the first of these;
\* the listing's own executor is left out.
OnRequest(profile) ==
    LET order == Keep(<<"local-debug", "gpu", "large-mem", "network-private">>, profile.hardware)
    IN [executor |-> IF order = <<>> THEN "default" ELSE Head(order),
        exclusive |-> profile.exclusive, resources |-> profile.resources]

\* validate_cgroup_memory_overrides, for the tests with an override of their memory limit.
OverridesValid(target, overrides, listed) ==
    overrides # {} =>
        target.type = "rust" /\ "big" \in ToSet(target.labels) /\ overrides \subseteq ToSet(listed)

\* cgroup_memory_max_for_action: only an action of one test can have an override.
MemoryMax(overrides, names) ==
    CASE overrides \cap ToSet(names) = {} -> "default"
      [] overrides \cap ToSet(names) # {} /\ Len(names) = 1 -> "override"
      [] overrides \cap ToSet(names) # {} /\ Len(names) # 1 -> "refused"
===============================================================================
