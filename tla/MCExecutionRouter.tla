-------------------------- MODULE MCExecutionRouter --------------------------
(***************************************************************************)
(* Two providers (the local qwen3:8b profile, and one qualified for        *)
(* unattended mutation with a shorter timeout), two files, and requests    *)
(* that differ in supervision, scope, checks, contract and timeout.        *)
(***************************************************************************)
EXTENDS ExecutionRouter

McProfile ==
    [m \in Profiles |-> [provider |-> "local", provider_active |-> TRUE, active |-> m # 3,
        adapter |-> m # 2, offers |-> {"CODE"}, local |-> TRUE, privacy |-> 2,
        cost |-> m, latency |-> 0, quality |-> 50, context |-> 8, output |-> 4, price |-> 0]]

Ask(needs, fallbacks, attempts) ==
    [needs |-> needs, privacy |-> 1, max_cost |-> 4, quality |-> 0, context |-> 1,
     output |-> 1, budget |-> 0, prefers |-> 1, fallbacks |-> fallbacks,
     fallback_allowed |-> TRUE, max_attempts |-> attempts]

McGatewayRequests == {Ask({"CODE"}, <<2>>, 0), Ask({"TOOLS"}, << >>, 0)}

Qwen == [active |-> TRUE, offers |-> {"inspection_reasoning", "code_modification"},
         status |-> "QUALIFIED", supervised |-> FALSE, schema |-> FALSE, mutation |-> TRUE,
         unattended |-> TRUE, unattended_mutation |-> FALSE, evidence |-> FALSE,
         complexity |-> 1, verification |-> TRUE, rooted |-> TRUE, default_timeout |-> 2,
         max_timeout |-> 2, own_timeout |-> 5, rank |-> 0, reliability |-> 40,
         retry_or_failover |-> TRUE]

McRegistration == <<Qwen, [Qwen EXCEPT !.unattended_mutation = TRUE, !.evidence = TRUE,
                              !.default_timeout = 1, !.max_timeout = 1]>>

Supervised ==
    [read_only |-> FALSE, unattended |-> FALSE, supervised |-> TRUE,
     needs |-> {"code_modification"}, scope_valid |-> TRUE, paths |-> {1}, checks |-> TRUE,
     contract |-> <<[path |-> 2, repair |-> TRUE]>>, explicit |-> TRUE,
     verification |-> TRUE, complexity |-> 1, low_risk |-> TRUE, evidence |-> FALSE,
     evidence_required |-> FALSE, isolated |-> TRUE, side_effects |-> FALSE,
     timeout |-> NoTimeout]

McRequests ==
    { Supervised,
      [Supervised EXCEPT !.scope_valid = FALSE],
      [Supervised EXCEPT !.unattended = TRUE, !.supervised = FALSE, !.paths = {1, 2},
                         !.contract = << >>, !.evidence = TRUE, !.evidence_required = TRUE],
      [Supervised EXCEPT !.unattended = TRUE, !.supervised = FALSE, !.read_only = TRUE,
                         !.needs = {"inspection_reasoning"}, !.checks = FALSE, !.paths = {},
                         !.contract = <<[path |-> 1, repair |-> FALSE]>>] }
==============================================================================
