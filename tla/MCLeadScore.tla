----------------------------- MODULE MCLeadScore ------------------------------
(* Rules of ru-mvp-7, with their weights, and a penalty, which that set does not have. *)
EXTENDS LeadScore

R(kind, target, dimension, weight) ==
    [kind |-> kind, target |-> target, dimension |-> dimension, weight |-> weight]

Catalogue ==
    <<R("hard_exclusion", "spam", "hard_exclusion", 0),            \* NEG-SPAM-001
      R("author_role", "provider_offer", "author_role", 0),        \* ROLE-PRO-001
      R("author_role", "vacancy", "author_role", 0),               \* ROLE-VAC-001
      R("author_role", "client_request", "author_role", 0),        \* ROLE-CLI-001
      R("service", "websites", "service_fit", 12),                 \* SVC-WEB-001
      R("service", "telegram_bots", "service_fit", 12),            \* SVC-BOT-001
      R("positive_intent", "direct_order", "intent", 18),         \* POS-DIR-004
      R("positive_intent", "contractor_search", "intent", 14),     \* POS-CTR-001
      R("positive_intent", "vacancy", "intent", 14),               \* POS-VAC-001
      R("positive_intent", "potential_need", "intent", 6),         \* POS-POT-001
      R("signal", "budget_present", "budget", 10),                 \* SIG-BUD-001
      R("signal", "spoiler", "soft_penalty", -45)>>

Caps == [intent |-> 25, service_fit |-> 20, specificity |-> 15, budget |-> 10]
===============================================================================
