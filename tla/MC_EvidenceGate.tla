-------------------------- MODULE MC_EvidenceGate --------------------------
EXTENDS EvidenceGate

MCFamilies == {"anthropic", "openai"}
Key(role, family, route) ==
  [role |-> role, family |-> family, route |-> route, from |-> 0, until |-> 9]
MCTrustKeys ==
  [k \in {"anthropic", "openai", "coordinator", "revocation", "runner-management"} |->
     IF k \in MCFamilies THEN Key("provider-review", k, "direct") ELSE Key(k, None, None)]

Execution(family, route, subject, verdict, raised, closed) ==
  [family |-> family, route |-> route, subject |-> subject, verdict |-> verdict,
   raised |-> raised, resolved |-> closed, acknowledged |-> closed]
\* Either family agrees; the first one may also object and accept the fix; an
\* agreement may come by another route or be about another subject.
MCExecutions ==
  {Execution(f, "direct", "subject", "AGREE", {}, {}) : f \in MCFamilies}
  \cup {Execution("anthropic", "direct", "subject", "REVISE", {"F1"}, {}),
        Execution("anthropic", "direct", "subject", "PARTIAL", {}, {"F1"}),
        Execution("openai", "direct", "subject", "PARTIAL", {}, {"F1"}),
        Execution("openai", "cursor", "other", "AGREE", {}, {})}

Lease(subject) ==
  [id |-> "lease", key |-> "runner-management", subject |-> subject, issuedAt |-> 0,
   expiresAt |-> GrantEnd]
MCLeases == {Lease("subject")}
MCWorkflows ==
  {[trigger |-> "workflow_dispatch", group |-> "literal", jobs |-> 1, steps |-> s] :
     s \in {<<"checkout", "bootstrap", "pinned">>, <<"bootstrap", "pinned">>}}
MCEntries ==
  {<<"review", 2>>, <<"key", "openai">>}
=============================================================================
