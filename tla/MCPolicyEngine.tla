---------------------------- MODULE MCPolicyEngine ----------------------------
(* An instance of PolicyEngine small enough for TLC. *)
EXTENDS PolicyEngine, TLC

CONSTANTS k1, k2, n1, e1, e2

Doc(critical, expires, first, second) ==
  [active |-> TRUE, critical |-> critical, expires |-> expires,
   verdict |-> (k1 :> first) @@ (k2 :> second)]

\* A document that vetoes the first ask and wants the second approved, one that
\* denies the first without a veto, until time 1, and one switched off.
Veto == Doc(TRUE, None, "deny", "approval_required")
Denial == Doc(FALSE, 0, "deny", "allow")
Off == [Doc(TRUE, None, "deny", "deny") EXCEPT !.active = FALSE]

MCDocuments == {Veto, Denial}
MCDefaults == <<Off>>

Setup(mode, opa, local, cache, default, emergency) ==
  [mode |-> mode, opa |-> opa, local |-> local, cache |-> cache, default |-> default,
   emergency |-> emergency]

\* OPA alone, OPA beside the documents, the documents alone under either
\* default, no decision at all, and emergency mode for the first ask.
MCConfigs ==
  {Setup("strict", TRUE, FALSE, TRUE, "deny", {}),
   Setup("fallback", TRUE, TRUE, TRUE, "deny", {}),
   Setup("fallback", FALSE, TRUE, TRUE, "allow", {}),
   Setup("fallback", FALSE, TRUE, FALSE, "deny", {k1}),
   Setup("strict", FALSE, TRUE, TRUE, "deny", {})}

\* The guard is off, as it is by default, and looks at no nonce.
Ask(k) == [ask |-> k, input |-> [key |-> n1, timestamp |-> 0]]

MCRequests == {Ask(k1), Ask(k2)}

==============================================================================
