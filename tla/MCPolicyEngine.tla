--------------------------- MODULE MCPolicyEngine ---------------------------
(* PolicyEngine for TLC: the rules documents are made of. *)
EXTENDS PolicyEngine

CONSTANTS h1, h2, get, post

\* RTP rules, with inspection, and with mistyped destinations; the others with the fields
\* their schema allows, and one it does not.
MCRules ==
    {[type |-> "rtp", id |-> i, priority |-> p, domains |-> d, destinations |-> {},
      methods |-> m, inspect |-> {}, action |-> a] :
         i \in {1, 2}, p \in {NoPriority, 1}, d \in {{}, {h1}, {h1, PyOnly}},
         m \in {{}, {get}}, a \in {"allow", "block", "BLOCK", "continue", "INSPECT_DLP"}}
    \cup
    {[type |-> "rtp", id |-> i, priority |-> NoPriority, domains |-> d, destinations |-> e,
      methods |-> {}, inspect |-> n, action |-> a] :
         i \in {1, 2}, d \in {{}, {h1}}, e \in {{}, {NotAList}},
         n \in {{"dlp"}, {"dlp", "mcp"}}, a \in {"allow", "BLOCK"}}
    \cup
    {[type |-> t, id |-> 1, priority |-> NoPriority, domains |-> d, destinations |-> {},
      methods |-> {}, inspect |-> {}, action |-> a] :
         t \in {"bypass", "enterprise_browser"}, d \in {{}, {h1}, {Broken}},
         a \in {"bypass", "block", "continue"}}
    \cup
    {[type |-> "egress_ip", id |-> 1, priority |-> p, domains |-> {}, destinations |-> d,
      methods |-> {}, inspect |-> n, action |-> a] :
         p \in {0, 1}, d \in {{}, {h2}, {PyOnly}, {Broken}}, n \in {{}, {"mcp"}},
         a \in {"forward", "coach", "block"}}
=============================================================================
