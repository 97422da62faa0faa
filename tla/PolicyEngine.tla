---------------------------- MODULE PolicyEngine ----------------------------
(***************************************************************************)
(* What a policy document means, from its upload to a decision:            *)
(* normalize_policy_document, validate_policy_document and                 *)
(* compile_policy_to_sqlite in the control plane, LoadFromDB, buildAST and *)
(* Decide in the proxy; and the decision of the older Engine on the flat   *)
(* documents that the control plane still accepts.                         *)
(*                                                                         *)
(* Domain and destination patterns are regular expressions; one that both  *)
(* languages compile is represented by the host it matches.  Names,        *)
(* messages and the conditions that no code reads are left out.            *)
(***************************************************************************)
EXTENDS Integers, SequencesExt

CONSTANTS
    Hosts, Methods,
    PyOnly,    \* a pattern that Python's re compiles and Go's regexp does not
    Broken,    \* a pattern that neither compiles
    NotAList,  \* destinations that are a string where a list is meant
    Rules,     \* the rules documents are made of, as uploaded
    MaxRules,  \* max_rules, the most rules of a document
    MaxUpload  \* bound: rules of the documents that are uploaded

ASSUME MaxRulesAssumption == MaxRules \in Nat /\ MaxUpload \in Nat
ASSUME PatternsAssumption == PyOnly \notin Hosts /\ Broken \notin Hosts
ASSUME NotAListAssumption == NotAList \notin Hosts \cup {PyOnly, Broken}

Patterns == Hosts \cup {PyOnly, Broken}
POLICY_TYPES == {"rtp", "bypass", "egress_ip", "enterprise_browser"}
TERMINAL_ACTIONS == {"ALLOW", "BLOCK", "BYPASS", "FWD", "COACH", "CONTINUE"}
NoPriority == -1

\* Actions as uploaded.  Upper case stands for any spelling that is not all lower case.
LowerActions == {"allow", "block", "bypass", "fwd", "forward", "coach", "continue",
                 "inspect_dlp", "inspect_mcp"}
LowerCase ==
    [ALLOW |-> "allow", BLOCK |-> "block", BYPASS |-> "bypass", FWD |-> "fwd",
     FORWARD |-> "forward", COACH |-> "coach", CONTINUE |-> "continue",
     INSPECT_DLP |-> "inspect_dlp", INSPECT_MCP |-> "inspect_mcp"]
RawActions == LowerActions \cup DOMAIN LowerCase

lower(a) == IF a \in DOMAIN LowerCase THEN LowerCase[a] ELSE a

\* A rule, with actions from A.
RuleWith(A) ==
    [type : POLICY_TYPES, id : Nat, priority : Nat \cup {NoPriority},
     domains : SUBSET Patterns, destinations : (SUBSET Patterns) \cup {{NotAList}},
     methods : SUBSET Methods, inspect : SUBSET {"dlp", "mcp"}, action : A]

ASSUME RulesAssumption == Rules \subseteq RuleWith(RawActions)

\* A flat document has RTP rules only, without the newer fields.
FlatRules == {r \in Rules : r.type = "rtp" /\ r.inspect = {} /\ r.destinations = {}}

Defaults == {"allow", "block", "BLOCK"}

Documents ==
    UNION {    [legacy : {FALSE}, default : Defaults, rules : [1 .. n -> Rules]]
          \cup [legacy : {TRUE}, default : Defaults, rules : [1 .. n -> FlatRules]] :
              n \in 0 .. MaxUpload}

VARIABLES
    doc,       \* the document as uploaded
    accepted,  \* what validate_policy_document returned, once it has
    db,        \* policy.db, once it is compiled
    tp,        \* the TenantPolicy, once it is loaded
    stage      \* "uploaded", "rejected", "accepted", "compiled", "failed" or "loaded"

engineVars == <<doc, accepted, db, tp, stage>>

EngineTypeOK ==
    /\ doc \in Documents
    /\ stage \in {"uploaded", "rejected", "accepted", "compiled", "failed", "loaded"}
    /\ stage \in {"accepted", "compiled", "failed", "loaded"} =>
         /\ accepted.default \in TERMINAL_ACTIONS
         /\ Len(accepted.rules) \in 1 .. MaxRules
         /\ \A i \in DOMAIN accepted.rules : accepted.rules[i] \in RuleWith(TERMINAL_ACTIONS)
    /\ stage \in {"compiled", "failed", "loaded"} =>
         \A r \in db.rules : r \in RuleWith(TERMINAL_ACTIONS) /\ r.priority \in Nat
    /\ stage = "loaded" =>
         /\ tp.default \in {"allow", "block", "coach"}
         /\ \A t \in POLICY_TYPES : \A i \in DOMAIN tp.ast[t] : tp.ast[t][i].type = t

-----------------------------------------------------------------------------
(* normalizer.py *)

_LEGACY_ACTION_MAP ==
    [allow |-> "ALLOW", block |-> "BLOCK", coach |-> "COACH", bypass |-> "BYPASS",
     fwd |-> "FWD", forward |-> "FWD", continue |-> "CONTINUE"]

\* Another action is only put into upper case.
normalize_terminal_action(a) ==
    IF lower(a) \in DOMAIN _LEGACY_ACTION_MAP THEN _LEGACY_ACTION_MAP[lower(a)] ELSE "OTHER"

_migrate_legacy_rule(r) ==
    CASE lower(r.action) = "inspect_dlp" -> [r EXCEPT !.action = "ALLOW", !.inspect = {"dlp"}]
      [] lower(r.action) = "inspect_mcp" -> [r EXCEPT !.action = "ALLOW", !.inspect = {"mcp"}]
      [] OTHER -> [r EXCEPT !.action = normalize_terminal_action(@)]

\* Mutant: a flat document's default is forgotten.
normalize_policy_documentNoDefault(d) ==
    [default |-> IF d.legacy THEN "ALLOW" ELSE normalize_terminal_action(d.default),
     rules |-> [i \in DOMAIN d.rules |->
                  IF d.legacy THEN _migrate_legacy_rule(d.rules[i])
                  ELSE [d.rules[i] EXCEPT !.action = normalize_terminal_action(@)]]]

normalize_policy_document(d) ==
    [default |-> normalize_terminal_action(d.default),
     rules |-> [i \in DOMAIN d.rules |->
                  IF d.legacy THEN _migrate_legacy_rule(d.rules[i])
                  ELSE [d.rules[i] EXCEPT !.action = normalize_terminal_action(@)]]]

-----------------------------------------------------------------------------
(* validator.py and policy.schema.json *)

\* Mutant: any action passes.
SchemaAnyAction(r) ==
    /\ r.type # "rtp" => NotAList \notin r.destinations
    /\ r.type # "rtp" => r.methods = {} /\ r.inspect = {}
    /\ r.type \notin {"rtp", "egress_ip"} => r.destinations = {}
    /\ r.type = "egress_ip" => r.domains = {}

\* The fields each type of rule may have.  RTP conditions may have any, of any type.
Schema(r) ==
    /\ r.action \in TERMINAL_ACTIONS
    /\ r.type # "rtp" => NotAList \notin r.destinations
    /\ r.type # "rtp" => r.methods = {} /\ r.inspect = {}
    /\ r.type \notin {"rtp", "egress_ip"} => r.destinations = {}
    /\ r.type = "egress_ip" => r.domains = {}

\* Mutant: destinations are not looked at.
_validate_rule_businessDomainsOnly(r) == Broken \notin r.domains

\* A string is looked at letter by letter, and passes.
_validate_rule_business(r) == Broken \notin r.domains \cup r.destinations

validate_policy_document(d) ==
    /\ \A i \in DOMAIN d.rules : Schema(d.rules[i])
    /\ Len(d.rules) \in 1 .. MaxRules
    /\ \A i, j \in DOMAIN d.rules :
         i # j => d.rules[i].type # d.rules[j].type \/ d.rules[i].id # d.rules[j].id
    /\ \A i \in DOMAIN d.rules : _validate_rule_business(d.rules[i])

-----------------------------------------------------------------------------
(* compiler.py, and load_db.go, ast.go, tenant_decide.go *)

\* The tables of policy.db.
compile_policy_to_sqlite(d) ==
    [default |-> d.default,
     order |-> <<"bypass", "egress_ip", "enterprise_browser", "rtp">>,
     rules |-> {[d.rules[i] EXCEPT !.priority = IF @ = NoPriority THEN 0 ELSE @] :
                    i \in DOMAIN d.rules}]

mapTerminalAction(a) == CASE a = "BLOCK" -> "block"
                          [] a = "COACH" -> "coach"
                          [] OTHER -> "allow"

\* Mutant: rules are sorted by id alone.
BeforeById(a, b) == a.id < b.id

\* The order within a type.
Before(a, b) == a.priority < b.priority \/ (a.priority = b.priority /\ a.id < b.id)

\* A row as json.Unmarshal reads it: its error is ignored, and what is no list stays empty.
RuleRecord(row) == [row EXCEPT !.destinations = @ \ {NotAList}]

GoCompiles(r) == r.domains \cup r.destinations \subseteq Hosts

\* sort.SliceStable: the rules, each once, in their order.
InOrder(s) == \A i, j \in DOMAIN s : i < j => Before(s[i], s[j])
SliceStable(rules) == CHOOSE s \in SetToSeqs(rules) : InOrder(s)

\* The AST of the rules: each type's rules in their order.
buildAST(rules) == [t \in POLICY_TYPES |-> SliceStable({r \in rules : r.type = t})]

domainPatterns(r) == IF r.domains # {} THEN r.domains ELSE r.destinations

matchesRule(r, host, method) ==
    /\ domainPatterns(r) = {} \/ host \in domainPatterns(r)
    /\ r.methods = {} \/ method \in r.methods

\* What the proxy does on a rule; on an RTP rule inspection comes before the action.
terminalToProxyAction(r) ==
    CASE r.type = "rtp" /\ "dlp" \in r.inspect -> "inspect_dlp"
      [] r.type = "rtp" /\ "dlp" \notin r.inspect /\ "mcp" \in r.inspect -> "inspect_mcp"
      [] OTHER -> mapTerminalAction(r.action)

\* A rule has a say if it matches and does not say CONTINUE.
HasSay(r, host, method) == matchesRule(r, host, method) /\ r.action # "CONTINUE"

\* The inner loop of Decide: the first rule of a type that has a say, or 0.
FirstRule(t, host, method) == SelectInSeq(tp.ast[t], LAMBDA r : HasSay(r, host, method))

\* TenantPolicy.Decide: the types in their order, and the rules of each in theirs.
Decide(host, method) ==
    LET k == SelectInSeq(tp.order, LAMBDA t : FirstRule(t, host, method) # 0)
        t == tp.order[k]
    IN  IF k = 0 THEN tp.default
        ELSE terminalToProxyAction(tp.ast[t][FirstRule(t, host, method)])

-----------------------------------------------------------------------------
(* policy.go *)

\* A pattern that does not compile is left out, and the rule no longer matches by it.
matchesDomainCondition(r, host) == r.domains = {} \/ host \in r.domains \cap Hosts

matchesMethodCondition(r, method) == r.methods = {} \/ method \in r.methods

\* Engine.Decide on a flat document: the action of the first rule that matches, as written.
EngineDecide(host, method) ==
    LET first == SelectInSeq(doc.rules, LAMBDA r : matchesDomainCondition(r, host)
                                                   /\ matchesMethodCondition(r, method))
    IN  IF first = 0 THEN doc.default ELSE doc.rules[first].action

-----------------------------------------------------------------------------
(* The pipeline *)

EngineInit ==
    /\ doc \in Documents
    /\ accepted = <<>>
    /\ db = <<>>
    /\ tp = <<>>
    /\ stage = "uploaded"

Validate ==
    /\ stage = "uploaded"
    /\ LET normalized == normalize_policy_document(doc)
       IN  \/ /\ validate_policy_document(normalized)
              /\ accepted' = normalized
              /\ stage' = "accepted"
           \/ /\ ~validate_policy_document(normalized)
              /\ stage' = "rejected"
              /\ UNCHANGED accepted
    /\ UNCHANGED <<doc, db, tp>>

Compile ==
    /\ stage = "accepted"
    /\ db' = compile_policy_to_sqlite(accepted)
    /\ stage' = "compiled"
    /\ UNCHANGED <<doc, accepted, tp>>

\* LoadFromDB; one pattern that does not compile fails the whole policy.
LoadFromDB ==
    /\ stage = "compiled"
    /\ LET records == {RuleRecord(row) : row \in db.rules}
       IN  \/ /\ \A r \in records : GoCompiles(r)
              /\ tp' = [default |-> mapTerminalAction(db.default), order |-> db.order,
                        ast |-> buildAST(records)]
              /\ stage' = "loaded"
           \/ /\ \E r \in records : ~GoCompiles(r)
              /\ stage' = "failed"
              /\ UNCHANGED tp
    /\ UNCHANGED <<doc, accepted, db>>

EngineNext == Validate \/ Compile \/ LoadFromDB

EngineSpec == EngineInit /\ [][EngineNext]_engineVars

-----------------------------------------------------------------------------
(* Properties *)

Loaded == stage = "loaded"
Denied(action) == action = "block"

\* The place of a type in the documented order of evaluation.
Rank == [bypass |-> 1, egress_ip |-> 2, enterprise_browser |-> 3, rtp |-> 4]

PriorityOf(r) == IF r.priority = NoPriority THEN 0 ELSE r.priority

\* a comes before b: by type, then priority, then id.
Precedes(a, b) ==
    \/ Rank[a.type] < Rank[b.type]
    \/ a.type = b.type /\ PriorityOf(a) < PriorityOf(b)
    \/ a.type = b.type /\ PriorityOf(a) = PriorityOf(b) /\ a.id < b.id

\* The rules of the accepted document that have a say, and the one that decides.
Candidates(host, method) ==
    {r \in Range(accepted.rules) : HasSay(r, host, method)}
Decides(r, host, method) ==
    /\ r \in Candidates(host, method)
    /\ \A s \in Candidates(host, method) \ {r} : Precedes(r, s)

\* What the documents say a rule leads to: an inspection it asks for, or its action.
Inspection == [dlp |-> "inspect_dlp", mcp |-> "inspect_mcp"]
Terminal == [ALLOW |-> "allow", BYPASS |-> "allow", FWD |-> "allow", CONTINUE |-> "allow",
             BLOCK |-> "block", COACH |-> "coach"]
Outcomes(r) ==
    IF r.inspect # {} THEN {Inspection[i] : i \in r.inspect} ELSE {Terminal[r.action]}

\* Rules whose action is to follow the inspection, and in the code never does.
ActionLost(r) == r.inspect # {} /\ r.action \in {"BLOCK", "COACH"}

\* No rule relies on destinations that are no list.
ListsOnly ==
    \A r \in Range(accepted.rules) : NotAList \in r.destinations => r.domains # {}

\* Decide, LoadFromDB, buildAST, compile_policy_to_sqlite: after tables, grouping and sorting
\* the decision is that of the document: the least rule by type, priority and id that
\* matches and is no CONTINUE decides, or the default, and leads to an inspection it asks
\* for or to its action.  Nothing is said of a rule that inspects and says BLOCK or COACH
\* (terminalToProxyAction lets the inspection replace the action), nor of a document with
\* a mistyped condition (json.Unmarshal drops it and the rule matches every host).
DecisionMatchesDocument ==
    Loaded /\ ListsOnly => \A h \in Hosts, m \in Methods :
        \/ Candidates(h, m) = {} /\ Decide(h, m) = Terminal[accepted.default]
        \/ \E r \in Candidates(h, m) :
              Decides(r, h, m) /\ (ActionLost(r) \/ Decide(h, m) \in Outcomes(r))

\* _migrate_legacy_rule, Engine.Decide: if priorities and ids follow the order of its rules,
\* a flat document denies through the new pipeline all that the Engine denied, and more
\* only where the Engine took an action as written: a BLOCK that is not in lower case, or
\* a continue, after which the new pipeline goes on to the next rule.
LegacyPreserved ==
    /\ Loaded /\ doc.legacy
    /\ \A i, j \in DOMAIN doc.rules : i < j => Precedes(doc.rules[i], doc.rules[j])
    => \A h \in Hosts, m \in Methods :
         /\ Denied(EngineDecide(h, m)) => Denied(Decide(h, m))
         /\ Denied(Decide(h, m)) =>
              Denied(EngineDecide(h, m)) \/ EngineDecide(h, m) \in {"BLOCK", "continue", "CONTINUE"}

\* validate_policy_document, buildAST: a document that was accepted fails to load only for
\* a pattern in the syntax that Python has and Go has not.
LoadFailsOnlyForSyntax ==
    stage = "failed" =>
        \E i \in DOMAIN doc.rules : PyOnly \in doc.rules[i].domains \cup doc.rules[i].destinations
=============================================================================
