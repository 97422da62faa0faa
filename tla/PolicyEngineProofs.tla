------------------------- MODULE PolicyEngineProofs -------------------------
(***************************************************************************)
(* Theorems about the meaning of a policy document, for any hosts, methods *)
(* and rules and documents of any length.                                  *)
(***************************************************************************)
EXTENDS PolicyEngine, FiniteSetTheorems, WellFoundedInduction, TLAPS

-----------------------------------------------------------------------------
(* Induction, sorting and searching *)

\* The numbers are well-ordered.  This is what the inductions below rest on.
LEMMA LeastNat ==
    ASSUME NEW T \in SUBSET Nat, T # {}
    PROVE  \E n \in T : \A m \in T : n <= m
<1> DEFINE R == {ss \in Nat \X Nat : ss[1] < ss[2]}
<1>1. IsWellFoundedOn(R, Nat)
  BY NatLessThanWellFounded, Zenon DEF OpToRel
<1>2. PICK n \in T : \A m \in T : ~ (<<m, n>> \in R)
  <2> HIDE DEF R
  <2>1. T \subseteq Nat
    OBVIOUS
  <2>2. QED
    BY <1>1, <2>1, WFMin, Zenon
<1>3. \A m \in T : ~ (m < n)
  BY <1>2
<1>4. QED
  BY <1>3

LEMMA LeastIs ==
    ASSUME NEW T \in SUBSET Nat, T # {}
    PROVE  Min(T) \in T /\ \A m \in T : Min(T) <= m
BY LeastNat DEF Min

\* Rules that the order tells apart.
Orderable(U) ==
    /\ \A r \in U : r.priority \in Nat /\ r.id \in Nat
    /\ \A a, b \in U : a # b => Before(a, b) \/ Before(b, a)

LEMMA LeastRule ==
    ASSUME NEW U, Orderable(U), NEW S \in SUBSET U, S # {}
    PROVE  \E m \in S : \A r \in S \ {m} : Before(m, r)
<1> DEFINE P == {r.priority : r \in S}
<1>1. PICK p \in P : \A q \in P : p <= q
  <2>1. P \in SUBSET Nat /\ P # {}
    BY DEF Orderable
  <2>2. QED
    BY <2>1, LeastNat
<1> DEFINE T == {r \in S : r.priority = p}
           I == {r.id : r \in T}
<1>2. PICK i \in I : \A j \in I : i <= j
  <2>1. I \in SUBSET Nat /\ I # {}
    BY <1>1 DEF Orderable
  <2>2. QED
    BY <2>1, LeastNat
<1>3. PICK m \in T : m.id = i
  BY <1>2
<1>4. ASSUME NEW r \in S \ {m} PROVE Before(m, r)
  <2>1. r.priority \in Nat /\ r.id \in Nat /\ m.priority = p /\ p \in Nat /\ i \in Nat
    BY <1>3, <1>4 DEF Orderable
  <2>2. p <= r.priority /\ (r.priority = p => i <= r.id)
    BY <1>1, <1>2, <1>4
  <2>3. Before(m, r) \/ Before(r, m)
    BY <1>4, <1>3 DEF Orderable
  <2>4. QED
    BY <1>3, <2>1, <2>2, <2>3 DEF Before
<1>5. QED
  BY <1>3, <1>4

\* A finite set of rules has a sequence in order: its least rule, then the others'.
LEMMA SortExists ==
    ASSUME NEW U, Orderable(U), IsFiniteSet(U)
    PROVE  \E s \in SetToSeqs(U) : InOrder(s)
<1> DEFINE Sorts(S) == \E s \in SetToSeqs(S) : InOrder(s)
           Bad == {n \in Nat : \E S \in SUBSET U : Cardinality(S) = n /\ ~Sorts(S)}
<1>1. \A S \in SUBSET U : IsFiniteSet(S) /\ Cardinality(S) \in Nat
  BY FS_Subset, FS_CardinalityType
<1>2. Bad = {}
  <2> SUFFICES ASSUME Bad # {} PROVE FALSE
    OBVIOUS
  <2>1. PICK n \in Bad : \A k \in Bad : n <= k
    <3>1. Bad \in SUBSET Nat
      OBVIOUS
    <3> HIDE DEF Bad
    <3>2. QED
      BY <3>1, LeastNat
  <2>2. PICK S \in SUBSET U : Cardinality(S) = n /\ ~Sorts(S)
    BY <2>1
  <2>3. S # {}
    <3> SUFFICES ASSUME S = {} PROVE FALSE
      OBVIOUS
    <3>1. Cardinality(S) = 0
      BY FS_EmptySet
    <3>2. [i \in 1 .. 0 |-> 0] \in SetToSeqs(S) /\ InOrder([i \in 1 .. 0 |-> 0])
      BY <3>1 DEF SetToSeqs, InOrder
    <3>3. QED
      BY <2>2, <3>2
  <2>4. PICK m \in S : \A r \in S \ {m} : Before(m, r)
    BY <2>3, LeastRule
  <2>5. Cardinality(S \ {m}) = n - 1 /\ n - 1 \in Nat
    <3>1. IsFiniteSet(S) /\ Cardinality(S) \in Nat /\ n \in Nat
      BY <1>1
    <3>2. Cardinality(S \ {m}) = Cardinality(S) - 1
      BY <2>4, <3>1, FS_RemoveElement
    <3>3. Cardinality(S) # 0
      BY <2>4, <3>1, FS_EmptySet
    <3>4. QED
      BY <2>2, <3>1, <3>2, <3>3
  <2>6. Sorts(S \ {m})
    BY <2>1, <2>5
  <2>7. PICK s \in SetToSeqs(S \ {m}) : InOrder(s)
    BY <2>6
  <2>8. /\ s \in [1 .. n - 1 -> S \ {m}]
        /\ \A i, j \in 1 .. n - 1 : i # j => s[i] # s[j]
        /\ \A i, j \in 1 .. n - 1 : i < j => Before(s[i], s[j])
    BY <2>5, <2>7 DEF SetToSeqs, InOrder
  <2> DEFINE f == [i \in 1 .. n |-> IF i = 1 THEN m ELSE s[i - 1]]
  <2>9. f \in [1 .. n -> S]
    BY <2>5, <2>8
  <2>10. \A i, j \in 1 .. n : i < j => f[i] # f[j] /\ Before(f[i], f[j])
    <3> SUFFICES ASSUME NEW i \in 1 .. n, NEW j \in 1 .. n, i < j
                 PROVE  f[i] # f[j] /\ Before(f[i], f[j])
      OBVIOUS
    <3>1. n \in Nat
      OBVIOUS
    <3>2. j - 1 \in 1 .. n - 1 /\ f[j] = s[j - 1] /\ s[j - 1] \in S \ {m}
      BY <2>8, <3>1
    <3>3. CASE i = 1
      BY <2>4, <3>2, <3>3
    <3>4. CASE i # 1
      <4>1. i - 1 \in 1 .. n - 1 /\ f[i] = s[i - 1] /\ i - 1 < j - 1 /\ i - 1 # j - 1
        BY <3>1, <3>4
      <4>2. QED
        BY <2>8, <3>2, <4>1
    <3>5. QED
      BY <3>3, <3>4
  <2> HIDE DEF f
  <2>11. \A i, j \in 1 .. n : i # j => f[i] # f[j]
    BY <2>10
  <2>12. f \in SetToSeqs(S) /\ InOrder(f)
    BY <2>2, <2>9, <2>10, <2>11 DEF SetToSeqs, InOrder
  <2>13. QED
    BY <2>2, <2>12
<1>3. QED
  BY <1>1, <1>2

\* What sort.SliceStable returns: each rule once, in order.
LEMMA SliceStableSorts ==
    ASSUME NEW U, Orderable(U), IsFiniteSet(U)
    PROVE  LET s == SliceStable(U)
           IN  /\ s \in Seq(U) /\ InOrder(s)
               /\ \A r \in U : \E i \in 1 .. Len(s) : s[i] = r
<1> DEFINE s == SliceStable(U)
           n == Cardinality(U)
<1>1. s \in SetToSeqs(U) /\ InOrder(s)
  BY SortExists DEF SliceStable
<1> HIDE DEF s
<1>2. n \in Nat
  BY FS_CardinalityType
<1>3. s \in [1 .. n -> U] /\ \A i, j \in 1 .. n : i # j => s[i] # s[j]
  BY <1>1 DEF SetToSeqs
<1>4. s \in Seq(U) /\ Len(s) = n
  BY <1>2, <1>3
<1>5. ASSUME NEW r \in U, \A i \in 1 .. n : s[i] # r PROVE FALSE
  <2>1. IsFiniteSet(U \ {r}) /\ Cardinality(U \ {r}) = n - 1
    BY FS_RemoveElement
  <2>2. IsFiniteSet(1 .. n) /\ Cardinality(1 .. n) = n
    BY <1>2, FS_Interval
  <2>3. s \in [1 .. n -> U \ {r}]
    BY <1>3, <1>5
  <2>4. \E i, j \in 1 .. n : i # j /\ s[i] = s[j]
    BY <1>2, <2>1, <2>2, <2>3, FS_PigeonHole
  <2>5. QED
    BY <1>3, <2>4
<1>6. QED
  BY <1>1, <1>4, <1>5 DEF s

-----------------------------------------------------------------------------
(* The inductive invariant *)

\* The rows of the rules table as LoadFromDB reads them.
Records == {RuleRecord(row) : row \in db.rules}

\* What each stage holds is what the stages before it made of the document.
FromUpload ==
    /\ doc \in Documents
    /\ stage \in {"uploaded", "rejected", "accepted", "compiled", "failed", "loaded"}
    /\ stage \in {"accepted", "compiled", "failed", "loaded"} =>
         accepted = normalize_policy_document(doc) /\ validate_policy_document(accepted)
    /\ stage \in {"compiled", "failed", "loaded"} => db = compile_policy_to_sqlite(accepted)
    /\ stage = "failed" => \E r \in Records : ~GoCompiles(r)
    /\ stage = "loaded" =>
         /\ \A r \in Records : GoCompiles(r)
         /\ tp = [default |-> mapTerminalAction(db.default), order |-> db.order,
                  ast |-> buildAST(Records)]

\* FromUpload is inductive: each step computes from what the last one left, and no step
\* touches what an earlier one computed.
LEMMA FromUploadInductive == EngineSpec => []FromUpload
<1>1. EngineInit => FromUpload
  BY DEF EngineInit, FromUpload
<1>2. FromUpload /\ [EngineNext]_engineVars => FromUpload'
  <2> SUFFICES ASSUME FromUpload, [EngineNext]_engineVars PROVE FromUpload'
    OBVIOUS
  <2>1. CASE Validate
    BY <2>1 DEF FromUpload, Validate, Records
  <2>2. CASE Compile
    BY <2>2 DEF FromUpload, Compile, Records
  <2>3. CASE LoadFromDB
    BY <2>3 DEF FromUpload, LoadFromDB, Records
  <2>4. CASE UNCHANGED engineVars
    BY <2>4 DEF FromUpload, engineVars, Records
  <2>5. QED
    BY <2>1, <2>2, <2>3, <2>4 DEF EngineNext
<1>3. QED
  BY <1>1, <1>2, PTL DEF EngineSpec

-----------------------------------------------------------------------------
(* From the document to the tables *)

\* The stages that hold an accepted document, and those that hold tables.
HasAccepted == stage \in {"accepted", "compiled", "failed", "loaded"}
HasTables == stage \in {"compiled", "failed", "loaded"}

\* The row that compile_policy_to_sqlite writes for a rule.
Row(r) == [r EXCEPT !.priority = PriorityOf(r)]

\* The record that LoadFromDB reads back.
Rec(r) == RuleRecord(Row(r))

\* What LoadFromDB reads of a rule's conditions is what the rule says.
Listed(r) == NotAList \in r.destinations => r.domains # {}

\* The rules of an uploaded document.
LEMMA DocumentRules ==
    ASSUME doc \in Documents
    PROVE  /\ \E n \in Nat : doc.rules \in [1 .. n -> Rules]
           /\ doc.legacy => \A i \in DOMAIN doc.rules : doc.rules[i] \in FlatRules
           /\ \A i \in DOMAIN doc.rules : doc.rules[i] \in RuleWith(RawActions)
           /\ doc.default \in Defaults
<1> DEFINE New(n) == [legacy : {FALSE}, default : Defaults, rules : [1 .. n -> Rules]]
           Flat(n) == [legacy : {TRUE}, default : Defaults, rules : [1 .. n -> FlatRules]]
<1>1. PICK n \in 0 .. MaxUpload : doc \in New(n) \/ doc \in Flat(n)
  BY DEF Documents
<1>2. n \in Nat
  BY MaxRulesAssumption
<1>3. FlatRules \subseteq Rules
  BY DEF FlatRules
<1>4. CASE doc \in New(n)
  BY <1>2, <1>4, RulesAssumption
<1>5. CASE doc \in Flat(n)
  BY <1>2, <1>3, <1>5, RulesAssumption
<1>6. QED
  BY <1>1, <1>4, <1>5

\* normalize_policy_document leaves the number, the types, ids, priorities and conditions
\* of the rules as they are.
LEMMA NormalizedRules ==
    ASSUME FromUpload, HasAccepted
    PROVE  /\ DOMAIN accepted.rules = DOMAIN doc.rules
           /\ \A i \in DOMAIN doc.rules :
                LET r == doc.rules[i]
                    a == accepted.rules[i]
                IN  /\ a.type = r.type /\ a.id = r.id /\ a.priority = r.priority
                    /\ a.domains = r.domains /\ a.destinations = r.destinations
                    /\ a.methods = r.methods
<1>1. accepted = normalize_policy_document(doc) /\ doc \in Documents
  BY DEF FromUpload, HasAccepted
<1>2. DOMAIN accepted.rules = DOMAIN doc.rules
  BY <1>1 DEF normalize_policy_document
<1>3. ASSUME NEW i \in DOMAIN doc.rules
      PROVE  /\ accepted.rules[i].type = doc.rules[i].type
             /\ accepted.rules[i].id = doc.rules[i].id
             /\ accepted.rules[i].priority = doc.rules[i].priority
             /\ accepted.rules[i].domains = doc.rules[i].domains
             /\ accepted.rules[i].destinations = doc.rules[i].destinations
             /\ accepted.rules[i].methods = doc.rules[i].methods
  <2> DEFINE r == doc.rules[i]
             a == accepted.rules[i]
  <2>1. r \in RuleWith(RawActions)
    BY <1>1, DocumentRules
  <2>2. a = IF doc.legacy THEN _migrate_legacy_rule(r)
            ELSE [r EXCEPT !.action = normalize_terminal_action(@)]
    BY <1>1 DEF normalize_policy_document
  <2> HIDE DEF r, a
  <2>3. a.type = r.type /\ a.id = r.id /\ a.priority = r.priority
    BY <2>1, <2>2 DEF RuleWith, _migrate_legacy_rule
  <2>4. a.domains = r.domains /\ a.destinations = r.destinations /\ a.methods = r.methods
    BY <2>1, <2>2 DEF RuleWith, _migrate_legacy_rule
  <2>5. QED
    BY <2>3, <2>4 DEF r, a
<1>4. QED
  BY <1>2, <1>3

\* What the schema and the checks of validate_policy_document leave.
LEMMA AcceptedRules ==
    ASSUME FromUpload, HasAccepted
    PROVE  /\ accepted.default \in TERMINAL_ACTIONS
           /\ Len(accepted.rules) \in 1 .. MaxRules
           /\ \E n \in Nat : DOMAIN accepted.rules = 1 .. n
           /\ \A i \in DOMAIN accepted.rules : accepted.rules[i] \in RuleWith(TERMINAL_ACTIONS)
           /\ \A i \in DOMAIN accepted.rules :
                /\ Broken \notin accepted.rules[i].domains \cup accepted.rules[i].destinations
                /\ accepted.rules[i].inspect # {} => accepted.rules[i].type = "rtp"
           /\ \A i, j \in DOMAIN accepted.rules :
                i # j => accepted.rules[i].type # accepted.rules[j].type
                         \/ accepted.rules[i].id # accepted.rules[j].id
<1>1. /\ accepted = normalize_policy_document(doc) /\ doc \in Documents
      /\ validate_policy_document(accepted)
  BY DEF FromUpload, HasAccepted
<1>2. accepted.default \in TERMINAL_ACTIONS
  <2>1. doc.default \in {"allow", "block", "BLOCK"}
    BY <1>1, DocumentRules DEF Defaults
  <2>2. accepted.default = normalize_terminal_action(doc.default)
    BY <1>1 DEF normalize_policy_document
  <2>3. lower(doc.default) = "allow" \/ lower(doc.default) = "block"
    BY <2>1 DEF lower, LowerCase
  <2>4. QED
    BY <2>2, <2>3 DEF normalize_terminal_action, _LEGACY_ACTION_MAP, TERMINAL_ACTIONS
<1>3. \E n \in Nat : DOMAIN accepted.rules = 1 .. n
  BY <1>1, DocumentRules, NormalizedRules
<1>4. ASSUME NEW i \in DOMAIN accepted.rules
      PROVE  accepted.rules[i] \in RuleWith(TERMINAL_ACTIONS)
  <2> DEFINE r == doc.rules[i]
             a == accepted.rules[i]
  <2>1. r \in RuleWith(RawActions) /\ i \in DOMAIN doc.rules
    BY <1>1, DocumentRules, NormalizedRules
  <2>2. a = IF doc.legacy THEN _migrate_legacy_rule(r)
            ELSE [r EXCEPT !.action = normalize_terminal_action(@)]
    BY <1>1, <2>1 DEF normalize_policy_document
  <2>3. a.action \in TERMINAL_ACTIONS
    BY <1>1 DEF validate_policy_document, Schema
  <2> HIDE DEF r, a
  <2>4. \/ \E x : a = [r EXCEPT !.action = x]
        \/ \E y \in {{"dlp"}, {"mcp"}} : a = [r EXCEPT !.action = "ALLOW", !.inspect = y]
    BY <2>2 DEF _migrate_legacy_rule
  <2>5. QED
    <3>1. CASE \E x : a = [r EXCEPT !.action = x]
      BY <2>1, <2>3, <3>1 DEF RuleWith, r, a
    <3>2. CASE \E y \in {{"dlp"}, {"mcp"}} : a = [r EXCEPT !.action = "ALLOW", !.inspect = y]
      <4>1. PICK y \in {{"dlp"}, {"mcp"}} : a = [r EXCEPT !.action = "ALLOW", !.inspect = y]
        BY <3>2
      <4>2. y \in SUBSET {"dlp", "mcp"}
        BY <4>1
      <4>3. [r EXCEPT !.action = "ALLOW"] \in RuleWith(TERMINAL_ACTIONS)
        BY <2>1 DEF RuleWith, TERMINAL_ACTIONS
      <4>4. a = [[r EXCEPT !.action = "ALLOW"] EXCEPT !.inspect = y]
        BY <4>1
      <4>5. a \in RuleWith(TERMINAL_ACTIONS)
        BY <4>2, <4>3, <4>4 DEF RuleWith
      <4>6. QED
        BY <4>5 DEF a
    <3>3. QED
      BY <2>4, <3>1, <3>2
<1>5. QED
  BY <1>1, <1>2, <1>3, <1>4 DEF validate_policy_document, _validate_rule_business, Schema

\* A row says what its rule says; only a priority that was left out is filled in.
LEMMA RowOfRule ==
    ASSUME NEW r \in RuleWith(TERMINAL_ACTIONS)
    PROVE  /\ Row(r) \in RuleWith(TERMINAL_ACTIONS)
           /\ Row(r).priority = PriorityOf(r) /\ Row(r).priority \in Nat
           /\ Row(r).type = r.type /\ Row(r).id = r.id
           /\ Row(r).domains = r.domains /\ Row(r).destinations = r.destinations
           /\ Row(r).methods = r.methods /\ Row(r).inspect = r.inspect /\ Row(r).action = r.action
<1>1. PriorityOf(r) \in Nat
  BY DEF PriorityOf, RuleWith, NoPriority
<1>2. Row(r) \in RuleWith(TERMINAL_ACTIONS)
  BY <1>1 DEF Row, RuleWith
<1>3. Row(r).priority = PriorityOf(r)
  BY DEF Row, RuleWith
<1>4. /\ Row(r).type = r.type /\ Row(r).id = r.id
      /\ Row(r).domains = r.domains /\ Row(r).destinations = r.destinations
      /\ Row(r).methods = r.methods /\ Row(r).inspect = r.inspect /\ Row(r).action = r.action
  BY DEF Row, RuleWith
<1>5. QED
  BY <1>1, <1>2, <1>3, <1>4

\* So does the record read back, but for destinations that are no list.
LEMMA RecordOfRule ==
    ASSUME NEW r \in RuleWith(TERMINAL_ACTIONS)
    PROVE  /\ Rec(r) \in RuleWith(TERMINAL_ACTIONS)
           /\ Rec(r).priority = PriorityOf(r) /\ Rec(r).priority \in Nat
           /\ Rec(r).type = r.type /\ Rec(r).id = r.id
           /\ Rec(r).domains = r.domains /\ Rec(r).destinations = r.destinations \ {NotAList}
           /\ Listed(r) => \A h, m : HasSay(Rec(r), h, m) <=> HasSay(r, h, m)
           /\ terminalToProxyAction(Rec(r)) = terminalToProxyAction(r)
<1> DEFINE w == Row(r)
<1>1. w \in RuleWith(TERMINAL_ACTIONS)
  BY RowOfRule
<1>2. /\ w.priority = PriorityOf(r) /\ w.priority \in Nat /\ w.type = r.type /\ w.id = r.id
      /\ w.domains = r.domains /\ w.destinations = r.destinations
      /\ w.methods = r.methods /\ w.inspect = r.inspect /\ w.action = r.action
  BY RowOfRule
<1> DEFINE c == Rec(r)
<1>3. c = [w EXCEPT !.destinations = w.destinations \ {NotAList}]
  BY DEF Rec, RuleRecord
<1> HIDE DEF w, c
<1>4. w.destinations \ {NotAList} \in (SUBSET Patterns) \cup {{NotAList}}
  BY <1>1 DEF RuleWith
<1>5. c \in RuleWith(TERMINAL_ACTIONS)
  BY <1>1, <1>3, <1>4 DEF RuleWith
<1>6. /\ c.priority = PriorityOf(r) /\ c.priority \in Nat /\ c.type = r.type /\ c.id = r.id
      /\ c.domains = r.domains /\ c.destinations = r.destinations \ {NotAList}
      /\ c.methods = r.methods /\ c.inspect = r.inspect /\ c.action = r.action
  BY <1>1, <1>2, <1>3 DEF RuleWith
<1>7. ASSUME Listed(r) PROVE domainPatterns(c) = domainPatterns(r)
  <2>1. NotAList \notin r.destinations => r.destinations \ {NotAList} = r.destinations
    OBVIOUS
  <2>2. QED
    BY <1>6, <1>7, <2>1 DEF Listed, domainPatterns
<1>8. Listed(r) => \A h, m : HasSay(c, h, m) <=> HasSay(r, h, m)
  BY <1>6, <1>7 DEF HasSay, matchesRule
<1>9. terminalToProxyAction(c) = terminalToProxyAction(r)
  BY <1>6 DEF terminalToProxyAction
<1>10. QED
  BY <1>5, <1>6, <1>8, <1>9 DEF c

LEMMA Tables ==
    ASSUME FromUpload, HasTables
    PROVE  /\ HasAccepted
           /\ db.rules = {Row(accepted.rules[i]) : i \in DOMAIN accepted.rules}
           /\ Records = {Rec(accepted.rules[i]) : i \in DOMAIN accepted.rules}
           /\ db.default = accepted.default
           /\ db.order = <<"bypass", "egress_ip", "enterprise_browser", "rtp">>
           /\ \A r \in db.rules : r \in RuleWith(TERMINAL_ACTIONS) /\ r.priority \in Nat
           /\ \A r \in Records : r \in RuleWith(TERMINAL_ACTIONS) /\ r.priority \in Nat
<1>1. HasAccepted
  BY DEF HasAccepted, HasTables
<1>2. db = compile_policy_to_sqlite(accepted)
  BY DEF FromUpload, HasTables
<1>3. \A i \in DOMAIN accepted.rules : accepted.rules[i] \in RuleWith(TERMINAL_ACTIONS)
  BY <1>1, AcceptedRules
<1> DEFINE Written(i) ==
             [accepted.rules[i] EXCEPT !.priority = IF @ = NoPriority THEN 0 ELSE @]
<1>4. \A i \in DOMAIN accepted.rules : Row(accepted.rules[i]) = Written(i)
  BY <1>3 DEF Row, PriorityOf, RuleWith
<1>5. db.rules = {Row(accepted.rules[i]) : i \in DOMAIN accepted.rules}
  <2>1. db.rules = {Written(i) : i \in DOMAIN accepted.rules}
    BY <1>2 DEF compile_policy_to_sqlite
  <2> HIDE DEF Written
  <2>2. QED
    BY <1>4, <2>1
<1>6. /\ db.default = accepted.default
      /\ db.order = <<"bypass", "egress_ip", "enterprise_browser", "rtp">>
  BY <1>2 DEF compile_policy_to_sqlite
<1>7. Records = {Rec(accepted.rules[i]) : i \in DOMAIN accepted.rules}
  BY <1>5 DEF Records, Rec
<1>8. \A r \in db.rules : r \in RuleWith(TERMINAL_ACTIONS) /\ r.priority \in Nat
  BY <1>3, <1>5, RowOfRule
<1>9. \A r \in Records : r \in RuleWith(TERMINAL_ACTIONS) /\ r.priority \in Nat
  BY <1>3, <1>7, RecordOfRule
<1>10. QED
  BY <1>1, <1>5, <1>6, <1>7, <1>8, <1>9

\* No two records of a type have the same id, so that the order tells all of them apart.
LEMMA RecordsOfAType ==
    ASSUME FromUpload, HasTables, NEW t
    PROVE  LET U == {r \in Records : r.type = t} IN Orderable(U) /\ IsFiniteSet(U)
<1> DEFINE U == {r \in Records : r.type = t}
<1>1. /\ \E n \in Nat : DOMAIN accepted.rules = 1 .. n
      /\ \A i \in DOMAIN accepted.rules : accepted.rules[i] \in RuleWith(TERMINAL_ACTIONS)
      /\ \A i, j \in DOMAIN accepted.rules :
           i # j => accepted.rules[i].type # accepted.rules[j].type
                    \/ accepted.rules[i].id # accepted.rules[j].id
  BY Tables, AcceptedRules
<1>2. Records = {Rec(accepted.rules[i]) : i \in DOMAIN accepted.rules}
  BY Tables
<1>3. IsFiniteSet(U)
  <2> DEFINE f == [i \in DOMAIN accepted.rules |-> Rec(accepted.rules[i])]
  <2>1. f \in Surjection(DOMAIN accepted.rules, Records)
    BY <1>2 DEF Surjection
  <2>2. IsFiniteSet(DOMAIN accepted.rules)
    BY <1>1, FS_Interval
  <2> HIDE DEF f
  <2>3. IsFiniteSet(Records)
    BY <2>1, <2>2, FS_Surjection
  <2>4. QED
    BY <2>3, FS_Subset
<1>4. \A r \in U : r.priority \in Nat /\ r.id \in Nat
  BY Tables DEF RuleWith
<1>5. ASSUME NEW a \in U, NEW b \in U, a # b PROVE Before(a, b) \/ Before(b, a)
  <2>1. PICK i \in DOMAIN accepted.rules : a = Rec(accepted.rules[i])
    BY <1>2
  <2>2. PICK j \in DOMAIN accepted.rules : b = Rec(accepted.rules[j])
    BY <1>2
  <2>3. a.type = b.type /\ i # j
    BY <1>5, <2>1, <2>2
  <2>4. a.id # b.id
    BY <1>1, <2>1, <2>2, <2>3, RecordOfRule
  <2>5. QED
    BY <1>4, <2>4 DEF Before
<1>6. QED
  BY <1>3, <1>4, <1>5 DEF Orderable

-----------------------------------------------------------------------------
(* The loaded policy *)

\* buildAST: each type's records, each once and in order.
LEMMA LoadedAST ==
    ASSUME FromUpload, Loaded, NEW t \in POLICY_TYPES
    PROVE  LET U == {r \in Records : r.type = t}
           IN  /\ tp.ast[t] \in Seq(U) /\ InOrder(tp.ast[t])
               /\ \A r \in U : \E i \in 1 .. Len(tp.ast[t]) : tp.ast[t][i] = r
<1>1. HasTables
  BY DEF HasTables, Loaded
<1> DEFINE U == {r \in Records : r.type = t}
<1>2. tp.ast[t] = SliceStable(U)
  BY DEF FromUpload, Loaded, buildAST
<1>3. Orderable(U) /\ IsFiniteSet(U)
  BY <1>1, RecordsOfAType
<1> HIDE DEF U
<1>4. /\ tp.ast[t] \in Seq(U) /\ InOrder(tp.ast[t])
      /\ \A r \in U : \E i \in 1 .. Len(tp.ast[t]) : tp.ast[t][i] = r
  BY <1>2, <1>3, SliceStableSorts
<1>5. QED
  BY <1>4 DEF U

\* The inner loop of Decide finds the least record of a type that has a say.
LEMMA InnerLoop ==
    ASSUME FromUpload, Loaded, NEW t \in POLICY_TYPES, NEW h, NEW m
    PROVE  LET k == FirstRule(t, h, m)
               r == tp.ast[t][k]
               U == {s \in Records : s.type = t /\ HasSay(s, h, m)}
           IN  \/ k = 0 /\ U = {}
               \/ k # 0 /\ r \in U /\ \A s \in U \ {r} : Before(r, s)
<1> DEFINE q == tp.ast[t]
           V == {s \in Records : s.type = t}
           U == {s \in Records : s.type = t /\ HasSay(s, h, m)}
           I == {i \in 1 .. Len(q) : HasSay(q[i], h, m)}
           k == FirstRule(t, h, m)
<1>1. q \in Seq(V) /\ InOrder(q) /\ \A r \in V : \E i \in 1 .. Len(q) : q[i] = r
  BY LoadedAST
<1>2. k = IF I # {} THEN Min(I) ELSE 0
  BY DEF FirstRule, SelectInSeq
<1>3. I \in SUBSET Nat /\ 0 \notin I /\ DOMAIN q = 1 .. Len(q)
  BY <1>1
<1> HIDE DEF k, q
<1>4. CASE I = {}
  <2>1. U = {}
    BY <1>1, <1>4
  <2>2. QED
    BY <1>2, <1>4, <2>1 DEF k
<1>5. CASE I # {}
  <2> HIDE DEF I
  <2>1. k \in I /\ \A i \in I : k <= i
    BY <1>2, <1>3, <1>5, LeastIs
  <2> USE DEF I
  <2>2. q[k] \in U
    BY <1>1, <2>1
  <2>3. ASSUME NEW s \in U \ {q[k]} PROVE Before(q[k], s)
    <3>1. PICK i \in 1 .. Len(q) : q[i] = s
      BY <1>1
    <3>2. i \in I /\ k < i
      BY <2>1, <2>3, <3>1
    <3>3. QED
      BY <1>1, <1>3, <2>1, <3>1, <3>2 DEF InOrder
  <2>4. QED
    BY <1>3, <2>1, <2>2, <2>3 DEF k, q
<1>6. QED
  BY <1>4, <1>5

\* Decide: the record that decides has a say, and every other one that has one is of a later
\* type or later in the order of its type; without such a record, the default.
LEMMA DecideByRecords ==
    ASSUME FromUpload, Loaded, NEW h, NEW m
    PROVE  LET W == {s \in Records : HasSay(s, h, m)}
           IN  \/ W = {} /\ Decide(h, m) = tp.default
               \/ \E r \in W :
                    /\ Decide(h, m) = terminalToProxyAction(r)
                    /\ \A s \in W \ {r} :
                         \/ Rank[r.type] < Rank[s.type]
                         \/ r.type = s.type /\ Before(r, s)
<1> DEFINE W == {s \in Records : HasSay(s, h, m)}
           F(t) == FirstRule(t, h, m)
           I == {i \in 1 .. Len(tp.order) : F(tp.order[i]) # 0}
           k == IF I # {} THEN Min(I) ELSE 0
           r == tp.ast[tp.order[k]][F(tp.order[k])]
<1>1. HasTables
  BY DEF HasTables, Loaded
<1>2. tp.order = <<"bypass", "egress_ip", "enterprise_browser", "rtp">>
  BY <1>1, Tables DEF FromUpload, Loaded
<1>3. Decide(h, m) = IF k = 0 THEN tp.default ELSE terminalToProxyAction(r)
  BY DEF Decide, SelectInSeq
<1>4. \A s \in W : s.type \in POLICY_TYPES
  BY <1>1, Tables DEF RuleWith
<1>5. \A t \in POLICY_TYPES : Rank[t] \in 1 .. 4 /\ tp.order[Rank[t]] = t
  BY <1>2 DEF POLICY_TYPES, Rank
<1>6. \A i \in 1 .. 4 : tp.order[i] \in POLICY_TYPES /\ Rank[tp.order[i]] = i
  BY <1>2 DEF POLICY_TYPES, Rank
<1>7. Len(tp.order) = 4 /\ I \in SUBSET Nat /\ 0 \notin I
  BY <1>2
<1>8. ASSUME NEW s \in W PROVE Rank[s.type] \in I
  <2>1. F(s.type) # 0
    BY <1>4, InnerLoop
  <2>2. QED
    BY <1>4, <1>5, <1>7, <2>1
<1>9. CASE I = {}
  BY <1>3, <1>8, <1>9
<1>10. CASE I # {}
  <2>1. k \in I /\ \A i \in I : k <= i
    <3> HIDE DEF I
    <3>1. QED
      BY <1>7, <1>10, LeastIs
  <2>2. k # 0 /\ k \in 1 .. 4 /\ tp.order[k] \in POLICY_TYPES /\ Rank[tp.order[k]] = k
    BY <1>6, <1>7, <2>1
  <2>3. F(tp.order[k]) # 0
    BY <2>1
  <2> HIDE DEF I, k
  <2>4. /\ r \in W /\ r.type = tp.order[k]
        /\ \A s \in W \ {r} : s.type = tp.order[k] => Before(r, s)
    BY <2>2, <2>3, InnerLoop
  <2>5. ASSUME NEW s \in W \ {r}
        PROVE  Rank[r.type] < Rank[s.type] \/ (r.type = s.type /\ Before(r, s))
    <3>1. Rank[s.type] \in I /\ Rank[s.type] \in 1 .. 4 /\ tp.order[Rank[s.type]] = s.type
      BY <1>4, <1>5, <1>8
    <3>2. k <= Rank[s.type] /\ Rank[r.type] = k
      BY <2>1, <2>2, <2>4, <3>1
    <3>3. CASE k = Rank[s.type]
      BY <2>4, <3>1, <3>3
    <3>4. QED
      BY <2>2, <3>1, <3>2, <3>3
  <2>6. QED
    BY <1>3, <2>2, <2>4, <2>5
<1>11. QED
  BY <1>9, <1>10

-----------------------------------------------------------------------------
(* The theorems *)

\* The pipeline keeps its data well-formed at every stage: what was accepted has terminal
\* actions and at most max_rules rules, every row has a priority, every list of the AST has
\* the rules of its own type.
THEOREM EngineTypeCorrect == EngineSpec => []EngineTypeOK
<1>1. FromUpload => EngineTypeOK
  <2> SUFFICES ASSUME FromUpload PROVE EngineTypeOK
    OBVIOUS
  <2>1. /\ doc \in Documents
        /\ stage \in {"uploaded", "rejected", "accepted", "compiled", "failed", "loaded"}
    BY DEF FromUpload
  <2>2. ASSUME HasAccepted
        PROVE  /\ accepted.default \in TERMINAL_ACTIONS
               /\ Len(accepted.rules) \in 1 .. MaxRules
               /\ \A i \in DOMAIN accepted.rules :
                    accepted.rules[i] \in RuleWith(TERMINAL_ACTIONS)
    BY <2>2, AcceptedRules
  <2>3. ASSUME HasTables
        PROVE  \A r \in db.rules : r \in RuleWith(TERMINAL_ACTIONS) /\ r.priority \in Nat
    BY <2>3, Tables
  <2>4. ASSUME Loaded
        PROVE  /\ tp.default \in {"allow", "block", "coach"}
               /\ \A t \in POLICY_TYPES : \A i \in DOMAIN tp.ast[t] : tp.ast[t][i].type = t
    <3>1. tp.default = mapTerminalAction(db.default)
      BY <2>4 DEF FromUpload, Loaded
    <3>2. ASSUME NEW t \in POLICY_TYPES, NEW i \in DOMAIN tp.ast[t]
          PROVE  tp.ast[t][i].type = t
      <4> DEFINE U == {r \in Records : r.type = t}
                 q == tp.ast[t]
      <4>1. q \in Seq(U)
        BY <2>4, LoadedAST
      <4> HIDE DEF q
      <4>2. q[i] \in U
        BY <3>2, <4>1 DEF q
      <4>3. QED
        BY <4>2 DEF q
    <3>3. QED
      BY <3>1, <3>2 DEF mapTerminalAction
  <2>5. QED
    BY <2>1, <2>2, <2>3, <2>4 DEF EngineTypeOK, HasAccepted, HasTables, Loaded
<1>2. QED
  BY <1>1, FromUploadInductive, PTL

\* The decision by records is the decision by the rules of the document: a record has a say
\* just when its rule has, and the records' order is that of the rules.
LEMMA DecideByRules ==
    ASSUME FromUpload, Loaded, ListsOnly, NEW h \in Hosts, NEW m \in Methods
    PROVE  \/ /\ Candidates(h, m) = {}
              /\ Decide(h, m) = mapTerminalAction(accepted.default)
           \/ \E r \in Candidates(h, m) :
                 Decides(r, h, m) /\ Decide(h, m) = terminalToProxyAction(r)
<1> DEFINE W == {s \in Records : HasSay(s, h, m)}
           C == Candidates(h, m)
<1>1. HasTables
  BY DEF HasTables, Loaded
<1>2. /\ Records = {Rec(accepted.rules[i]) : i \in DOMAIN accepted.rules}
      /\ tp.default = mapTerminalAction(accepted.default)
      /\ HasAccepted
  BY <1>1, Tables DEF FromUpload, Loaded
<1>3. /\ \A i \in DOMAIN accepted.rules :
           accepted.rules[i] \in RuleWith(TERMINAL_ACTIONS) /\ Listed(accepted.rules[i])
      /\ \A i, j \in DOMAIN accepted.rules :
           i # j => accepted.rules[i].type # accepted.rules[j].type
                    \/ accepted.rules[i].id # accepted.rules[j].id
  BY <1>2, AcceptedRules DEF ListsOnly, Listed, Range
<1>4. \A s \in C : s \in RuleWith(TERMINAL_ACTIONS) /\ Rec(s) \in W
  BY <1>2, <1>3, RecordOfRule DEF Candidates, Range
<1>5. \A w \in W : \E s \in C : w = Rec(s)
  BY <1>2, <1>3, RecordOfRule DEF Candidates, Range
<1>6. ASSUME NEW r \in C, NEW s \in C, r # s PROVE Rec(r) # Rec(s)
  <2>1. PICK i \in DOMAIN accepted.rules : r = accepted.rules[i]
    BY DEF Candidates, Range
  <2>2. PICK j \in DOMAIN accepted.rules : s = accepted.rules[j]
    BY DEF Candidates, Range
  <2>3. r.type # s.type \/ r.id # s.id
    BY <1>3, <1>6, <2>1, <2>2
  <2>4. QED
    BY <1>4, <2>3, RecordOfRule
<1>7. CASE W = {} /\ Decide(h, m) = tp.default
  BY <1>2, <1>4, <1>7
<1>8. ASSUME NEW w \in W, Decide(h, m) = terminalToProxyAction(w),
             \A s \in W \ {w} : \/ Rank[w.type] < Rank[s.type]
                                \/ w.type = s.type /\ Before(w, s)
      PROVE  \E r \in C : Decides(r, h, m) /\ Decide(h, m) = terminalToProxyAction(r)
  <2>1. PICK r \in C : w = Rec(r)
    BY <1>5
  <2> HIDE DEF W, C
  <2>2. ASSUME NEW s \in C \ {r} PROVE Precedes(r, s)
    <3>1. Rec(s) \in W \ {w}
      BY <1>4, <1>6, <2>1
    <3>2. \/ Rank[Rec(r).type] < Rank[Rec(s).type]
          \/ Rec(r).type = Rec(s).type /\ Before(Rec(r), Rec(s))
      BY <1>8, <2>1, <3>1
    <3>3. /\ Rec(r).type = r.type /\ Rec(r).id = r.id /\ Rec(r).priority = PriorityOf(r)
          /\ Rec(s).type = s.type /\ Rec(s).id = s.id /\ Rec(s).priority = PriorityOf(s)
      BY <1>4, <2>1, RecordOfRule
    <3> HIDE DEF Rec
    <3>4. QED
      BY <3>2, <3>3 DEF Precedes, Before
  <2>3. Decide(h, m) = terminalToProxyAction(r)
    BY <1>4, <1>8, <2>1, RecordOfRule
  <2>4. QED
    BY <2>1, <2>2, <2>3 DEF Decides, C
<1>9. QED
  BY <1>7, <1>8, DecideByRecords

\* What Decide makes of the rule that decides is what the documents say of it.
LEMMA DecisionByDocument == FromUpload => DecisionMatchesDocument
<1> SUFFICES ASSUME FromUpload, Loaded, ListsOnly, NEW h \in Hosts, NEW m \in Methods
             PROVE  \/ Candidates(h, m) = {} /\ Decide(h, m) = Terminal[accepted.default]
                    \/ \E r \in Candidates(h, m) :
                          Decides(r, h, m) /\ (ActionLost(r) \/ Decide(h, m) \in Outcomes(r))
  BY DEF DecisionMatchesDocument
<1>1. HasAccepted
  BY DEF HasAccepted, Loaded
<1>2. \A a \in TERMINAL_ACTIONS : mapTerminalAction(a) = Terminal[a]
  BY DEF TERMINAL_ACTIONS, mapTerminalAction, Terminal
<1>3. ASSUME NEW r \in Candidates(h, m) PROVE terminalToProxyAction(r) \in Outcomes(r)
  <2>1. r \in RuleWith(TERMINAL_ACTIONS) /\ (r.inspect # {} => r.type = "rtp")
    BY <1>1, AcceptedRules DEF Candidates, Range
  <2>2. r.inspect \in SUBSET {"dlp", "mcp"} /\ r.action \in TERMINAL_ACTIONS
    BY <2>1 DEF RuleWith
  <2>3. CASE r.inspect = {}
    BY <1>2, <2>2, <2>3 DEF terminalToProxyAction, Outcomes
  <2>4. CASE r.inspect # {}
    <3>1. CASE "dlp" \in r.inspect
      BY <2>1, <2>4, <3>1 DEF terminalToProxyAction, Outcomes, Inspection
    <3>2. CASE "dlp" \notin r.inspect
      <4>1. "mcp" \in r.inspect
        BY <2>2, <2>4, <3>2
      <4>2. terminalToProxyAction(r) = "inspect_mcp"
        BY <2>1, <2>4, <3>2, <4>1 DEF terminalToProxyAction
      <4>3. QED
        BY <2>4, <4>1, <4>2 DEF Outcomes, Inspection
    <3>3. QED
      BY <3>1, <3>2
  <2>5. QED
    BY <2>3, <2>4
<1>4. accepted.default \in TERMINAL_ACTIONS
  BY <1>1, AcceptedRules
<1>5. QED
  BY <1>2, <1>3, <1>4, DecideByRules

\* What the proxy decides is what the document says, whatever the rules and their number:
\* the least rule by type, priority and id that matches and is no CONTINUE decides, and
\* without one the default does.  Nothing is lost or reordered by the tables, the grouping
\* and the sort, if every condition is a list; and but for rules that inspect and say BLOCK
\* or COACH the outcome is the one the documents give.
THEOREM DecisionFollowsDocument == EngineSpec => []DecisionMatchesDocument
BY DecisionByDocument, FromUploadInductive, PTL

\* Precedes is a strict order on rules.
LEMMA PrecedesAsymmetric ==
    ASSUME NEW a \in RuleWith(TERMINAL_ACTIONS), NEW b \in RuleWith(TERMINAL_ACTIONS),
           Precedes(a, b), Precedes(b, a)
    PROVE  FALSE
<1>1. /\ Rank[a.type] \in 1 .. 4 /\ Rank[b.type] \in 1 .. 4
  BY DEF RuleWith, POLICY_TYPES, Rank
<1>2. /\ PriorityOf(a) \in Nat /\ PriorityOf(b) \in Nat /\ a.id \in Nat /\ b.id \in Nat
  BY DEF RuleWith, PriorityOf, NoPriority
<1>3. QED
  BY <1>1, <1>2 DEF Precedes

\* Engine.Decide stops at a rule that says continue, the new pipeline goes on.
SaysContinue(r) == r.action \in {"continue", "CONTINUE"}

\* _migrate_legacy_rule: the migrated rule of a flat document matches what the rule matched,
\* and denies if it said block, in lower case or not.
LEMMA MigratedRule ==
    ASSUME FromUpload, Loaded, doc.legacy, NEW i \in DOMAIN doc.rules
    PROVE  LET r == doc.rules[i]
               a == accepted.rules[i]
           IN  /\ i \in DOMAIN accepted.rules
               /\ \A h \in Hosts, m \in Methods :
                    HasSay(a, h, m) <=> /\ matchesDomainCondition(r, h)
                                        /\ matchesMethodCondition(r, m)
                                        /\ ~SaysContinue(r)
               /\ Denied(terminalToProxyAction(a)) <=> r.action \in {"block", "BLOCK"}
<1> DEFINE r == doc.rules[i]
           a == accepted.rules[i]
<1>1. HasTables /\ HasAccepted
  BY DEF HasTables, HasAccepted, Loaded
<1>2. /\ r \in FlatRules /\ r \in RuleWith(RawActions) /\ i \in DOMAIN accepted.rules
      /\ a.domains = r.domains /\ a.destinations = r.destinations /\ a.methods = r.methods
      /\ a.type = r.type
  BY <1>1, DocumentRules, NormalizedRules DEF FromUpload
<1>3. a = _migrate_legacy_rule(r)
  BY <1>1 DEF FromUpload, HasAccepted, normalize_policy_document
<1>4. r.domains \subseteq Hosts
  <2>1. Rec(a) \in Records /\ a \in RuleWith(TERMINAL_ACTIONS)
    BY <1>1, <1>2, Tables, AcceptedRules
  <2>2. GoCompiles(Rec(a))
    BY <2>1 DEF FromUpload, Loaded
  <2>3. QED
    BY <1>2, <2>1, <2>2, RecordOfRule DEF GoCompiles
<1>5. r.type = "rtp" /\ r.inspect = {} /\ r.destinations = {}
  BY <1>2 DEF FlatRules
<1>6. r.action \in RawActions
  BY <1>2 DEF RuleWith
<1> HIDE DEF r, a
<1>7. /\ a.action = "CONTINUE" <=> SaysContinue(r)
      /\ Denied(terminalToProxyAction(a)) <=> r.action \in {"block", "BLOCK"}
  <2>1. CASE lower(r.action) \in {"inspect_dlp", "inspect_mcp"}
    <3>1. a.action = "ALLOW"
      BY <1>2, <1>3, <2>1 DEF _migrate_legacy_rule, RuleWith
    <3>2. a.inspect = {"dlp"} \/ a.inspect = {"mcp"}
      BY <1>2, <1>3, <2>1 DEF _migrate_legacy_rule, RuleWith
    <3>3. r.action \notin {"block", "BLOCK", "continue", "CONTINUE"}
      BY <2>1 DEF lower, LowerCase
    <3>4. QED
      BY <1>2, <1>5, <3>1, <3>2, <3>3 DEF Denied, terminalToProxyAction, SaysContinue
  <2>2. CASE lower(r.action) \notin {"inspect_dlp", "inspect_mcp"}
    <3>1. a = [r EXCEPT !.action = normalize_terminal_action(r.action)]
      BY <1>3, <2>2 DEF _migrate_legacy_rule
    <3>2. a.inspect = {} /\ a.action = normalize_terminal_action(r.action)
      BY <1>2, <1>5, <3>1 DEF RuleWith
    <3>3. terminalToProxyAction(a) = mapTerminalAction(a.action)
      BY <3>2 DEF terminalToProxyAction
    <3>4. /\ lower(r.action) \in {"allow", "block", "bypass", "fwd", "forward", "coach", "continue"}
          /\ lower(r.action) = "block" <=> r.action \in {"block", "BLOCK"}
          /\ lower(r.action) = "continue" <=> r.action \in {"continue", "CONTINUE"}
      BY <1>6, <2>2 DEF RawActions, LowerActions, LowerCase, lower
    <3>5. /\ a.action = "CONTINUE" <=> lower(r.action) = "continue"
          /\ a.action = "BLOCK" <=> lower(r.action) = "block"
      BY <3>2, <3>4 DEF normalize_terminal_action, _LEGACY_ACTION_MAP
    <3>6. QED
      BY <3>3, <3>4, <3>5 DEF Denied, mapTerminalAction, SaysContinue
  <2>3. QED
    BY <2>1, <2>2
<1>8. ASSUME NEW h \in Hosts, NEW m \in Methods
      PROVE  HasSay(a, h, m) <=> /\ matchesDomainCondition(r, h)
                                 /\ matchesMethodCondition(r, m)
                                 /\ ~SaysContinue(r)
  BY <1>2, <1>4, <1>5, <1>7
  DEF HasSay, matchesRule, domainPatterns, matchesDomainCondition, matchesMethodCondition
<1>9. QED
  BY <1>2, <1>7, <1>8 DEF r, a

\* Engine.Decide takes the first rule that matches, and in the order of the new pipeline no
\* other rule that matches precedes it.
LEMMA LegacyByDocument == FromUpload => LegacyPreserved
<1> SUFFICES ASSUME FromUpload, Loaded, doc.legacy,
                    \A i, j \in DOMAIN doc.rules : i < j => Precedes(doc.rules[i], doc.rules[j]),
                    NEW h \in Hosts, NEW m \in Methods
             PROVE  LET e == EngineDecide(h, m)
                    IN  /\ Denied(e) => Denied(Decide(h, m))
                        /\ Denied(Decide(h, m)) =>
                             Denied(e) \/ e \in {"BLOCK", "continue", "CONTINUE"}
  BY DEF LegacyPreserved
<1> DEFINE Matches(r) == matchesDomainCondition(r, h) /\ matchesMethodCondition(r, m)
           I == {i \in 1 .. Len(doc.rules) : Matches(doc.rules[i])}
           J == {i \in I : ~SaysContinue(doc.rules[i])}
           k == IF I # {} THEN Min(I) ELSE 0
           C == Candidates(h, m)
<1>1. HasAccepted /\ doc \in Documents
  BY DEF HasAccepted, Loaded, FromUpload
<1>2. EngineDecide(h, m) = IF k = 0 THEN doc.default ELSE doc.rules[k].action
  BY DEF EngineDecide, SelectInSeq
<1>3. /\ DOMAIN doc.rules = 1 .. Len(doc.rules) /\ Len(doc.rules) \in Nat
      /\ doc.default \in {"allow", "block", "BLOCK"}
      /\ DOMAIN accepted.rules = DOMAIN doc.rules
  BY <1>1, DocumentRules, NormalizedRules DEF Defaults
<1>4. I \in SUBSET Nat /\ 0 \notin I
  OBVIOUS
<1>5. C = {accepted.rules[i] : i \in J}
  <2> HIDE DEF Matches
  <2>1. \A i \in DOMAIN accepted.rules :
          HasSay(accepted.rules[i], h, m) <=> Matches(doc.rules[i]) /\ ~SaysContinue(doc.rules[i])
    BY <1>3, MigratedRule DEF Matches
  <2>2. QED
    BY <1>3, <2>1 DEF Candidates, Range
<1>6. ListsOnly
  <2>1. \A i \in DOMAIN accepted.rules : accepted.rules[i].destinations = {}
    BY <1>1, <1>3, DocumentRules, NormalizedRules DEF FlatRules
  <2>2. QED
    BY <2>1 DEF ListsOnly, Range
<1>7. CASE I = {}
  <2>1. C = {} /\ k = 0
    BY <1>5, <1>7
  <2>2. Decide(h, m) = mapTerminalAction(accepted.default)
    BY <1>6, <2>1, DecideByRules
  <2>3. accepted.default = IF doc.default = "allow" THEN "ALLOW" ELSE "BLOCK"
    BY <1>1, <1>3
    DEF FromUpload, HasAccepted, normalize_policy_document, normalize_terminal_action,
        _LEGACY_ACTION_MAP, lower, LowerCase
  <2>4. QED
    BY <1>2, <1>3, <2>1, <2>2, <2>3 DEF Denied, mapTerminalAction
<1>8. CASE I # {}
  <2>1. k \in I /\ \A i \in I : k <= i
    <3> HIDE DEF I
    <3>1. QED
      BY <1>4, <1>8, LeastIs
  <2>2. k # 0 /\ k \in DOMAIN doc.rules /\ EngineDecide(h, m) = doc.rules[k].action
    BY <1>2, <1>3, <1>4, <2>1
  <2> DEFINE a == accepted.rules[k]
  <2>3. CASE SaysContinue(doc.rules[k])
    BY <2>2, <2>3 DEF SaysContinue, Denied
  <2>4. CASE ~SaysContinue(doc.rules[k])
    <3>1. k \in J
      BY <2>1, <2>4
    <3>2. PICK r \in C : Decides(r, h, m) /\ Decide(h, m) = terminalToProxyAction(r)
      BY <1>5, <1>6, <3>1, DecideByRules
    <3> HIDE DEF I, k
    <3>3. PICK j \in J : r = accepted.rules[j]
      BY <1>5, <3>2
    <3>4. r = a
      <4> SUFFICES ASSUME r # a PROVE FALSE
        OBVIOUS
      <4>1. j \in DOMAIN doc.rules /\ k < j
        BY <1>3, <2>1, <3>3 DEF I
      <4>2. Precedes(doc.rules[k], doc.rules[j])
        BY <2>2, <4>1
      <4>3. Precedes(a, r)
        BY <1>1, <2>2, <3>3, <4>1, <4>2, NormalizedRules DEF Precedes, PriorityOf
      <4>4. Precedes(r, a)
        BY <1>5, <3>1, <3>2 DEF Decides
      <4>5. a \in RuleWith(TERMINAL_ACTIONS) /\ r \in RuleWith(TERMINAL_ACTIONS)
        BY <1>1, <1>3, <2>2, <3>3, <4>1, AcceptedRules
      <4>6. QED
        BY <4>3, <4>4, <4>5, PrecedesAsymmetric
    <3>5. Denied(terminalToProxyAction(a)) <=> doc.rules[k].action \in {"block", "BLOCK"}
      BY <2>2, MigratedRule
    <3>6. QED
      BY <2>2, <3>2, <3>4, <3>5 DEF Denied
  <2>5. QED
    BY <2>3, <2>4
<1>9. QED
  BY <1>7, <1>8

\* A flat document of any length denies through migration, tables and AST all that the
\* Engine denied, if priorities and ids follow the order of its rules; what it denies
\* beyond that, the Engine met with a BLOCK not in lower case or a continue.
THEOREM LegacyKeepsDenials == EngineSpec => []LegacyPreserved
BY LegacyByDocument, FromUploadInductive, PTL

\* A document that validate_policy_document accepted fails to load only for a pattern that
\* Python's re compiles and Go's regexp does not.
THEOREM AcceptedLoads == EngineSpec => []LoadFailsOnlyForSyntax
<1>1. FromUpload => LoadFailsOnlyForSyntax
  <2> SUFFICES ASSUME FromUpload, stage = "failed"
               PROVE  \E i \in DOMAIN doc.rules :
                        PyOnly \in doc.rules[i].domains \cup doc.rules[i].destinations
    BY DEF LoadFailsOnlyForSyntax
  <2>1. HasTables /\ HasAccepted
    BY DEF HasTables, HasAccepted
  <2>2. PICK w \in Records : ~GoCompiles(w)
    BY DEF FromUpload
  <2>3. PICK i \in DOMAIN accepted.rules : w = Rec(accepted.rules[i])
    BY <2>1, Tables
  <2> DEFINE a == accepted.rules[i]
  <2>4. a \in RuleWith(TERMINAL_ACTIONS) /\ Broken \notin a.domains \cup a.destinations
    BY <2>1, AcceptedRules
  <2>5. ~ (a.domains \cup (a.destinations \ {NotAList}) \subseteq Hosts)
    BY <2>2, <2>3, <2>4, RecordOfRule DEF GoCompiles
  <2>6. a.domains \cup (a.destinations \ {NotAList}) \subseteq Hosts \cup {PyOnly, Broken}
    <3>1. a.domains \in SUBSET Patterns /\ a.destinations \in (SUBSET Patterns) \cup {{NotAList}}
      BY <2>4 DEF RuleWith
    <3> HIDE DEF a
    <3>2. a.destinations \ {NotAList} \subseteq Patterns
      BY <3>1
    <3>3. QED
      BY <3>1, <3>2 DEF Patterns
  <2>7. /\ i \in DOMAIN doc.rules
        /\ a.domains = doc.rules[i].domains /\ a.destinations = doc.rules[i].destinations
    BY <2>1, NormalizedRules
  <2>8. PyOnly \in a.domains \cup a.destinations
    BY <2>4, <2>5, <2>6
  <2>9. QED
    BY <2>7, <2>8
<1>2. QED
  BY <1>1, FromUploadInductive, PTL
=============================================================================
