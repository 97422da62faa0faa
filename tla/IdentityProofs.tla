--------------------------- MODULE IdentityProofs ---------------------------
(***************************************************************************)
(* Theorems about Identity: what configuration a process runs with, and    *)
(* whom it serves a request as, for every set of tenants, every lifetime   *)
(* of a token and every width of a duration.                               *)
(***************************************************************************)
EXTENDS Identity, TLAPS

-----------------------------------------------------------------------------
(* config.Load *)

\* A field that is left out has its default, one that is set its value.
LEMMA FieldValue ==
    /\ Unset.set = FALSE
    /\ \A v : Is(v).set = TRUE /\ Is(v).val = v
    /\ \A d : Or(Unset, d) = d
    /\ \A v, d : Or(Is(v), d) = v
  BY DEF Unset, Is, Or

\* What the file may say of the three fields.
LEMMA FileTypes ==
    ASSUME NEW f \in Files
    PROVE  /\ f.fields.mode \in {Unset, Is("empty"), Is("strict"), Is("Strict")}
           /\ f.fields.tenant \in {Unset, Is(0)}
           /\ f.fields.limit \in {Unset, Is(0)}
           /\ f.state \in {"unnamed", "missing", "syntax", "type", "required", "ok"}
           /\ f.state \in {"unnamed", "missing", "syntax"} => f.fields = NoFields
  <1>1. CASE f \in [state : {"unnamed", "missing", "syntax"}, fields : {NoFields}]
    <2>1. f.fields = NoFields /\ f.state \in {"unnamed", "missing", "syntax"}
      BY <1>1
    <2>2. NoFields.mode = Unset /\ NoFields.tenant = Unset /\ NoFields.limit = Unset
      BY DEF NoFields
    <2> QED
      BY <2>1, <2>2
  <1>2. CASE f \in [state : {"type", "required", "ok"}, fields : FileFields]
    BY <1>2 DEF FileFields
  <1> QED
    BY <1>1, <1>2 DEF Files

\* What the environment may say of them.
LEMMA EnvTypes ==
    ASSUME NEW e \in Envs
    PROVE  /\ e.mode \in {Unset, Is("dev"), Is("Strict")}
           /\ e.tenant \in {Unset, Is(0), Is(2)}
           /\ e.limit \in {Unset, Is(0)}
           /\ e.bad \in {"none", "tenant", "limit", "later"}
  BY DEF Envs, EnvBad

Settings == [mode : {"empty", "dev", "strict", "Strict"}, tenant : Nat, limit : {0, 1}]

\* finalizeConfig: the mode is one of the two, and the limit is the one it was given
\* unless the environment sets another.
LEMMA FinalizeType ==
    ASSUME NEW c \in Settings, NEW e \in Envs
    PROVE  /\ finalizeConfig(c, e).cfg \in Settings
           /\ finalizeConfig(c, e).cfg.mode \in {"dev", "strict"}
           /\ finalizeConfig(c, e).err = (IF e.bad = "none" THEN "none" ELSE "env")
           /\ finalizeConfig(c, e).cfg.limit = c.limit \/ e.limit = Is(0)
           /\ finalizeConfig(c, e).cfg.mode = "strict" <=>
                Or(e.mode, c.mode) \in {"strict", "Strict"}
  <1> DEFINE d == [c EXCEPT !.mode = normalizeTenantMode(@),
                            !.tenant = Positive(@, Default.tenant)]
  <1>1. /\ d \in Settings /\ d.mode \in {"dev", "strict"} /\ d.limit = c.limit
        /\ d.mode = "strict" <=> c.mode \in {"strict", "Strict"}
    BY DEF Settings, normalizeTenantMode, Positive, Default
  <1> HIDE DEF d
  <1> DEFINE a == applyEnvOverrides(d, e)
  <1>2. /\ Or(e.tenant, d.tenant) \in Nat
        /\ Or(e.limit, d.limit) \in {0, 1}
        /\ Or(e.limit, d.limit) = d.limit \/ e.limit = Is(0)
    <2>1. d.tenant \in Nat /\ d.limit \in {0, 1}
      BY <1>1 DEF Settings
    <2>2. Or(e.tenant, d.tenant) \in {d.tenant, 0, 2}
      BY EnvTypes, FieldValue
    <2>3. (e.limit = Unset /\ Or(e.limit, d.limit) = d.limit) \/ (e.limit = Is(0) /\ Or(e.limit, d.limit) = 0)
      BY EnvTypes, FieldValue
    <2> QED
      BY <2>1, <2>2, <2>3
  <1>3. a.mode = (IF e.mode.set THEN normalizeTenantMode(e.mode.val) ELSE d.mode)
    BY DEF applyEnvOverrides
  <1>4. a.mode \in {"dev", "strict"} /\ (a.mode = "strict" <=> Or(e.mode, c.mode) \in {"strict", "Strict"})
    <2>1. CASE e.mode = Unset
      BY <1>1, <1>3, <2>1, FieldValue
    <2>2. CASE e.mode = Is("dev")
      BY <1>3, <2>2, FieldValue DEF normalizeTenantMode
    <2>3. CASE e.mode = Is("Strict")
      BY <1>3, <2>3, FieldValue DEF normalizeTenantMode
    <2> QED
      BY <2>1, <2>2, <2>3, EnvTypes
  <1>5. a \in Settings /\ (a.limit = c.limit \/ e.limit = Is(0))
    BY <1>1, <1>2, <1>4 DEF applyEnvOverrides, Settings
  <1>6. finalizeConfig(c, e) = [cfg |-> a, err |-> IF e.bad = "none" THEN "none" ELSE "env"]
    BY DEF finalizeConfig, d
  <1> QED
    BY <1>4, <1>5, <1>6

\* Load: the settings have their types whatever file and environment hold.  Inspection is
\* off, or the mode not the one that was asked for, only by the environment or after an
\* error.
LEMMA LoadType ==
    ASSUME NEW f \in Files, NEW e \in Envs
    PROVE  LET l == Load(f, e)
           IN  /\ l.cfg \in Settings
               /\ l.err \in {"none", "read", "yaml", "required", "env"}
               /\ l.err = "none" => l.cfg.mode \in {"dev", "strict"}
               /\ l.cfg.limit = 0 => e.limit = Is(0) \/ l.err \in {"yaml", "required"}
               /\ l.err = "none" /\ Or(e.mode, Or(f.fields.mode, "dev")) \in {"strict", "Strict"}
                    => l.cfg.mode = "strict"
  <1> DEFINE u == Unmarshal(f.fields)
             fm == f.fields.mode
             ft == f.fields.tenant
             fl == f.fields.limit
  <1>0. /\ fm \in {Unset, Is("empty"), Is("strict"), Is("Strict")}
        /\ ft \in {Unset, Is(0)} /\ fl \in {Unset, Is(0)}
        /\ f.state = "unnamed" => f.fields = NoFields
    BY FileTypes
  <1>1. u \in Settings /\ u.mode = Or(f.fields.mode, "dev")
    <2> HIDE DEF fm, ft, fl
    <2>1. Or(fm, "dev") \in {"empty", "dev", "strict", "Strict"}
      BY <1>0, FieldValue
    <2>2. Or(ft, 1) \in {0, 1} /\ Or(fl, 1) \in {0, 1}
      BY <1>0, FieldValue
    <2>3. Default.mode = "dev" /\ Default.tenant = 1 /\ Default.limit = 1
      BY DEF Default
    <2>4. u = [mode |-> Or(fm, "dev"), tenant |-> Or(ft, 1), limit |-> Or(fl, 1)]
      BY <2>3 DEF Unmarshal, fm, ft, fl
    <2>5. u \in Settings /\ u.mode = Or(fm, "dev")
      BY <2>1, <2>2, <2>4 DEF Settings
    <2> QED
      BY <2>5 DEF fm
  <1>2. Default \in Settings /\ Default.mode = "dev" /\ Default.limit = 1
    BY DEF Default, Settings
  <1> HIDE DEF u
  <1>3. restoreLimit(u) \in Settings /\ restoreLimit(u).limit = 1 /\ restoreLimit(u).mode = u.mode
    BY <1>1 DEF restoreLimit, Positive, Settings, Default
  <1>4. CASE f.state = "unnamed"
    <2>1. Load(f, e) = finalizeConfig(Default, e)
      BY <1>4 DEF Load
    <2>2. f.fields = NoFields
      BY <1>0, <1>4
    <2>3. fm = Unset
      BY <2>2 DEF NoFields
    <2> QED
      BY <1>2, <2>1, <2>3, FinalizeType, FieldValue
  <1>5. CASE f.state = "missing"
    <2>1. Load(f, e) = [cfg |-> Default, err |-> "read"]
      BY <1>5 DEF Load
    <2> QED
      BY <1>2, <2>1
  <1>6. CASE f.state = "syntax"
    <2>1. Load(f, e) = [cfg |-> Default, err |-> "yaml"]
      BY <1>6 DEF Load
    <2> QED
      BY <1>2, <2>1
  <1>7. CASE f.state = "type"
    <2>1. Load(f, e) = [cfg |-> u, err |-> "yaml"]
      BY <1>7 DEF Load, u
    <2> QED
      BY <1>1, <2>1
  <1>8. CASE f.state = "required"
    <2>1. Load(f, e) = [cfg |-> u, err |-> "required"]
      BY <1>8 DEF Load, u
    <2> QED
      BY <1>1, <2>1
  <1>9. CASE f.state = "ok"
    <2>1. Load(f, e) = finalizeConfig(restoreLimit(u), e)
      BY <1>9 DEF Load, u
    <2> QED
      BY <1>1, <1>3, <2>1, FinalizeType
  <1> QED
    BY <1>4, <1>5, <1>6, <1>7, <1>8, <1>9, FileTypes

-----------------------------------------------------------------------------
(* Tokens *)

\* time.Duration: what fits is kept, and what does not stays in range.
LEMMA WrapType ==
    ASSUME NEW n \in Nat
    PROVE  Wrap(n) \in -Span .. Span - 1 /\ (n < Span => Wrap(n) = n)
  <1> DEFINE m == (n + Span) % (2 * Span)
  <1>1. 2 * Span \in Nat \ {0} /\ n + Span \in Nat
    BY SpanAssumption
  <1>2. m \in 0 .. 2 * Span - 1 /\ (n + Span < 2 * Span => m = n + Span)
    BY <1>1
  <1> HIDE DEF m
  <1> QED
    BY <1>2, SpanAssumption DEF Wrap, m

\* accessTokenTTL: an ignored setting gives the default, which fits.
LEMMA TTLType ==
    ASSUME NEW h \in Hours
    PROVE  /\ Positive(accessTokenTTL(h), 0) \in 0 .. Span
           /\ h < Span => Positive(accessTokenTTL(h), 0) >= (IF h = 0 THEN 1 ELSE h)
  <1> DEFINE g == IF h = 0 THEN DefaultHours ELSE h
  <1>1. g \in Nat /\ g # 0 /\ (h < Span => g < Span) /\ (h # 0 => g = h)
    BY HoursAssumption, SpanAssumption
  <1>2. accessTokenTTL(h) = Wrap(g)
    BY DEF accessTokenTTL
  <1> HIDE DEF g
  <1> QED
    BY <1>1, <1>2, WrapType, SpanAssumption DEF Positive

-----------------------------------------------------------------------------
(* The process *)

\* What is needed beside the types: the process runs with what Load returned.
Loaded == pc # "start" => cfg = Load(file, env).cfg /\ err = Load(file, env).err

LEMMA IdInitial == IdInit => IdTypeOK /\ Loaded
  <1> SUFFICES ASSUME IdInit PROVE IdTypeOK /\ Loaded
    OBVIOUS
  <1> USE DEF IdInit
  <1>1. cfg \in Settings /\ cfg.mode \in {"dev", "strict"}
    BY DEF Default, Settings
  <1>2. token \in [kind : {"none", "forged", "signed"}, claim : {NoTenant} \cup Tenants,
                   left : 0 .. Span]
    BY SpanAssumption DEF NoToken
  <1> QED
    BY <1>1, <1>2 DEF IdTypeOK, Loaded, Settings, NoTenant

LEMMA IdStep == IdTypeOK /\ Loaded /\ [IdNext]_idVars => IdTypeOK' /\ Loaded'
  <1> SUFFICES ASSUME IdTypeOK, Loaded, [IdNext]_idVars PROVE IdTypeOK' /\ Loaded'
    OBVIOUS
  <1> DEFINE TokenOK == token \in [kind : {"none", "forged", "signed"},
                                   claim : {NoTenant} \cup Tenants, left : 0 .. Span]
  <1>1. CASE Start
    <2>1. Load(file, env).cfg \in Settings
      BY LoadType DEF IdTypeOK
    <2>2. /\ Load(file, env).err \in {"none", "read", "yaml", "required", "env"}
          /\ Load(file, env).err = "none" => Load(file, env).cfg.mode \in {"dev", "strict"}
      BY LoadType DEF IdTypeOK
    <2> QED
      BY <1>1, <2>1, <2>2 DEF Start, IdTypeOK, Loaded, Settings
  <1>2. CASE Forge
    <2>1. TokenOK'
      <3>1. token' = [kind |-> "forged", claim |-> NoTenant, left |-> 1]
        BY <1>2 DEF Forge, NoToken
      <3> QED
        BY <3>1, SpanAssumption
    <2> QED
      BY <1>2, <2>1 DEF Forge, IdTypeOK, Loaded
  <1>3. CASE Tick
    <2>1. TokenOK'
      BY <1>3, SpanAssumption DEF Tick, IdTypeOK
    <2> QED
      BY <1>3, <2>1 DEF Tick, IdTypeOK, Loaded
  <1>4. CASE Answer
    BY <1>4 DEF Answer, IdTypeOK, Loaded, NoTenant
  <1>5. ASSUME NEW h \in Hours, NEW claim \in {NoTenant} \cup Tenants, GenerateJWT(h, claim)
        PROVE  IdTypeOK' /\ Loaded'
    <2>1. TokenOK'
      BY <1>5, TTLType DEF GenerateJWT
    <2> QED
      BY <1>5, <2>1 DEF GenerateJWT, IdTypeOK, Loaded
  <1>6. ASSUME NEW a \in Headers, NEW p \in Headers, Request(a, p)
        PROVE  IdTypeOK' /\ Loaded'
    <2>1. ExtractAuthorizationnHeader(TokenHeader(a, p)) \in Nat
      BY TenantsAssumption DEF ExtractAuthorizationnHeader, resolveTenantID, IdTypeOK, NoTenant
    <2> QED
      BY <1>6, <2>1 DEF Request, IdTypeOK, Loaded
  <1>7. ASSUME NEW t \in Tenants, Toggle(t)
        PROVE  IdTypeOK' /\ Loaded'
    BY <1>7 DEF Toggle, IdTypeOK, Loaded
  <1>8. CASE UNCHANGED idVars
    BY <1>8 DEF idVars, IdTypeOK, Loaded
  <1> QED
    BY <1>1, <1>2, <1>3, <1>4, <1>5, <1>6, <1>7, <1>8 DEF IdNext

\* config.Load, jwt, auth: the types, and that every process runs with exactly what Load
\* returned for its file and environment, whether or not Load reported an error.
THEOREM IdTypeCorrect == IdSpec => [](IdTypeOK /\ Loaded)
  BY IdInitial, IdStep, PTL DEF IdSpec

\* restoreLimit, applyEnvOverrides: inspection is off in a running process only by the
\* environment, or by an error of the file.
THEOREM InspectionIsOn == IdSpec => []InspectionStaysOn
  <1>1. IdTypeOK /\ Loaded => InspectionStaysOn
    <2> SUFFICES ASSUME IdTypeOK, Loaded, pc # "start", cfg.limit <= 0
                 PROVE  env.limit = Is(0) \/ err \in {"yaml", "required"}
      BY DEF InspectionStaysOn
    <2>1. cfg.limit = 0
      BY DEF IdTypeOK
    <2>2. file \in Files /\ env \in Envs /\ cfg = Load(file, env).cfg /\ err = Load(file, env).err
      BY DEF IdTypeOK, Loaded
    <2> QED
      BY <2>1, <2>2, LoadType
  <1> QED
    BY <1>1, IdTypeCorrect, PTL

\* ValidateJWT, resolveTenantID: who a request is served as, in every process that Load
\* can configure.
THEOREM ServesAsIntended == IdSpec => ServedAsIntended
  <1> DEFINE Meant ==
        pc = "up" /\ pc' = "answered" /\ who' # NoTenant =>
          /\ token.kind = "signed" /\ token.left > 0
          /\ who' \in {token.claim, cfg.tenant} /\ (token.claim # NoTenant => who' = token.claim)
          /\ WantsStrict /\ err = "none" => who' = token.claim /\ who' \in exists
  <1>1. IdTypeOK /\ Loaded /\ [IdNext]_idVars => [Meant]_idVars
    <2> SUFFICES ASSUME IdTypeOK, Loaded, IdNext, pc = "up", pc' = "answered", who' # NoTenant
                 PROVE  /\ token.kind = "signed" /\ token.left > 0
                        /\ who' \in {token.claim, cfg.tenant}
                        /\ token.claim # NoTenant => who' = token.claim
                        /\ WantsStrict /\ err = "none" => who' = token.claim /\ who' \in exists
      OBVIOUS
    <2>1. PICK a \in Headers, p \in Headers : Request(a, p)
      BY DEF IdNext, Start, Forge, Tick, Answer, GenerateJWT, Toggle
    <2>2. ValidateJWT(token) /\ who' = resolveTenantID(token.claim)
      BY <2>1 DEF Request, ExtractAuthorizationnHeader
    <2>3. WantsStrict /\ err = "none" => cfg.mode = "strict"
      <3>1. file \in Files /\ env \in Envs /\ cfg = Load(file, env).cfg /\ err = Load(file, env).err
        BY DEF IdTypeOK, Loaded
      <3> QED
        BY <3>1, LoadType DEF WantsStrict
    <2> QED
      BY <2>2, <2>3 DEF ValidateJWT, resolveTenantID
  <1> QED
    BY <1>1, IdTypeCorrect, PTL DEF IdSpec, ServedAsIntended

\* accessTokenTTL, GenerateJWT: a token can be used when it is issued, for every lifetime
\* that fits a time.Duration.
THEOREM IssuedIsUsable == IdSpec => UsableWhenIssued
  <1>1. \A h \in Hours, claim \in {NoTenant} \cup Tenants :
           GenerateJWT(h, claim) /\ h < Span => token'.left >= (IF h = 0 THEN 1 ELSE h)
    <2> SUFFICES ASSUME NEW h \in Hours, NEW claim \in {NoTenant} \cup Tenants,
                        GenerateJWT(h, claim), h < Span
                 PROVE  token'.left >= (IF h = 0 THEN 1 ELSE h)
      OBVIOUS
    <2>1. token'.left = Positive(accessTokenTTL(h), 0)
      BY DEF GenerateJWT
    <2> QED
      BY <2>1, TTLType
  <1> QED
    BY <1>1, PTL DEF UsableWhenIssued
=============================================================================
