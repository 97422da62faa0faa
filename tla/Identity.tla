------------------------------ MODULE Identity ------------------------------
(***************************************************************************)
(* Who a request is served as: the configuration main starts with          *)
(* (Config), the tokens of jwt/handler.go, and the validator of            *)
(* auth/auth.go and auth/tenant.go that evaluate asks.                     *)
(*                                                                         *)
(* golang-jwt is external: a token is accepted when it is signed with the  *)
(* secret by HS256 and has not expired.                                    *)
(***************************************************************************)
EXTENDS Config

CONSTANTS
    Tenants,       \* tenant ids that have had a policy.db; Default.tenant may be one
    Hours,         \* values of JWT_ACCESS_EXPIRY_HOURS; 0 stands for all that is ignored
    DefaultHours,
    Span           \* a time.Duration holds -Span .. Span - 1, in units of an hour

NoTenant == 0

ASSUME TenantsAssumption == Tenants \subseteq Nat \ {NoTenant}
ASSUME HoursAssumption == Hours \subseteq Nat /\ DefaultHours \in Nat \ {0}
ASSUME SpanAssumption == Span \in Nat \ {0} /\ DefaultHours < Span

VARIABLES
    file, env,  \* what the operator wrote
    cfg, err,   \* what Load returned
    exists,     \* tenants whose policy.db is on disk
    token,      \* the client's token, and how long it is still valid
    pc, who     \* main or the request under way, and the tenant it is served as

idVars == <<file, env, cfg, err, exists, token, pc, who>>

NoToken == [kind |-> "none", claim |-> NoTenant, left |-> 0]

IdTypeOK ==
    /\ file \in Files /\ env \in Envs
    /\ cfg \in [mode : {"empty", "dev", "strict", "Strict"}, tenant : Nat, limit : {0, 1}]
    /\ err \in {"none", "read", "yaml", "required", "env"}
    /\ err = "none" => cfg.mode \in {"dev", "strict"}
    /\ exists \subseteq Tenants
    /\ token \in [kind : {"none", "forged", "signed"}, claim : {NoTenant} \cup Tenants,
                  left : 0 .. Span]
    /\ pc \in {"start", "up", "answered"} /\ who \in Nat

-----------------------------------------------------------------------------
(* Tokens *)

\* Multiplication of a time.Duration wraps round.
Wrap(n) == ((n + Span) % (2 * Span)) - Span

\* Mutant: a lifetime of 0 hours is taken as it is.
accessTokenTTLRaw(h) == Wrap(h)

accessTokenTTL(h) == Wrap(IF h = 0 THEN DefaultHours ELSE h)

\* ValidateJWT.
ValidateJWT(k) == k.kind = "signed" /\ k.left > 0

GenerateJWT(h, claim) ==
    /\ pc = "up"
    /\ token' = [kind |-> "signed", claim |-> claim,
                 left |-> Positive(accessTokenTTL(h), 0)]
    /\ UNCHANGED <<file, env, cfg, err, exists, pc, who>>

\* A token somebody else signed.
Forge ==
    /\ pc = "up"
    /\ token' = [NoToken EXCEPT !.kind = "forged", !.left = 1]
    /\ UNCHANGED <<file, env, cfg, err, exists, pc, who>>

Tick ==
    /\ pc = "up" /\ token.left > 0
    /\ token' = [token EXCEPT !.left = @ - 1]
    /\ UNCHANGED <<file, env, cfg, err, exists, pc, who>>

-----------------------------------------------------------------------------
(* The validator *)

\* resolveTenantID; NoTenant stands for ErrMissingTenant and ErrUnknownTenant.
resolveTenantID(claim) ==
    IF claim # NoTenant
    THEN IF cfg.mode = "strict" /\ claim \notin exists THEN NoTenant ELSE claim
    ELSE IF cfg.mode = "strict" THEN NoTenant ELSE cfg.tenant

\* The two headers: absent, not a bearer token, bearer with nothing after it, the token.
Headers == {"absent", "basic", "empty", "bearer"}

\* Authorization hides Proxy-Authorization, whatever is in it.
TokenHeader(authorization, proxyAuthorization) ==
    IF authorization # "absent" THEN authorization ELSE proxyAuthorization

\* ExtractAuthorizationnHeader: after any error evaluate refuses the request, or asks for
\* the policy of tenant 0, which no registry has.
ExtractAuthorizationnHeader(header) ==
    IF header = "bearer" /\ ValidateJWT(token) THEN resolveTenantID(token.claim) ELSE NoTenant

-----------------------------------------------------------------------------
\* main: the error of Load is logged, and what it returned is used.
Start ==
    /\ pc = "start"
    /\ cfg' = Load(file, env).cfg
    /\ err' = Load(file, env).err
    /\ pc' = "up"
    /\ UNCHANGED <<file, env, exists, token, who>>

\* evaluate, up to Decide.
Request(authorization, proxyAuthorization) ==
    /\ pc = "up"
    /\ who' = ExtractAuthorizationnHeader(TokenHeader(authorization, proxyAuthorization))
    /\ pc' = "answered"
    /\ UNCHANGED <<file, env, cfg, err, exists, token>>

Answer ==
    /\ pc = "answered"
    /\ pc' = "up"
    /\ who' = NoTenant
    /\ UNCHANGED <<file, env, cfg, err, exists, token>>

\* The control plane publishes the policy of a tenant, or removes it.
Toggle(t) ==
    /\ pc = "up"
    /\ exists' = IF t \in exists THEN exists \ {t} ELSE exists \cup {t}
    /\ UNCHANGED <<file, env, cfg, err, token, pc, who>>

IdInit ==
    /\ file \in Files /\ env \in Envs
    /\ cfg = Default /\ err = "none"
    /\ exists = {}
    /\ token = NoToken
    /\ pc = "start"
    /\ who = NoTenant

IdNext ==
    \/ Start \/ Forge \/ Tick \/ Answer
    \/ \E h \in Hours, claim \in {NoTenant} \cup Tenants : GenerateJWT(h, claim)
    \/ \E a, p \in Headers : Request(a, p)
    \/ \E t \in Tenants : Toggle(t)

IdSpec == IdInit /\ [][IdNext]_idVars

-----------------------------------------------------------------------------
(* Properties *)

\* The mode the operator asked for: "Env vars are applied last so they always win".
WantsStrict == Or(env.mode, Or(file.fields.mode, "dev")) \in {"strict", "Strict"}

\* Load, resolveTenantID: a request is served as a tenant only on a token that is valid
\* at that moment, as the tenant it claims or else as the default one; and when strict
\* tenancy was asked for, in whatever spelling and by file or environment, only as a
\* tenant that has a policy, unless Load reported an error.
ServedAsIntended ==
    [][pc = "up" /\ pc' = "answered" /\ who' # NoTenant =>
        /\ token.kind = "signed" /\ token.left > 0
        /\ who' \in {token.claim, cfg.tenant} /\ (token.claim # NoTenant => who' = token.claim)
        /\ WantsStrict /\ err = "none" => who' = token.claim /\ who' \in exists]_idVars

\* Load: a running proxy inspects nothing only when the environment says so, or when an
\* error of the file, which main ignores, left the file's own limit unchecked.
InspectionStaysOn ==
    pc # "start" /\ cfg.limit <= 0 => env.limit = Is(0) \/ err \in {"yaml", "required"}

\* accessTokenTTL: a token is valid when it is issued, for as long as was configured,
\* unless the configured hours do not fit a time.Duration.
UsableWhenIssued ==
    [][\A h \in Hours, claim \in {NoTenant} \cup Tenants :
         GenerateJWT(h, claim) /\ h < Span => token'.left >= (IF h = 0 THEN 1 ELSE h)]_idVars
=============================================================================
