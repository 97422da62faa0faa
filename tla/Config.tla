------------------------------- MODULE Config -------------------------------
(***************************************************************************)
(* config.Load (config/config.go) as a function of the configuration file  *)
(* and of the environment: Default, the file over it, the checks, and the  *)
(* ZTFP_* variables last.  An error on the way returns what was set so     *)
(* far, and main only logs it.                                             *)
(*                                                                         *)
(* Kept are the fields whose checks differ: tenant_mode, default_tenant_id *)
(* and max_inspect_body_bytes.  The cache, worker and timeout fields are   *)
(* treated like the limit, and their defaults applied once more by         *)
(* RegistryConfig.withDefaults.                                            *)
(***************************************************************************)
EXTENDS Integers

\* A field that is left out, or has a value.
Unset == [set |-> FALSE]
Is(v) == [set |-> TRUE, val |-> v]
Or(field, default) == IF field.set THEN field.val ELSE default

Default == [mode |-> "dev", tenant |-> 1, limit |-> 1]

\* The file: not named, not there, not YAML, with a field of the wrong type, with a
\* required field left empty, or fine.  "Strict" stands for the other spellings of strict,
\* "empty" for the empty string.
FileFields == [mode : {Unset, Is("empty"), Is("strict"), Is("Strict")},
               tenant : {Unset, Is(0)}, limit : {Unset, Is(0)}]
NoFields == [mode |-> Unset, tenant |-> Unset, limit |-> Unset]
Files == [state : {"unnamed", "missing", "syntax"}, fields : {NoFields}]
         \cup [state : {"type", "required", "ok"}, fields : FileFields]

\* The environment; bad is the first variable that does not parse.
EnvBad == {"none", "tenant", "limit", "later"}
Envs == [mode : {Unset, Is("dev"), Is("Strict")}, tenant : {Unset, Is(0), Is(2)},
         limit : {Unset, Is(0)}, bad : EnvBad]

\* Mutant: the spelling matters.
normalizeTenantModeExact(mode) == IF mode = "strict" THEN "strict" ELSE "dev"

normalizeTenantMode(mode) == IF mode \in {"strict", "Strict"} THEN "strict" ELSE "dev"
Positive(n, default) == IF n <= 0 THEN default ELSE n

\* yaml.Unmarshal over the defaults: a field of the wrong type does not stop the others.
Unmarshal(fields) == [mode |-> Or(fields.mode, Default.mode),
                      tenant |-> Or(fields.tenant, Default.tenant),
                      limit |-> Or(fields.limit, Default.limit)]

\* The variables up to the first that does not parse, in the order of the code.
applyEnvOverrides(cfg, env) ==
    [mode |-> IF env.mode.set THEN normalizeTenantMode(env.mode.val) ELSE cfg.mode,
     tenant |-> IF env.bad # "tenant" THEN Or(env.tenant, cfg.tenant) ELSE cfg.tenant,
     limit |-> IF env.bad \notin {"tenant", "limit"} THEN Or(env.limit, cfg.limit) ELSE cfg.limit]

\* Mutant: the mode of the file is not normalised.
finalizeConfigRaw(cfg, env) ==
    [cfg |-> applyEnvOverrides([cfg EXCEPT !.tenant = Positive(@, Default.tenant)], env),
     err |-> IF env.bad = "none" THEN "none" ELSE "env"]

\* PolicyDir and an empty mode have their defaults too; normalisation covers the latter.
finalizeConfig(cfg, env) ==
    [cfg |-> applyEnvOverrides([cfg EXCEPT !.mode = normalizeTenantMode(@),
                                           !.tenant = Positive(@, Default.tenant)], env),
     err |-> IF env.bad = "none" THEN "none" ELSE "env"]

\* Mutant: the limit of the file is taken as it is.
restoreLimitForgotten(cfg) == cfg

\* The inspection limit of a file is restored when it is not positive.
restoreLimit(cfg) == [cfg EXCEPT !.limit = Positive(@, Default.limit)]

Load(file, env) ==
    LET fromFile == Unmarshal(file.fields)
    IN  CASE file.state = "unnamed" -> finalizeConfig(Default, env)
          [] file.state = "missing" -> [cfg |-> Default, err |-> "read"]
          [] file.state = "syntax" -> [cfg |-> Default, err |-> "yaml"]
          [] file.state = "type" -> [cfg |-> fromFile, err |-> "yaml"]
          [] file.state = "required" -> [cfg |-> fromFile, err |-> "required"]
          [] file.state = "ok" -> finalizeConfig(restoreLimit(fromFile), env)
=============================================================================
