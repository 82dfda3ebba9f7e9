------------------------------ MODULE Deployment ------------------------------
(***************************************************************************)
(* `cantus serve` from the command line to the answer of a request: the    *)
(* registry and the channels are imported, Settings() reads the            *)
(* environment, the arguments override it, serve() builds the routes with  *)
(* their gates, and require_auth() guards them at each request.            *)
(*                                                                         *)
(* Three moments read the configuration: the check at the build, the       *)
(* dependencies attached to the routes, and the gate when a request comes. *)
(* The registry lives on after the build: a route keeps the skill it was   *)
(* built with, the listings show the registry of the moment.               *)
(*                                                                         *)
(* A token is blank (or not set), padded with spaces, or proper.           *)
(***************************************************************************)
EXTENDS Integers, FiniteSetsExt

CONSTANTS
  Skill,            \* names of skills
  Reserved,         \* those of them that serve() refuses
  Tokens,           \* the pairs of a bearer token and an API key to configure
  MaxRegistrations  \* bound: how many registrations there are

Unset == "unset"
Mode == {"none", "bearer", "api-key"}
Flag == {"on", "off"}
Token == {"blank", "padded", "proper"}

ASSUME DeploymentAssumption ==
  /\ Reserved \subseteq Skill
  /\ Tokens \subseteq Token \X Token
  /\ MaxRegistrations \in Nat

Settings == [auth_mode : Mode, bearer_token : Token, api_key : Token, dashboard : Flag,
             dashboard_requires_auth : Flag, introspection : Flag,
             introspection_requires_auth : Flag]

(* What the variables CANTUS_SERVE_* may hold.                             *)
Environment == [auth_mode : Mode \cup {Unset, "garbled"}, tokens : Tokens,
                dashboard : {Unset, "off"}, dashboard_requires_auth : {Unset, "off"},
                introspection : {Unset, "off"},
                introspection_requires_auth : {Unset, "off"}]

(* What argparse lets through: --dashboard and --no-dashboard exclude each *)
(* other, and nothing the user did not give has a value.                   *)
Arguments == [auth_mode : Mode \cup {Unset}, dashboard : Flag \cup {Unset},
              channels : {Unset, "given"}]

VARIABLES
  env, args,   \* the environment and the command line
  stage,       \* what main() does next, "serving", or "exited"
  exit_code,   \* "none" while it runs; a traceback is what Python exits with
  settings,    \* the Settings, once they are resolved
  registry,    \* name -> how often it was registered, 0 if never
  routes,      \* path -> whether require_auth guards it, and the skill it runs
  warnings,    \* the surfaces the operator was warned are open
  answer       \* the request being answered, one at a time: none changes another

config == <<env, args, settings>>
vars == <<config, stage, exit_code, registry, routes, warnings, answer>>

(* Of each surface, the paths that are not like another of them.           *)
DashboardPaths == {"dashboard"} \X {"skills", "health"}
IntrospectionPaths == {"introspection"} \X {"skills", "permissions"}
SkillPaths == {"skill"} \X Skill
Webhook == <<"channel", "webhook">>
OpenAPI == <<"docs", "openapi">>
Path == DashboardPaths \cup IntrospectionPaths \cup SkillPaths \cup {Webhook, OpenAPI}
Listings == {<<"dashboard", "skills">>, <<"introspection", "skills">>}
Permissions == <<"introspection", "permissions">>

(* What a request carries: the token of one of the modes, or something else*)
Credential == {"other", "bearer", "api-key"}
Nothing == [path |-> OpenAPI, credential |-> "other", status |-> "none", gated |-> {},
            listed |-> [s \in Skill |-> 0]]

-----------------------------------------------------------------------------
(* _cmd_serve.                                                             *)

Exit(code) == stage' = "exited" /\ exit_code' = code

(* argparse rejects the arguments, or cantus[serve] is not installed.      *)
Rejected ==
  /\ stage = "parse"
  /\ \E code \in {"1", "2"} : Exit(code)
  /\ UNCHANGED <<config, registry, routes, warnings, answer>>

(* The decorators of the imported module register its skills. Whatever the *)
(* module raises but an ImportError is not caught.                         *)
ResolveRegistryImport ==
  /\ stage = "parse"
  /\ \/ /\ \E names \in SUBSET Skill :
             registry' = [s \in Skill |-> IF s \in names THEN 1 ELSE 0]
        /\ stage' = "channels" /\ UNCHANGED exit_code
     \/ (\E code \in {"1", "traceback"} : Exit(code)) /\ UNCHANGED registry
  /\ UNCHANGED <<config, routes, warnings, answer>>

ResolveChannelsImport ==
  /\ stage = "channels"
  /\ \/ stage' = "settings" /\ UNCHANGED exit_code
     \/ args.channels # Unset /\ \E code \in {"1", "traceback"} : Exit(code)
  /\ UNCHANGED <<config, registry, routes, warnings, answer>>

(* Settings(): the environment over the defaults. A mode it does not know  *)
(* raises, and the argument that would have replaced it is not looked at.  *)
OrDefault(value, default) == IF value = Unset THEN default ELSE value

(* Mutant: a flag that is not in the environment stays unset.              *)
NoDefaults ==
  [auth_mode |-> OrDefault(env.auth_mode, "none"),
   bearer_token |-> env.tokens[1], api_key |-> env.tokens[2],
   dashboard |-> env.dashboard, dashboard_requires_auth |-> env.dashboard_requires_auth,
   introspection |-> env.introspection,
   introspection_requires_auth |-> env.introspection_requires_auth]

FromEnvironment ==
  [auth_mode |-> OrDefault(env.auth_mode, "none"),
   bearer_token |-> env.tokens[1], api_key |-> env.tokens[2],
   dashboard |-> OrDefault(env.dashboard, "on"),
   dashboard_requires_auth |-> OrDefault(env.dashboard_requires_auth, "on"),
   introspection |-> OrDefault(env.introspection, "on"),
   introspection_requires_auth |-> OrDefault(env.introspection_requires_auth, "on")]

(* Mutant: the environment wins over the command line.                     *)
EnvironmentFirst(read) ==
  [read EXCEPT !.auth_mode = IF env.auth_mode = Unset THEN OrDefault(args.auth_mode, @) ELSE @,
               !.dashboard = OrDefault(args.dashboard, @)]

ApplyOverrides(read) ==
  [read EXCEPT !.auth_mode = OrDefault(args.auth_mode, @),
               !.dashboard = OrDefault(args.dashboard, @)]

ResolveSettings ==
  /\ stage = "settings"
  /\ IF env.auth_mode = "garbled"
     THEN Exit("traceback") /\ UNCHANGED settings
     ELSE /\ settings' = ApplyOverrides(FromEnvironment)
          /\ stage' = "build" /\ UNCHANGED exit_code
  /\ UNCHANGED <<env, args, registry, routes, warnings, answer>>

-----------------------------------------------------------------------------
(* serve().                                                                *)

ValidateAuthConfig ==
  /\ settings.auth_mode = "bearer" => settings.bearer_token # "blank"
  /\ settings.auth_mode = "api-key" => settings.api_key # "blank"

SkillNames == {s \in Skill : registry[s] > 0}

ApplyAuth == settings.auth_mode # "none"

Enabled(surface) ==
  CASE surface = "dashboard" -> settings.dashboard = "on"
    [] surface = "introspection" -> settings.introspection = "on"
    [] surface = "channel" -> args.channels # Unset
    [] OTHER -> TRUE

(* Mutant: the introspection routes take the flag of the dashboard.        *)
SharedFlag(surface) ==
  CASE surface = "skill" -> ApplyAuth
    [] surface \in {"dashboard", "introspection"} ->
         ApplyAuth /\ settings.dashboard_requires_auth = "on"
    [] OTHER -> FALSE

(* Whether Depends(require_auth) is among the dependencies of its routes.  *)
Gated(surface) ==
  CASE surface = "skill" -> ApplyAuth
    [] surface = "dashboard" -> ApplyAuth /\ settings.dashboard_requires_auth = "on"
    [] surface = "introspection" ->
         ApplyAuth /\ settings.introspection_requires_auth = "on"
    [] OTHER -> FALSE

BuiltPaths == {p \in Path : Enabled(p[1]) /\ (p[1] = "skill" => p[2] \in SkillNames)}

BuiltRoutes ==
  [p \in BuiltPaths |-> [gated |-> Gated(p[1]),
                         instance |-> IF p[1] = "skill" THEN registry[p[2]] ELSE 0]]

(* serve() warns of an open introspection, the command of an open dashboard*)
Warnings ==
  (IF Enabled("introspection") /\ ~ApplyAuth THEN {"introspection"} ELSE {}) \cup
  (IF settings.auth_mode = "none" /\ settings.dashboard = "on" THEN {"dashboard"} ELSE {})

(* A refused configuration is a ValueError, which the command catches.     *)
Serve ==
  /\ stage = "build"
  /\ IF ValidateAuthConfig /\ SkillNames \cap Reserved = {}
     THEN /\ routes' = BuiltRoutes /\ warnings' = Warnings
          /\ stage' = "serving" /\ UNCHANGED exit_code
     ELSE Exit("1") /\ UNCHANGED <<routes, warnings>>
  /\ UNCHANGED <<config, registry, answer>>

-----------------------------------------------------------------------------
(* While the server runs.                                                  *)

Registrations == MapThenSumSet(LAMBDA s : registry[s], Skill)

(* Any code of the host may register a skill, or one of the same name.     *)
Register(s) ==
  /\ stage \notin {"parse", "exited"} /\ answer = Nothing
  /\ Registrations < MaxRegistrations
  /\ registry' = [registry EXCEPT ![s] = @ + 1]
  /\ UNCHANGED <<config, stage, exit_code, routes, warnings, answer>>

(* Mutant: the bearer token is compared with the whole header.             *)
SchemeKept(credential) ==
  CASE settings.auth_mode = "none" -> TRUE
    [] settings.auth_mode = "bearer" -> FALSE
    [] settings.auth_mode = "api-key" ->
         credential = "api-key" /\ settings.api_key # "padded"

(* The server drops the spaces around the header; the token keeps its own. *)
RequireAuth(credential) ==
  CASE settings.auth_mode = "none" -> TRUE
    [] settings.auth_mode = "bearer" ->
         credential = "bearer" /\ settings.bearer_token # "padded"
    [] settings.auth_mode = "api-key" ->
         credential = "api-key" /\ settings.api_key # "padded"

(* Mutant: only what the settings say of the skills is reported.           *)
ReportedBySettings == IF ApplyAuth THEN DOMAIN routes \cap SkillPaths ELSE {}

GatedRoutes == {p \in DOMAIN routes : routes[p].gated}

StatusOf(path, credential) ==
  IF path \notin DOMAIN routes THEN "404"
  ELSE IF routes[path].gated /\ ~RequireAuth(credential) THEN "401" ELSE "200"

(* Mutant: the listings show the routes' skills only while they are new.   *)
ListOnce == [s \in Skill |-> IF registry[s] = 1 THEN 1 ELSE 0]

CollectSkills == registry

(* A skill's endpoint runs the instance it was built with, the permissions *)
(* are those of the routes, the listings those of the registry.            *)
Request(path, credential) ==
  /\ stage = "serving" /\ answer = Nothing
  /\ LET status == StatusOf(path, credential)
     IN answer' =
          [path |-> path, credential |-> credential, status |-> status,
           gated |-> IF status = "200" /\ path = Permissions THEN GatedRoutes ELSE {},
           listed |-> IF status = "200" /\ path \in Listings THEN CollectSkills
                      ELSE [s \in Skill |-> 0]]
  /\ UNCHANGED <<config, stage, exit_code, registry, routes, warnings>>

Answered ==
  /\ answer # Nothing /\ answer' = Nothing
  /\ UNCHANGED <<config, stage, exit_code, registry, routes, warnings>>

Shutdown ==
  /\ stage = "serving" /\ answer = Nothing /\ Exit("0")
  /\ UNCHANGED <<config, registry, routes, warnings, answer>>

-----------------------------------------------------------------------------
Init ==
  /\ env \in Environment /\ args \in Arguments
  /\ stage = "parse" /\ exit_code = "none"
  /\ settings = [auth_mode |-> "none", bearer_token |-> "blank", api_key |-> "blank",
                 dashboard |-> "on", dashboard_requires_auth |-> "on",
                 introspection |-> "on", introspection_requires_auth |-> "on"]
  /\ registry = [s \in Skill |-> 0] /\ routes = [p \in {} |-> Nothing]
  /\ warnings = {} /\ answer = Nothing

Next ==
  \/ Rejected \/ ResolveRegistryImport \/ ResolveChannelsImport \/ ResolveSettings
  \/ Serve \/ Answered \/ Shutdown
  \/ \E s \in Skill : Register(s)
  \/ \E path \in Path, credential \in Credential : Request(path, credential)

Spec == Init /\ [][Next]_vars

-----------------------------------------------------------------------------
TypeOK ==
  /\ env \in Environment /\ args \in Arguments /\ settings \in Settings
  /\ stage \in {"parse", "channels", "settings", "build", "serving", "exited"}
  /\ exit_code \in {"none", "0", "1", "2", "traceback"}
  /\ (stage = "exited") = (exit_code # "none")
  /\ registry \in [Skill -> Nat]
  /\ DOMAIN routes \subseteq Path
  /\ \A p \in DOMAIN routes : routes[p] \in [gated : BOOLEAN, instance : Nat]
  /\ warnings \subseteq {"dashboard", "introspection"}
  /\ answer \in [path : Path, credential : Credential, status : {"none", "200", "401", "404"},
                 gated : SUBSET Path, listed : [Skill -> Nat]]

(* What the operator asked for: the command line before the environment,   *)
(* the environment before the default, and for the surfaces whose flag     *)
(* says so no credentials at all.                                          *)
AskedMode == IF args.auth_mode # Unset THEN args.auth_mode
             ELSE IF env.auth_mode # Unset THEN env.auth_mode ELSE "none"

AskedOpen(path) ==
  \/ path = OpenAPI \/ path = Webhook
  \/ path[1] = "dashboard" /\ env.dashboard_requires_auth = "off"
  \/ path[1] = "introspection" /\ env.introspection_requires_auth = "off"

(* The token of the mode asked for has spaces around it.                   *)
Padded == "padded" = IF AskedMode = "bearer" THEN env.tokens[1] ELSE env.tokens[2]

(* Credentials are asked for exactly as the operator asked: whoever is     *)
(* answered on a path that is not to be open presented the token of the    *)
(* mode asked for, and nobody is refused on an open path, without a mode,  *)
(* or with that token, unless the token itself has spaces around it.       *)
AuthIsAsAsked ==
  /\ answer.status = "200" /\ AskedMode # "none" /\ ~AskedOpen(answer.path) =>
       answer.credential = AskedMode
  /\ answer.status = "401" =>
       /\ AskedMode # "none" /\ ~AskedOpen(answer.path)
       /\ answer.credential = AskedMode => Padded

(* The operator and the reader of the permissions are told the truth: a    *)
(* surface that answers everyone although its flag asks for credentials    *)
(* was warned of, nothing is warned of that asks for them, and the routes  *)
(* reported as gated are those that refuse a request without credentials.  *)
OpennessIsReported ==
  /\ answer.path[1] \in {"dashboard", "introspection"} =>
       /\ answer.status = "200" /\ answer.credential = "other"
            /\ ~AskedOpen(answer.path) => answer.path[1] \in warnings
       /\ answer.status = "401" => answer.path[1] \notin warnings
  /\ answer.path = Permissions /\ answer.status = "200" =>
       answer.gated = {p \in Path : StatusOf(p, "other") = "401"}

(* The listings read the registry of the moment, the endpoints were built  *)
(* from the one of the build: whatever is served stays listed, at the      *)
(* version that is served or at a newer one.                               *)
ListingsMatchRoutes ==
  answer.path \in Listings /\ answer.status = "200" =>
    \A s \in Skill : LET path == <<"skill", s>>
                    IN  path \in DOMAIN routes =>
                          answer.listed[s] >= routes[path].instance
=============================================================================
