-------------------------- MODULE DeploymentProofs --------------------------
(***************************************************************************)
(* Proofs about the deployment, for any skills, tokens and bounds. What an *)
(* answer says was decided at three earlier moments, so that no property   *)
(* of it is inductive: the invariant carries what the settings, the routes *)
(* and the warnings were made of for as long as the server runs.           *)
(*                                                                         *)
(* The adapters and the workflows are functions of their inputs: what is   *)
(* said of them is proved by induction on the layers of a chain, and on    *)
(* the rounds of a loop, for chains and workflows of any length.           *)
(***************************************************************************)
EXTENDS MCDeployment, FiniteSetTheorems, TLAPS

(* Once they are resolved the settings are those the operator asked for.   *)
Resolved ==
  stage \in {"build", "serving"} =>
    settings = ApplyOverrides(FromEnvironment) /\ env.auth_mode # "garbled"

(* The routes are gated as the settings say, and their skills registered.  *)
Built ==
  stage = "serving" =>
    /\ \A p \in DOMAIN routes : routes[p].gated = Gated(p[1]) /\ Enabled(p[1])
    /\ \A s \in Skill : <<"skill", s>> \in DOMAIN routes =>
                          registry[s] >= routes[<<"skill", s>>].instance
    /\ warnings = Warnings

(* What is being answered is what the routes and the registry give.        *)
Answering ==
  answer # Nothing =>
    /\ stage = "serving"
    /\ answer.status = StatusOf(answer.path, answer.credential)
    /\ answer.status = "200" /\ answer.path = Permissions => answer.gated = GatedRoutes
    /\ answer.status = "200" /\ answer.path \in Listings => answer.listed = registry

IInv == TypeOK /\ Resolved /\ Built /\ Answering

USE DeploymentAssumption

(* What the settings are read from has their types.                        *)
LEMMA SettingsTyped ==
  ASSUME env \in Environment, args \in Arguments, env.auth_mode # "garbled"
  PROVE  ApplyOverrides(FromEnvironment) \in Settings
<1>1. /\ env.tokens \in Tokens /\ env.tokens \in Token \X Token
      /\ env.tokens[1] \in Token /\ env.tokens[2] \in Token
  BY DEF Environment
<1>2. FromEnvironment \in Settings
  BY <1>1 DEF FromEnvironment, Environment, OrDefault, Unset, Settings, Mode, Flag
<1> QED BY <1>2 DEF ApplyOverrides, OrDefault, Arguments, Settings, Mode, Flag, Unset

(* The paths are pairs of texts and skills.                                *)
LEMMA NothingTyped ==
  /\ OpenAPI \in Path /\ OpenAPI \notin Listings /\ OpenAPI # Permissions
  /\ Nothing.path = OpenAPI /\ Nothing.status = "none" /\ Nothing.gated = {}
  /\ Nothing \in [path : Path, credential : Credential,
                  status : {"none", "200", "401", "404"},
                  gated : SUBSET Path, listed : [Skill -> Nat]]
BY DEF Nothing, OpenAPI, Path, Listings, Permissions, Credential

LEMMA InitInv == Init => IInv
<1> SUFFICES ASSUME Init PROVE IInv
  OBVIOUS
<1>1. TypeOK
  BY NothingTyped DEF Init, TypeOK, Settings, Mode, Flag, Token
<1> QED BY <1>1 DEF Init, IInv, Resolved, Built, Answering

(* Whether a path is gated is a Boolean, and the routes are built of paths.*)
LEMMA BuiltTyped ==
  ASSUME TypeOK
  PROVE  /\ DOMAIN BuiltRoutes \subseteq Path
         /\ \A p \in DOMAIN BuiltRoutes :
              /\ BuiltRoutes[p] \in [gated : BOOLEAN, instance : Nat]
              /\ BuiltRoutes[p].gated = Gated(p[1]) /\ Enabled(p[1])
         /\ \A s \in Skill : <<"skill", s>> \in DOMAIN BuiltRoutes =>
              registry[s] = BuiltRoutes[<<"skill", s>>].instance
<1>1. DOMAIN BuiltRoutes = BuiltPaths /\ BuiltPaths \subseteq Path
  BY DEF BuiltRoutes, BuiltPaths
<1>2. ASSUME NEW p \in BuiltPaths
      PROVE  /\ BuiltRoutes[p] \in [gated : BOOLEAN, instance : Nat]
             /\ BuiltRoutes[p].gated = Gated(p[1]) /\ Enabled(p[1])
  <2>1. Gated(p[1]) \in BOOLEAN
    BY DEF Gated, ApplyAuth
  <2>2. ASSUME p[1] = "skill" PROVE registry[p[2]] \in Nat
    BY <2>2 DEF BuiltPaths, SkillNames, TypeOK
  <2> QED BY <2>1, <2>2 DEF BuiltRoutes, BuiltPaths
<1>3. ASSUME NEW s \in Skill, <<"skill", s>> \in BuiltPaths
      PROVE  registry[s] = BuiltRoutes[<<"skill", s>>].instance
  BY <1>3 DEF BuiltRoutes
<1> QED BY <1>1, <1>2, <1>3
(* Each step keeps the types, given what the settings were read from.      *)
LEMMA TypesKept == TypeOK /\ Resolved /\ [Next]_vars => TypeOK'
<1> SUFFICES ASSUME TypeOK, Resolved, [Next]_vars PROVE TypeOK'
  OBVIOUS
<1>1. CASE Rejected
  BY <1>1 DEF Rejected, Exit, config, TypeOK
<1>2. CASE ResolveRegistryImport
  BY <1>2 DEF ResolveRegistryImport, Exit, config, TypeOK
<1>3. CASE ResolveChannelsImport
  BY <1>3 DEF ResolveChannelsImport, Exit, config, TypeOK
<1>4. CASE ResolveSettings
  <2>1. CASE env.auth_mode = "garbled"
    BY <1>4, <2>1 DEF ResolveSettings, Exit, TypeOK
  <2>2. CASE env.auth_mode # "garbled"
    <3>1. ApplyOverrides(FromEnvironment) \in Settings
      BY <2>2, SettingsTyped DEF TypeOK
    <3> QED BY <1>4, <2>2, <3>1 DEF ResolveSettings, TypeOK
  <2> QED BY <2>1, <2>2
<1>5. CASE Serve
  <2>1. Warnings \subseteq {"dashboard", "introspection"}
    BY DEF Warnings
  <2> QED BY <1>5, <2>1, BuiltTyped DEF Serve, Exit, config, TypeOK
<1>6. CASE Answered
  BY <1>6, NothingTyped DEF Answered, config, TypeOK
<1>7. CASE Shutdown
  BY <1>7 DEF Shutdown, Exit, config, TypeOK
<1>8. ASSUME NEW s \in Skill, Register(s) PROVE TypeOK'
  BY <1>8 DEF Register, config, TypeOK
<1>9. ASSUME NEW path \in Path, NEW credential \in Credential, Request(path, credential)
      PROVE  TypeOK'
  <2>1. StatusOf(path, credential) \in {"none", "200", "401", "404"}
    BY DEF StatusOf
  <2>2. GatedRoutes \subseteq Path /\ CollectSkills \in [Skill -> Nat]
    BY DEF GatedRoutes, CollectSkills, TypeOK
  <2>3. answer' \in [path : Path, credential : Credential,
                     status : {"none", "200", "401", "404"},
                     gated : SUBSET Path, listed : [Skill -> Nat]]
    BY <1>9, <2>1, <2>2 DEF Request
  <2> QED BY <1>9, <2>3 DEF Request, config, TypeOK
<1>10. CASE UNCHANGED vars
  BY <1>10 DEF vars, config, TypeOK
<1> QED BY <1>1, <1>2, <1>3, <1>4, <1>5, <1>6, <1>7, <1>8, <1>9, <1>10 DEF Next

(* The steps but three leave what was decided alone.                       *)
LEMMA Quiet ==
  ASSUME [Next]_vars, ~ResolveSettings, ~Serve
  PROVE  /\ UNCHANGED config /\ UNCHANGED <<routes, warnings>>
         /\ stage' \in {"build", "serving"} => stage' = stage
<1>1. CASE Rejected \/ ResolveRegistryImport \/ ResolveChannelsImport
  BY <1>1 DEF Rejected, ResolveRegistryImport, ResolveChannelsImport, Exit, config
<1>2. CASE Answered \/ Shutdown
  BY <1>2 DEF Answered, Shutdown, Exit, config
<1>3. ASSUME NEW s \in Skill, Register(s)
      PROVE  UNCHANGED <<config, routes, warnings, stage>>
  BY <1>3 DEF Register, config
<1>4. ASSUME NEW path \in Path, NEW credential \in Credential, Request(path, credential)
      PROVE  UNCHANGED <<config, routes, warnings, stage>>
  BY <1>4 DEF Request, config
<1>5. CASE UNCHANGED vars
  BY <1>5 DEF vars, config
<1> QED BY <1>1, <1>2, <1>3, <1>4, <1>5 DEF Next

(* The settings are resolved once, and nothing they came from changes.     *)
LEMMA ResolvedKept == Resolved /\ [Next]_vars => Resolved'
<1> SUFFICES ASSUME Resolved, [Next]_vars PROVE Resolved'
  OBVIOUS
<1>1. ASSUME UNCHANGED <<env, args>>
      PROVE  ApplyOverrides(FromEnvironment)' = ApplyOverrides(FromEnvironment)
  BY <1>1 DEF ApplyOverrides, FromEnvironment
<1>2. CASE ResolveSettings
  BY <1>1, <1>2 DEF ResolveSettings, Exit, Resolved
<1>3. CASE Serve
  BY <1>1, <1>3 DEF Serve, Exit, config, Resolved
<1>4. CASE ~ResolveSettings /\ ~Serve
  BY <1>1, <1>4, Quiet DEF config, Resolved
<1> QED BY <1>2, <1>3, <1>4

(* What the build decided depends on the settings and the arguments only.  *)
LEMMA DecidedOnce ==
  ASSUME UNCHANGED config
  PROVE  /\ \A surface : Gated(surface)' = Gated(surface)
         /\ \A surface : Enabled(surface)' = Enabled(surface)
         /\ \A credential : RequireAuth(credential)' = RequireAuth(credential)
         /\ Warnings' = Warnings
<1>1. settings' = settings /\ args' = args
  BY DEF config
<1> QED BY <1>1 DEF Gated, Enabled, RequireAuth, Warnings, ApplyAuth

(* The routes are as the build left them, while the registry grows.        *)
LEMMA BuiltKept == TypeOK /\ Resolved /\ Built /\ [Next]_vars => Built'
<1> SUFFICES ASSUME TypeOK, Resolved, Built, [Next]_vars PROVE Built'
  OBVIOUS
<1>1. CASE ResolveSettings
  BY <1>1 DEF ResolveSettings, Exit, Built
<1>2. CASE Serve
  <2>1. CASE stage' = "serving"
    <3>1. /\ UNCHANGED config /\ registry' = registry
          /\ routes' = BuiltRoutes /\ warnings' = Warnings
      BY <1>2, <2>1 DEF Serve, Exit
    <3>2. \A s \in Skill : registry[s] \in Nat
      BY DEF TypeOK
    <3> QED BY <2>1, <3>1, <3>2, BuiltTyped, DecidedOnce DEF Built
  <2> QED BY <2>1 DEF Built
<1>3. CASE ~ResolveSettings /\ ~Serve
  <2> SUFFICES ASSUME stage' = "serving" PROVE Built'
    BY DEF Built
  <2>1. /\ UNCHANGED config /\ routes' = routes /\ warnings' = warnings
        /\ stage = "serving"
    BY <1>3, Quiet
  <2>2. ASSUME NEW s \in Skill PROVE registry'[s] >= registry[s] /\ registry'[s] \in Nat
    <3>1. CASE registry' = registry
      BY <3>1 DEF TypeOK
    <3>2. ASSUME NEW t \in Skill, Register(t) PROVE registry'[s] >= registry[s]
      BY <3>2 DEF Register, TypeOK
    <3>3. registry' = registry \/ \E t \in Skill : Register(t)
      BY <1>3, <2>1 DEF Next, Rejected, ResolveRegistryImport, ResolveChannelsImport,
           Answered, Shutdown, Request, vars
    <3>4. TypeOK'
      BY TypesKept
    <3> QED BY <3>1, <3>2, <3>3, <3>4 DEF TypeOK
  <2>3. ASSUME NEW s \in Skill, <<"skill", s>> \in DOMAIN routes
        PROVE  registry'[s] >= routes[<<"skill", s>>].instance
    <3>1. routes[<<"skill", s>>].instance \in Nat /\ registry[s] \in Nat
      BY <2>3 DEF TypeOK
    <3> QED BY <2>1, <2>2, <2>3, <3>1 DEF Built
  <2> QED BY <2>1, <2>3, DecidedOnce DEF Built
<1> QED BY <1>1, <1>2, <1>3

(* While a request is answered nothing it depends on changes.              *)
LEMMA AnsweringKept == TypeOK /\ Answering /\ [Next]_vars => Answering'
<1> SUFFICES ASSUME TypeOK, Answering, [Next]_vars, answer' # Nothing PROVE Answering'
  BY DEF Answering
<1>1. ASSUME UNCHANGED <<config, routes>>
      PROVE  /\ \A path, credential : StatusOf(path, credential)' = StatusOf(path, credential)
             /\ GatedRoutes' = GatedRoutes
  BY <1>1, DecidedOnce DEF StatusOf, GatedRoutes
<1>2. ASSUME NEW path \in Path, NEW credential \in Credential, Request(path, credential)
      PROVE  Answering'
  <2>1. /\ stage' = "serving" /\ UNCHANGED <<config, routes>> /\ registry' = registry
        /\ answer'.path = path /\ answer'.credential = credential
        /\ answer'.status = StatusOf(path, credential)
        /\ answer'.status = "200" /\ path = Permissions => answer'.gated = GatedRoutes
        /\ answer'.status = "200" /\ path \in Listings => answer'.listed = registry
    BY <1>2 DEF Request, CollectSkills
  <2> QED BY <1>1, <2>1 DEF Answering
<1>3. CASE UNCHANGED vars
  BY <1>1, <1>3 DEF vars, Answering
<1>4. CASE Next /\ ~\E path \in Path, credential \in Credential : Request(path, credential)
  <2>1. answer' = answer
    BY <1>4 DEF Next, Rejected, ResolveRegistryImport, ResolveChannelsImport,
         ResolveSettings, Serve, Answered, Shutdown, Register
  <2>2. stage = "serving"
    BY <2>1 DEF Answering
  <2> QED
    BY <1>4, <2>1, <2>2 DEF Next, Rejected, ResolveRegistryImport, ResolveChannelsImport,
         ResolveSettings, Serve, Answered, Shutdown, Register
<1> QED BY <1>2, <1>3, <1>4

(* The invariant holds in every state.                                     *)
LEMMA Invariant == Spec => []IInv
<1>1. IInv /\ [Next]_vars => IInv'
  BY TypesKept, ResolvedKept, BuiltKept, AnsweringKept DEF IInv
<1> QED BY InitInv, <1>1, PTL DEF Spec

(* Every variable keeps its type, whatever is configured, registered and   *)
(* asked for.                                                              *)
THEOREM TypesHold == Spec => []TypeOK
BY Invariant, PTL DEF IInv

(* While the server answers, its settings say what the operator asked for. *)
LEMMA SettingsAsAsked ==
  ASSUME IInv, answer # Nothing
  PROVE  /\ settings.auth_mode = AskedMode /\ AskedMode \in Mode
         /\ settings.dashboard_requires_auth = "off" <=> env.dashboard_requires_auth = "off"
         /\ settings.introspection_requires_auth = "off"
              <=> env.introspection_requires_auth = "off"
         /\ settings.bearer_token = env.tokens[1] /\ settings.api_key = env.tokens[2]
<1>1. /\ settings = ApplyOverrides(FromEnvironment) /\ env.auth_mode # "garbled"
      /\ env \in Environment /\ args \in Arguments /\ settings \in Settings
  BY DEF IInv, Answering, Resolved, TypeOK
<1>2. ApplyOverrides(FromEnvironment).auth_mode =
        OrDefault(args.auth_mode, OrDefault(env.auth_mode, "none"))
  BY DEF ApplyOverrides, FromEnvironment
<1>3. settings.auth_mode = AskedMode
  BY <1>1, <1>2 DEF AskedMode, OrDefault
<1>4. settings.auth_mode \in Mode
  BY <1>1 DEF Settings
<1>5. /\ settings.dashboard_requires_auth = OrDefault(env.dashboard_requires_auth, "on")
      /\ settings.introspection_requires_auth =
           OrDefault(env.introspection_requires_auth, "on")
      /\ settings.bearer_token = env.tokens[1] /\ settings.api_key = env.tokens[2]
  BY <1>1 DEF ApplyOverrides, FromEnvironment
<1>6. /\ settings.dashboard_requires_auth = "off" <=> env.dashboard_requires_auth = "off"
      /\ settings.introspection_requires_auth = "off"
           <=> env.introspection_requires_auth = "off"
  <2>1. /\ env.dashboard_requires_auth \in {Unset, "off"}
        /\ env.introspection_requires_auth \in {Unset, "off"}
    BY <1>1 DEF Environment
  <2> QED BY <1>5, <2>1 DEF OrDefault, Unset
<1> QED BY <1>3, <1>4, <1>5, <1>6

(* A route is gated exactly when a mode is set and its path is not open.   *)
LEMMA GatedAsAsked ==
  ASSUME IInv, answer # Nothing, NEW p \in DOMAIN routes
  PROVE  routes[p].gated = (AskedMode # "none" /\ ~AskedOpen(p))
<1>1. p \in Path /\ routes[p].gated = Gated(p[1])
  BY DEF IInv, Answering, Built, TypeOK
<1>2. settings \in Settings
  BY DEF IInv, TypeOK
<1>3. /\ settings.dashboard_requires_auth \in Flag
      /\ settings.introspection_requires_auth \in Flag
  BY <1>2 DEF Settings
<1>4. CASE p \in DashboardPaths
  <2>1. p[1] = "dashboard" /\ p # OpenAPI /\ p # Webhook
    BY <1>4 DEF DashboardPaths, OpenAPI, Webhook
  <2>2. AskedOpen(p) <=> env.dashboard_requires_auth = "off"
    BY <2>1 DEF AskedOpen
  <2>3. Gated(p[1]) = (ApplyAuth /\ settings.dashboard_requires_auth = "on")
    BY <2>1 DEF Gated
  <2> QED BY <1>1, <1>3, <2>2, <2>3, SettingsAsAsked DEF ApplyAuth, Flag
<1>5. CASE p \in IntrospectionPaths
  <2>1. p[1] = "introspection" /\ p # OpenAPI /\ p # Webhook
    BY <1>5 DEF IntrospectionPaths, OpenAPI, Webhook
  <2>2. AskedOpen(p) <=> env.introspection_requires_auth = "off"
    BY <2>1 DEF AskedOpen
  <2>3. Gated(p[1]) = (ApplyAuth /\ settings.introspection_requires_auth = "on")
    BY <2>1 DEF Gated
  <2> QED BY <1>1, <1>3, <2>2, <2>3, SettingsAsAsked DEF ApplyAuth, Flag
<1>6. CASE p \in SkillPaths
  <2>1. p[1] = "skill" /\ p # OpenAPI /\ p # Webhook
    BY <1>6 DEF SkillPaths, OpenAPI, Webhook
  <2>2. ~AskedOpen(p)
    BY <2>1 DEF AskedOpen
  <2>3. Gated(p[1]) = ApplyAuth
    BY <2>1 DEF Gated
  <2> QED BY <1>1, <2>2, <2>3, SettingsAsAsked DEF ApplyAuth
<1>7. CASE p = OpenAPI \/ p = Webhook
  <2>1. p[1] \in {"docs", "channel"}
    BY <1>7 DEF OpenAPI, Webhook
  <2>2. Gated(p[1]) = FALSE
    BY <2>1 DEF Gated
  <2>3. AskedOpen(p)
    BY <1>7 DEF AskedOpen
  <2> QED BY <1>1, <2>2, <2>3
<1> QED BY <1>1, <1>4, <1>5, <1>6, <1>7 DEF Path

(* Credentials are asked for exactly where and as the operator asked, for  *)
(* every environment and command line: security.py, cli.py and app.py.     *)
THEOREM AuthAsAsked == Spec => []AuthIsAsAsked
<1>1. IInv => AuthIsAsAsked
  <2> SUFFICES ASSUME IInv, answer.status \in {"200", "401"} PROVE AuthIsAsAsked
    BY DEF AuthIsAsAsked
  <2>1. answer # Nothing
    BY NothingTyped
  <2>2. /\ answer.status = StatusOf(answer.path, answer.credential)
        /\ answer.credential \in Credential
    BY <2>1 DEF IInv, Answering, TypeOK
  <2>3. answer.path \in DOMAIN routes
    BY <2>2 DEF StatusOf
  <2>4. routes[answer.path].gated = (AskedMode # "none" /\ ~AskedOpen(answer.path))
    BY <2>1, <2>3, GatedAsAsked
  <2>5. /\ settings.auth_mode = AskedMode /\ AskedMode \in Mode
        /\ settings.bearer_token = env.tokens[1] /\ settings.api_key = env.tokens[2]
    BY <2>1, SettingsAsAsked
  <2>6. CASE answer.status = "200"
    <3>1. ~routes[answer.path].gated \/ RequireAuth(answer.credential)
      BY <2>2, <2>3, <2>6 DEF StatusOf
    <3>2. AskedMode # "none" /\ RequireAuth(answer.credential)
            => answer.credential = AskedMode
      BY <2>5 DEF RequireAuth, Mode
    <3> QED BY <2>4, <2>6, <3>1, <3>2 DEF AuthIsAsAsked
  <2>7. CASE answer.status = "401"
    <3>1. routes[answer.path].gated /\ ~RequireAuth(answer.credential)
      BY <2>2, <2>3, <2>7 DEF StatusOf
    <3>2. answer.credential = AskedMode /\ ~RequireAuth(answer.credential) => Padded
      BY <2>5 DEF RequireAuth, Mode, Padded
    <3> QED BY <2>4, <2>7, <3>1, <3>2 DEF AuthIsAsAsked
  <2> QED BY <2>6, <2>7
<1> QED BY Invariant, <1>1, PTL

(* The operator is warned of what is open and the reader of the            *)
(* permissions told what is gated, as the answers bear out.                *)
THEOREM OpennessReported == Spec => []OpennessIsReported
<1>1. IInv => OpennessIsReported
  <2> SUFFICES ASSUME IInv, answer.status \in {"200", "401"} PROVE OpennessIsReported
    BY DEF OpennessIsReported
  <2>1. answer # Nothing /\ stage = "serving"
    BY NothingTyped DEF IInv, Answering
  <2>2. /\ answer.status = StatusOf(answer.path, answer.credential)
        /\ answer.credential \in Credential
        /\ answer.status = "200" /\ answer.path = Permissions => answer.gated = GatedRoutes
        /\ warnings = Warnings
    BY <2>1 DEF IInv, Answering, Built, TypeOK
  <2>3. answer.path \in DOMAIN routes /\ DOMAIN routes \subseteq Path
    BY <2>2 DEF StatusOf, IInv, TypeOK
  <2>4. settings.auth_mode = AskedMode /\ AskedMode \in Mode
    BY <2>1, SettingsAsAsked
  <2>5. \A p \in DOMAIN routes :
          /\ routes[p].gated = (AskedMode # "none" /\ ~AskedOpen(p))
          /\ Enabled(p[1])
    BY <2>1, GatedAsAsked DEF IInv, Built
  <2>6. ~RequireAuth("other") <=> AskedMode # "none"
    BY <2>4 DEF RequireAuth, Mode
  <2>7. ASSUME answer.path[1] = "dashboard" PROVE settings.dashboard = "on"
    BY <2>3, <2>5, <2>7 DEF Enabled
  <2>8. ASSUME answer.path[1] \in {"dashboard", "introspection"}
        PROVE  answer.path[1] \in warnings <=> AskedMode = "none"
    BY <2>2, <2>3, <2>4, <2>5, <2>7, <2>8 DEF Warnings, ApplyAuth
  <2>9. ASSUME answer.status = "200", answer.credential = "other",
               ~AskedOpen(answer.path)
        PROVE  AskedMode = "none"
    BY <2>2, <2>3, <2>5, <2>6, <2>9 DEF StatusOf
  <2>10. ASSUME answer.status = "401" PROVE AskedMode # "none"
    BY <2>2, <2>3, <2>5, <2>10 DEF StatusOf
  <2>11. GatedRoutes = {p \in Path : StatusOf(p, "other") = "401"}
    BY <2>3, <2>5, <2>6 DEF GatedRoutes, StatusOf
  <2> QED BY <2>2, <2>8, <2>9, <2>10, <2>11 DEF OpennessIsReported
<1> QED BY Invariant, <1>1, PTL

(* What the listings show of a skill is never older than what is served.   *)
THEOREM ListingsMatch == Spec => []ListingsMatchRoutes
<1>1. IInv => ListingsMatchRoutes
  <2>1. answer.status = "200" => answer # Nothing
    BY NothingTyped
  <2> QED BY <2>1 DEF ListingsMatchRoutes, IInv, Answering, Built
<1> QED BY Invariant, <1>1, PTL

HIDE DeploymentAssumption

-----------------------------------------------------------------------------
(* The adapters, for any arguments and chains of any length. What a chain  *)
(* advertises is a loop up the layers, what becomes of a call one down.    *)

BridgeStep(signature, below, framework) == Bridged(framework, below)

Layers == INSTANCE FoldLaws WITH Step <- BridgeStep, Base <- LAMBDA signature : signature

LEMMA LayerByLayer ==
  ASSUME NEW chain, NEW signature
  PROVE  /\ AdvertisedAt(chain, signature, 0) = signature
         /\ \A k \in Nat : AdvertisedAt(chain, signature, k + 1) =
                             Bridged(chain[k + 1], AdvertisedAt(chain, signature, k))
<1>1. \A k : AdvertisedAt(chain, signature, k) = Layers!Loop(signature, chain, k)
  BY DEF AdvertisedAt, Layers!Loop, Layers!IsUpto, BridgeStep
<1>2. \A k \in Nat : Layers!Loop(signature, chain, k + 1) =
                       Bridged(chain[k + 1], Layers!Loop(signature, chain, k))
  BY Layers!LoopIs DEF BridgeStep
<1>3. Layers!Loop(signature, chain, 0) = signature
  BY Layers!LoopIs
<1> QED BY <1>1, <1>2, <1>3

LEMMA ChainTyped ==
  ASSUME NEW chain \in Chains
  PROVE  Len(chain) \in Nat /\ chain \in [1..Len(chain) -> Framework]
<1>1. PICK n \in 0..MaxLayers : chain \in [1..n -> Framework]
  BY DEF Chains
<1>2. chain \in Seq(Framework) /\ Len(chain) = n
  BY <1>1, ToolBridgeAssumption
<1> QED BY <1>1, <1>2

LEMMA MirroredTyped ==
  ASSUME NEW framework \in Framework, NEW argument \in Argument
  PROVE  /\ Mirrored(framework, argument) \in Argument
         /\ argument.required => Mirrored(framework, argument).required
         /\ argument.required /\ argument.type \in {"string", "integer"} =>
              Mirrored(framework, argument) = argument
<1>1. PICK type \in Type, required \in BOOLEAN :
        argument = [type |-> type, required |-> required]
  BY DEF Argument
<1>2. argument.type = type /\ argument.required = required
  BY <1>1
<1>3. TableType(type) \in Type /\ (type \in {"string", "integer"} => TableType(type) = type)
  BY DEF TableType, Type
<1>4. CASE framework = "mcp"
  BY <1>4 DEF Mirrored
<1>5. CASE framework = "langchain"
  <2>1. CASE required
    <3>1. Mirrored(framework, argument) = [type |-> TableType(type), required |-> required]
      BY <1>1, <1>2, <1>5, <2>1 DEF Mirrored
    <3> QED BY <1>1, <1>2, <1>3, <3>1 DEF Argument
  <2>2. CASE ~required
    <3>1. Mirrored(framework, argument) = [type |-> "any", required |-> required]
      BY <1>1, <1>2, <1>5, <2>2 DEF Mirrored
    <3> QED BY <1>1, <1>2, <2>2, <3>1 DEF Argument, Type
  <2> QED BY <2>1, <2>2
<1>6. CASE framework = "dspy"
  <2>1. Mirrored(framework, argument) = [type |-> TableType(type), required |-> required]
    BY <1>1, <1>2, <1>6 DEF Mirrored
  <2> QED BY <1>1, <1>2, <1>3, <2>1 DEF Argument
<1>7. CASE framework = "huggingface"
  <2>1. Mirrored(framework, argument) = [type |-> type, required |-> TRUE]
    BY <1>1, <1>2, <1>7 DEF Mirrored
  <2>2. Mirrored(framework, argument) \in Argument /\ Mirrored(framework, argument).required
    BY <2>1 DEF Argument
  <2>3. CASE required = TRUE
    BY <1>1, <1>2, <2>1, <2>2, <2>3
  <2>4. CASE required = FALSE
    BY <1>2, <2>2, <2>4
  <2> QED BY <2>3, <2>4
<1> QED BY <1>4, <1>5, <1>6, <1>7 DEF Framework

(* A layer describes the same arguments, requires what the one below does, *)
(* and leaves required scalars as they are.                                *)
LEMMA BridgedIs ==
  ASSUME NEW framework \in Framework, NEW names, NEW schema \in [names -> Argument]
  PROVE  /\ Bridged(framework, schema) \in [names -> Argument]
         /\ Required(schema) \subseteq Required(Bridged(framework, schema))
         /\ Scalar(schema) /\ Required(schema) = names => Bridged(framework, schema) = schema
<1> DEFINE above == Bridged(framework, schema)
<1>1. /\ DOMAIN above = names /\ above = [p \in names |-> above[p]]
      /\ \A p \in names : above[p] = Mirrored(framework, schema[p]) /\ schema[p] \in Argument
  BY DEF Bridged
<1> HIDE DEF above
<1>2. above \in [names -> Argument] /\ Required(schema) \subseteq Required(above)
  BY <1>1, MirroredTyped DEF Required
<1>3. ASSUME Scalar(schema), Required(schema) = names PROVE above = schema
  <2>1. \A p \in names : schema[p].required /\ schema[p].type \in {"string", "integer"}
    BY <1>3 DEF Required, Scalar
  <2>2. \A p \in names : above[p] = schema[p]
    BY <1>1, <2>1, MirroredTyped
  <2> QED BY <1>1, <2>2
<1> QED BY <1>2, <1>3 DEF above

LEMMA LayersAre ==
  ASSUME NEW chain \in Chains, NEW signature \in Schemas, NEW k \in 0..Len(chain)
  PROVE  LET schema == AdvertisedAt(chain, signature, k) IN
         /\ schema \in [DOMAIN signature -> Argument]
         /\ Required(signature) \subseteq Required(schema)
         /\ Scalar(signature) /\ Required(signature) = DOMAIN signature => schema = signature
<1> DEFINE A(j) == AdvertisedAt(chain, signature, j)
           Holds(j) == /\ A(j) \in [DOMAIN signature -> Argument]
                       /\ Required(signature) \subseteq Required(A(j))
                       /\ Scalar(signature) /\ Required(signature) = DOMAIN signature =>
                            A(j) = signature
           N == {j \in Nat : j <= Len(chain) => Holds(j)}
<1>1. signature \in [DOMAIN signature -> Argument]
  BY DEF Schemas
<1>2. /\ A(0) = signature
      /\ \A j \in Nat : A(j + 1) = Bridged(chain[j + 1], A(j))
  BY LayerByLayer
<1>3. Len(chain) \in Nat /\ chain \in [1..Len(chain) -> Framework]
  BY ChainTyped
<1> HIDE DEF A
<1>4. 0 \in N
  BY <1>1, <1>2
<1>5. ASSUME NEW j \in Nat, j \in N PROVE j + 1 \in N
  <2>1. ASSUME j + 1 <= Len(chain) PROVE Holds(j + 1)
    <3>1. Holds(j) /\ j + 1 \in 1..Len(chain)
      BY <1>3, <1>5, <2>1
    <3>2. chain[j + 1] \in Framework /\ A(j + 1) = Bridged(chain[j + 1], A(j))
      BY <1>2, <1>3, <3>1
    <3> QED BY <3>1, <3>2, BridgedIs
  <2> QED BY <2>1
<1> HIDE DEF N
<1>6. Nat \subseteq N
  BY <1>4, <1>5, Layers!NumberInduction
<1> QED BY <1>3, <1>6 DEF N, A

-----------------------------------------------------------------------------
(* A call on its way down. Every layer passes on what the caller gave, or  *)
(* refuses.                                                                *)

FromCaller(given, arguments) ==
  \A p \in DOMAIN arguments :
    p \in DOMAIN given /\ arguments[p] \in {given[p], Coerced("integer", given[p])}

(* A pydantic model lets through fields that were given, or refuses; what  *)
(* fits required scalars is let through, and fits.                         *)
LEMMA ByModelPasses ==
  ASSUME NEW model, NEW nullable, NEW given, NEW a \in ByModel(model, nullable, given)
  PROVE  /\ DOMAIN a = DOMAIN model \cap DOMAIN given /\ Required(model) \subseteq DOMAIN a
         /\ \A p \in DOMAIN a : a[p] \in {given[p], Coerced("integer", given[p])}
<1> DEFINE fields == DOMAIN model \cap DOMAIN given
<1>1. /\ a = [p \in fields |-> Coerced(model[p].type, given[p])]
      /\ Required(model) \subseteq fields
  BY DEF ByModel
<1>2. \A type, value : Coerced(type, value) \in {value, Coerced("integer", value)}
  BY DEF Coerced
<1> QED BY <1>1, <1>2

Fitting(schema, arguments) ==
  DOMAIN arguments = DOMAIN schema /\ \A p \in DOMAIN arguments : Accepts(schema[p].type, arguments[p])

LEMMA ByModelAdmits ==
  ASSUME NEW model, NEW nullable, NEW given, Fitting(model, given)
  PROVE  \E a \in ByModel(model, nullable, given) : Fitting(model, a)
<1> DEFINE a == [p \in DOMAIN model |-> Coerced(model[p].type, given[p])]
<1>1. Required(model) \subseteq DOMAIN model
  BY DEF Required
<1>2. /\ DOMAIN model \cap DOMAIN given = DOMAIN model
      /\ \A p \in DOMAIN model : Accepts(model[p].type, given[p])
  BY DEF Fitting
<1>3. a \in ByModel(model, nullable, given)
  BY <1>1, <1>2 DEF ByModel
<1>4. \A type, value : Accepts(type, value) => Accepts(type, Coerced(type, value))
  BY DEF Accepts, Coerced
<1>5. Fitting(model, a)
  BY <1>2, <1>4 DEF Fitting
<1> QED BY <1>3, <1>5

LEMMA PassedFromCaller ==
  ASSUME NEW framework \in Framework, NEW schema, NEW given, NEW arguments,
         FromCaller(given, arguments), NEW a \in Passed(framework, schema, arguments)
  PROVE  FromCaller(given, a)
<1>1. CASE framework = "langchain"
  <2>1. PICK model, nullable : a \in ByModel(model, nullable, arguments)
    BY <1>1 DEF Passed
  <2>2. /\ DOMAIN a \subseteq DOMAIN arguments
        /\ \A p \in DOMAIN a : a[p] \in {arguments[p], Coerced("integer", arguments[p])}
    <3>1. DOMAIN a = DOMAIN model \cap DOMAIN arguments
      BY ONLY <2>1, ByModelPasses
    <3>2. \A p \in DOMAIN a : a[p] \in {arguments[p], Coerced("integer", arguments[p])}
      BY ONLY <2>1, ByModelPasses
    <3> QED BY <3>1, <3>2
  <2>3. \A value : Coerced("integer", Coerced("integer", value)) = Coerced("integer", value)
    BY DEF Coerced
  <2> QED BY <2>2, <2>3 DEF FromCaller
<1>2. CASE framework # "langchain"
  BY <1>2 DEF Passed, Framework
<1> QED BY <1>1, <1>2

LEMMA PassedFits ==
  ASSUME NEW framework \in Framework, NEW names, NEW schema \in [names -> Argument],
         Scalar(schema), Required(schema) = names, NEW arguments, Fitting(schema, arguments)
  PROVE  \E a \in Passed(framework, schema, arguments) : Fitting(schema, a)
<1>1. CASE framework = "langchain"
  <2>1. \A p \in names : /\ schema[p] \in Argument
                         /\ [schema[p] EXCEPT !.type = TableType(@)] = schema[p]
    <3>1. ASSUME NEW argument \in Argument, argument.type \in {"string", "integer"}
          PROVE  [argument EXCEPT !.type = TableType(@)] = argument
      BY <3>1 DEF Argument, TableType
    <3> QED BY <3>1 DEF Scalar
  <2>2. LangChainModel(schema) = schema
    BY <2>1 DEF LangChainModel
  <2>3. Passed(framework, schema, arguments) =
          ByModel(schema, DOMAIN schema \ Required(schema), arguments)
    BY <1>1, <2>2 DEF Passed
  <2> QED BY <2>3, ByModelAdmits
<1>2. CASE framework # "langchain"
  BY <1>2 DEF Passed, Framework, Fitting
<1> QED BY <1>1, <1>2

PassStep(call, arrived, k) ==
  UNION {Passed(call.chain[k + 1], AdvertisedAt(call.chain, call.signature, k), a) : a \in arrived}
EnterStep(call) == Entered(call.door, call.chain, call.signature, call.given)

Descent == INSTANCE FoldLaws WITH Step <- PassStep, Base <- EnterStep

Descends(at, door, chain, signature, given) ==
  at = [k \in 0..Len(chain) |->
          IF k = Len(chain) THEN Entered(door, chain, signature, given)
          ELSE UNION {Passed(chain[k + 1], AdvertisedAt(chain, signature, k), a) : a \in at[k + 1]}]

LEMMA LayersBelow ==
  ASSUME NEW door, NEW chain, Len(chain) \in Nat, NEW signature, NEW given
  PROVE  \E at : /\ Arrived(door, chain, signature, given) = at[0]
                 /\ Descends(at, door, chain, signature, given)
<1> DEFINE n == Len(chain)
           call == [door |-> door, chain |-> chain, signature |-> signature, given |-> given]
           downward == [j \in 1..n |-> n - j]
           Is(at) == Descends(at, door, chain, signature, given)
<1>1. PICK h : Descent!IsUpto(call, downward, n, h)
  BY Descent!RecursionDefines
<1> DEFINE at == [k \in 0..n |-> h[n - k]]
<1>2. ASSUME NEW k \in 0..n
      PROVE  at[k] = IF k = n THEN Entered(door, chain, signature, given)
                     ELSE UNION {Passed(chain[k + 1], AdvertisedAt(chain, signature, k), a) :
                                   a \in at[k + 1]}
  <2>1. n - k \in 0..n /\ at[k] = h[n - k]
    OBVIOUS
  <2>2. h[n - k] = IF n - k = 0 THEN EnterStep(call)
                   ELSE PassStep(call, h[(n - k) - 1], downward[n - k])
    BY <1>1, <2>1 DEF Descent!IsUpto
  <2>3. CASE k = n
    BY <2>1, <2>2, <2>3 DEF EnterStep
  <2>4. CASE k # n
    <3>1. /\ n - k # 0 /\ n - k \in 1..n /\ downward[n - k] = k
          /\ k + 1 \in 0..n /\ (n - k) - 1 = n - (k + 1)
      BY <2>4
    <3>2. at[k + 1] = h[(n - k) - 1]
      BY <3>1
    <3>3. at[k] = PassStep(call, at[k + 1], k)
      BY <2>1, <2>2, <3>1, <3>2
    <3> QED BY <2>4, <3>3 DEF PassStep
  <2> QED BY <2>3, <2>4
<1>3. Is(at)
  BY <1>2 DEF Descends
<1>4. Arrived(door, chain, signature, given) = (CHOOSE g : Is(g))[0]
  BY DEF Arrived, Descends
<1> HIDE DEF Is, at
<1>5. Is(CHOOSE g : Is(g))
  BY <1>3
<1> QED BY <1>4, <1>5 DEF Is

(* Nothing arrives that the caller did not give, but the defaults an agent *)
(* fills in for a local skill.                                             *)
LEMMA ArrivedFromCaller ==
  ASSUME NEW door, NEW chain \in Chains, chain # <<>>, NEW signature, NEW given,
         NEW a \in Arrived(door, chain, signature, given)
  PROVE  FromCaller(given, a)
<1> DEFINE n == Len(chain)
<1>1. n \in Nat /\ n \in 0..n /\ 0 \in 0..n /\ chain \in [1..n -> Framework]
  BY ChainTyped
<1>2. PICK at : /\ Arrived(door, chain, signature, given) = at[0]
                /\ Descends(at, door, chain, signature, given)
  BY <1>1, LayersBelow
<1>3. \A k \in 0..n : at[k] = IF k = n THEN Entered(door, chain, signature, given)
                     ELSE UNION {Passed(chain[k + 1], AdvertisedAt(chain, signature, k), b) :
                                   b \in at[k + 1]}
  BY <1>2 DEF Descends
<1> HIDE DEF n
<1> DEFINE N == {j \in Nat : \A k \in 0..n : k + j = n => \A b \in at[k] : FromCaller(given, b)}
<1>4. 0 \in N
  <2>1. at[n] = {given}
    BY <1>1, <1>3 DEF Entered
  <2>2. FromCaller(given, given)
    BY DEF FromCaller
  <2>3. \A k \in 0..n : k + 0 = n => k = n
    BY <1>1
  <2> QED BY <2>1, <2>2, <2>3
<1>5. ASSUME NEW j \in Nat, j \in N PROVE j + 1 \in N
  <2> SUFFICES ASSUME NEW k \in 0..n, k + (j + 1) = n, NEW b \in at[k]
               PROVE  FromCaller(given, b)
    OBVIOUS
  <2>1. k # n /\ k + 1 \in 0..n /\ k + 1 \in 1..n /\ (k + 1) + j = n
    BY <1>1
  <2>2. \A c \in at[k + 1] : FromCaller(given, c)
    BY <1>5, <2>1
  <2>3. PICK c \in at[k + 1] : b \in Passed(chain[k + 1], AdvertisedAt(chain, signature, k), c)
    <3>1. at[k] = UNION {Passed(chain[k + 1], AdvertisedAt(chain, signature, k), c) :
                           c \in at[k + 1]}
      BY <1>3, <2>1
    <3> QED BY ONLY <3>1, b \in at[k]
  <2>4. chain[k + 1] \in Framework
    BY <1>1, <2>1
  <2> QED BY <2>2, <2>3, <2>4, PassedFromCaller
<1> HIDE DEF N
<1>6. n \in N
  BY <1>1, <1>4, <1>5, Layers!NumberInduction
<1>7. 0 + n = n
  BY <1>1
<1>8. \A b \in at[0] : FromCaller(given, b)
  BY <1>1, <1>6, <1>7 DEF N
<1> QED BY <1>2, <1>8

(* What fits required scalars arrives, and still fits.                     *)
LEMMA FittingArrives ==
  ASSUME NEW door, NEW chain \in Chains, NEW signature \in Schemas, NEW given,
         Scalar(signature), Required(signature) = DOMAIN signature, Fitting(signature, given)
  PROVE  \E a \in Arrived(door, chain, signature, given) : Fitting(signature, a)
<1> DEFINE n == Len(chain)
<1>1. n \in Nat /\ n \in 0..n /\ 0 \in 0..n /\ chain \in [1..n -> Framework]
  BY ChainTyped
<1>2. PICK at : /\ Arrived(door, chain, signature, given) = at[0]
                /\ Descends(at, door, chain, signature, given)
  BY <1>1, LayersBelow
<1>3. \A k \in 0..n : at[k] = IF k = n THEN Entered(door, chain, signature, given)
                     ELSE UNION {Passed(chain[k + 1], AdvertisedAt(chain, signature, k), b) :
                                   b \in at[k + 1]}
  BY <1>2 DEF Descends
<1>0. \A k \in 0..n : AdvertisedAt(chain, signature, k) = signature
  BY LayersAre
<1> HIDE DEF n
<1> DEFINE N == {j \in Nat : \A k \in 0..n : k + j = n => \E b \in at[k] : Fitting(signature, b)}
<1>4. 0 \in N
  <2>1. \E b \in Entered(door, chain, signature, given) : Fitting(signature, b)
    <3>1. CASE door = "agent" /\ chain = <<>>
      <4>1. PICK valid \in ByModel(signature, {}, given) : Fitting(signature, valid)
        BY ByModelAdmits
      <4> DEFINE b == [p \in DOMAIN signature |-> IF p \in DOMAIN valid THEN valid[p] ELSE "default"]
      <4>2. b \in Entered(door, chain, signature, given)
        BY <3>1 DEF Entered
      <4>3. Fitting(signature, b)
        BY <4>1 DEF Fitting
      <4> QED BY <4>2, <4>3
    <3>2. CASE ~(door = "agent" /\ chain = <<>>)
      BY <3>2 DEF Entered
    <3> QED BY <3>1, <3>2
  <2>2. \A k \in 0..n : k + 0 = n => k = n
    BY <1>1
  <2> QED BY <1>1, <1>3, <2>1, <2>2
<1>5. ASSUME NEW j \in Nat, j \in N PROVE j + 1 \in N
  <2> SUFFICES ASSUME NEW k \in 0..n, k + (j + 1) = n
               PROVE  \E b \in at[k] : Fitting(signature, b)
    OBVIOUS
  <2>1. k # n /\ k + 1 \in 0..n /\ k + 1 \in 1..n /\ (k + 1) + j = n
    BY <1>1
  <2>2. PICK c \in at[k + 1] : Fitting(signature, c)
    BY <1>5, <2>1
  <2>3. chain[k + 1] \in Framework /\ signature \in [DOMAIN signature -> Argument]
    BY <1>1, <2>1 DEF Schemas
  <2>4. PICK b \in Passed(chain[k + 1], signature, c) : Fitting(signature, b)
    BY <2>2, <2>3, PassedFits
  <2>5. b \in at[k]
    BY <1>0, <1>3, <2>1, <2>4
  <2> QED BY <2>4, <2>5
<1> HIDE DEF N
<1>6. n \in N
  BY <1>1, <1>4, <1>5, Layers!NumberInduction
<1>7. 0 + n = n
  BY <1>1
<1>8. \E b \in at[0] : Fitting(signature, b)
  BY <1>1, <1>6, <1>7 DEF N
<1> QED BY <1>2, <1>8

(* A body that ran was given what the caller gave, or its own defaults.    *)
LEMMA ResultMeansRan ==
  ASSUME NEW signature \in Schemas, NEW chain \in Chains, NEW given, NEW door, NEW fault,
         Call(door, chain, signature, given, fault).answer = "result"
  PROVE  \E a \in Call(door, chain, signature, given, fault).ran : \A p \in DOMAIN a :
           \/ p \in DOMAIN given /\ a[p] \in {given[p], Coerced("integer", given[p])}
           \/ a[p] = "default" /\ p \notin DOMAIN given /\ ~signature[p].required
<1>1. PICK a \in Call(door, chain, signature, given, fault).ran :
        a \in Arrived(door, chain, signature, given)
  BY DEF Call
<1>2. CASE chain # <<>>
  BY <1>1, <1>2, ArrivedFromCaller DEF FromCaller
<1>3. CASE chain = <<>>
  <2>1. a \in Entered(door, chain, signature, given)
    <3>1. Len(chain) = 0
      BY <1>3
    <3>2. PICK at : /\ Arrived(door, chain, signature, given) = at[0]
                    /\ Descends(at, door, chain, signature, given)
      BY <3>1, LayersBelow
    <3>3. at[0] = Entered(door, chain, signature, given)
      BY <3>1, <3>2 DEF Descends
    <3> QED BY <1>1, <3>2, <3>3
  <2>2. CASE door = "agent"
    <3>1. PICK valid \in ByModel(signature, {}, given) :
            a = [p \in DOMAIN signature |-> IF p \in DOMAIN valid THEN valid[p] ELSE "default"]
      BY <1>3, <2>1, <2>2 DEF Entered
    <3>2. /\ DOMAIN valid = DOMAIN signature \cap DOMAIN given
          /\ Required(signature) \subseteq DOMAIN valid
          /\ \A p \in DOMAIN valid : valid[p] \in {given[p], Coerced("integer", given[p])}
      BY ByModelPasses
    <3>3. \A p \in DOMAIN signature : signature[p].required => p \in Required(signature)
      BY DEF Required
    <3> QED BY <1>1, <3>1, <3>2, <3>3
  <2>3. CASE door # "agent"
    BY <1>1, <2>1, <2>3 DEF Entered
  <2> QED BY <2>2, <2>3
<1> QED BY <1>2, <1>3

(* The types, requirements and deliveries of all chains.                   *)
LEMMA AdaptersKeepPromises == EveryCallArrives
<1> SUFFICES ASSUME NEW signature \in Schemas, NEW chain \in Chains
             PROVE  LET schema == Advertised(chain, signature)
      IN  /\ DOMAIN schema = DOMAIN signature
          /\ Required(signature) \subseteq Required(schema)
          /\ \A given \in Givens(Param), door \in {"agent", "direct"} :
               /\ \A fault \in Fault :
                    LET call == Call(door, chain, signature, given, fault)
                    IN  call.answer = "result" =>
                          \E a \in call.ran : \A p \in DOMAIN a :
                            \/ p \in DOMAIN given /\ a[p] \in {given[p], Coerced("integer", given[p])}
                            \/ a[p] = "default" /\ p \notin DOMAIN given /\ ~signature[p].required
               /\ Fits(schema, given) /\ Scalar(signature)
                    /\ Required(signature) = DOMAIN signature =>
                      \E a \in Call(door, chain, signature, given, "none").ran : Fits(signature, a)
  BY DEF EveryCallArrives
<1> DEFINE schema == Advertised(chain, signature)
<1>1. /\ schema \in [DOMAIN signature -> Argument]
      /\ Required(signature) \subseteq Required(schema)
      /\ Scalar(signature) /\ Required(signature) = DOMAIN signature => schema = signature
  <2>1. Len(chain) \in 0..Len(chain)
    BY ChainTyped
  <2> QED BY <2>1, LayersAre DEF Advertised
<1> HIDE DEF schema
<1>2. ASSUME NEW given \in Givens(Param), NEW door, Fits(schema, given), Scalar(signature),
             Required(signature) = DOMAIN signature
      PROVE  \E a \in Call(door, chain, signature, given, "none").ran : Fits(signature, a)
  <2>1. schema = signature
    BY <1>1, <1>2
  <2>2. \A p \in DOMAIN given : given[p] # "default"
    BY DEF Givens, Value
  <2>3. Fitting(signature, given)
    BY <1>2, <2>1, <2>2 DEF Fits, Fitting
  <2>4. PICK a \in Arrived(door, chain, signature, given) : Fitting(signature, a)
    BY <1>2, <2>3, FittingArrives
  <2>5. Fits(signature, a) /\ Binds(signature, a)
    BY <1>2, <2>4 DEF Fits, Fitting, Binds
  <2>6. a \in Call(door, chain, signature, given, "none").ran
    BY <2>4, <2>5 DEF Call
  <2> QED BY <2>5, <2>6
<1>3. DOMAIN schema = DOMAIN signature
  BY <1>1
<1> QED BY <1>1, <1>2, <1>3, ResultMeansRan DEF schema

(* Through any number of frameworks a call reaches the body, or is refused *)
(* before it, as the schema its caller was shown says.                     *)
THEOREM CallsReachTheirBody == Spec => []CallsReachTheBody
<1>1. CallsReachTheBody
  BY AdaptersKeepPromises DEF CallsReachTheBody
<1> QED BY <1>1, PTL

-----------------------------------------------------------------------------
(* The workflows, for any number of parts. Each is a loop, and what is to  *)
(* be shown of it relates the calls made to the answers given so far.      *)

Values == Answer \cup {"raise", "input", "plan"}
Made == [to : Nat \cup {"generator", "evaluator"}, input : Values]

(* A call appends itself, and gives its answer.                            *)
LEMMA CalledIs ==
  ASSUME NEW run, run.calls \in Seq(Made), NEW to, NEW input, [to |-> to, input |-> input] \in Made,
         NEW value, NEW now, now = Called(run, to, input, value)
  PROVE  /\ now.result = value
         /\ now.calls \in Seq(Made) /\ Len(now.calls) = Len(run.calls) + 1
         /\ \A i \in 1..Len(run.calls) : now.calls[i] = run.calls[i]
         /\ now.calls[Len(run.calls) + 1] = [to |-> to, input |-> input]
<1> DEFINE call == [to |-> to, input |-> input]
<1>1. call \in Made
  OBVIOUS
<1>2. now.result = value /\ now.calls = Append(run.calls, call)
  BY DEF Called
<1> HIDE DEF call
<1>3. /\ now.calls \in Seq(Made) /\ Len(now.calls) = Len(run.calls) + 1
      /\ \A i \in 1..Len(run.calls) : now.calls[i] = run.calls[i]
      /\ now.calls[Len(run.calls) + 1] = call
  BY <1>1, <1>2
<1> QED BY <1>2, <1>3 DEF call

Count == [k \in Nat |-> k]

(* A chain gives each step the answer of the one before.                   *)
ChainStep(answers, run, k) ==
  IF Raised(run) THEN run ELSE Called(run, k, run.result, answers[k])

Chaining == INSTANCE FoldLaws WITH Step <- ChainStep, Base <- LAMBDA answers : Started

LEMMA ChainIsLoop ==
  ASSUME NEW n \in Nat, NEW answers
  PROVE  \E after : /\ PromptChain(n, answers) = after[n] /\ after[0] = Started
                    /\ \A k \in 1..n : after[k] = ChainStep(answers, after[k - 1], k)
<1> DEFINE Is(g) == g = [k \in 0..n |->
                           IF k = 0 THEN Started
                           ELSE IF Raised(g[k - 1]) THEN g[k - 1]
                           ELSE Called(g[k - 1], k, g[k - 1].result, answers[k])]
<1>1. PICK g : Chaining!IsUpto(answers, Count, n, g)
  BY Chaining!RecursionDefines
<1>2. Is(g)
  BY <1>1 DEF Chaining!IsUpto, ChainStep, Count
<1>3. PromptChain(n, answers) = (CHOOSE h : Is(h))[n]
  BY DEF PromptChain
<1> DEFINE after == CHOOSE h : Is(h)
<1>4. Is(after)
  <2> HIDE DEF Is
  <2> QED BY <1>2
<1> HIDE DEF after
<1>5. \A k \in 0..n : after[k] = IF k = 0 THEN Started ELSE ChainStep(answers, after[k - 1], k)
  BY <1>4 DEF ChainStep
<1>6. PromptChain(n, answers) = after[n]
  BY <1>3 DEF after
<1> QED BY <1>5, <1>6

(* After k rounds: the answers that came were threaded on, and the last of *)
(* them alone may have raised, or all the steps so far were called.        *)
Threaded(run, k, answers) ==
  /\ run.calls \in Seq(Made) /\ Len(run.calls) <= k
  /\ run.result = IF run.calls = <<>> THEN "input" ELSE answers[Len(run.calls)]
  /\ \A i \in 1..Len(run.calls) :
       run.calls[i] = [to |-> i, input |-> IF i = 1 THEN "input" ELSE answers[i - 1]]
  /\ \A i \in 1..Len(run.calls) : i # Len(run.calls) => answers[i] # "raise"
  /\ Len(run.calls) = k \/ Raised(run)

LEMMA StartedIs ==
  /\ Started.calls = <<>> /\ Started.calls \in Seq(Made) /\ Len(Started.calls) = 0
  /\ Started.result = "input" /\ ~Raised(Started)
BY DEF Started, Raised

LEMMA ChainRound ==
  ASSUME NEW n \in Nat, NEW answers \in Answers(n), NEW k \in Nat, k + 1 <= n,
         NEW run, Threaded(run, k, answers)
  PROVE  Threaded(ChainStep(answers, run, k + 1), k + 1, answers)
<1>1. CASE Raised(run)
  BY <1>1 DEF ChainStep, Threaded
<1>2. CASE ~Raised(run)
  <2> DEFINE now == Called(run, k + 1, run.result, answers[k + 1])
  <2>1. /\ Len(run.calls) = k /\ run.calls \in Seq(Made)
        /\ run.calls = <<>> <=> k = 0
    BY <1>2 DEF Threaded
  <2>2. /\ run.result = (IF k = 0 THEN "input" ELSE answers[k])
        /\ run.result # "raise" /\ run.result \in Values
    BY <1>2, <2>1 DEF Threaded, Raised, Answers, Values
  <2>3. /\ now.result = answers[k + 1]
        /\ now.calls \in Seq(Made) /\ Len(now.calls) = k + 1
        /\ \A i \in 1..k : now.calls[i] = run.calls[i]
        /\ now.calls[k + 1] = [to |-> k + 1, input |-> run.result]
    <3>1. [to |-> k + 1, input |-> run.result] \in Made
      BY <2>2 DEF Made
    <3>3. now = Called(run, k + 1, run.result, answers[k + 1])
      OBVIOUS
    <3> HIDE DEF now
    <3>2. /\ now.result = answers[k + 1]
          /\ now.calls \in Seq(Made) /\ Len(now.calls) = Len(run.calls) + 1
          /\ \A i \in 1..Len(run.calls) : now.calls[i] = run.calls[i]
          /\ now.calls[Len(run.calls) + 1] = [to |-> k + 1, input |-> run.result]
      BY ONLY <2>1, <3>1, <3>3, CalledIs
    <3> QED BY <2>1, <3>2
  <2>4. ChainStep(answers, run, k + 1) = now
    BY <1>2 DEF ChainStep
  <2> HIDE DEF now
  <2>5. now.calls # <<>>
    BY <2>3
  <2>6. ASSUME NEW i \in 1..(k + 1)
        PROVE  now.calls[i] = [to |-> i, input |-> IF i = 1 THEN "input" ELSE answers[i - 1]]
    <3>1. CASE i = k + 1
      BY <2>2, <2>3, <3>1
    <3>2. CASE i \in 1..k
      BY <2>1, <2>3, <3>2 DEF Threaded
    <3> QED BY <3>1, <3>2
  <2>7. ASSUME NEW i \in 1..(k + 1), i # k + 1 PROVE answers[i] # "raise"
    <3>1. CASE i = k
      BY <2>2, <2>7, <3>1
    <3>2. CASE i # k
      BY <2>1, <2>7, <3>2 DEF Threaded
    <3> QED BY <3>1, <3>2
  <2> QED BY <2>3, <2>4, <2>5, <2>6, <2>7 DEF Threaded
<1> QED BY <1>1, <1>2

LEMMA ChainIsThreaded ==
  ASSUME NEW n \in Nat, NEW answers \in Answers(n)
  PROVE  Threaded(PromptChain(n, answers), n, answers)
<1>1. PICK after : /\ PromptChain(n, answers) = after[n] /\ after[0] = Started
                   /\ \A k \in 1..n : after[k] = ChainStep(answers, after[k - 1], k)
  BY ChainIsLoop
<1> DEFINE N == {k \in Nat : k <= n => Threaded(after[k], k, answers)}
<1>2. 0 \in N
  <2>1. Threaded(Started, 0, answers)
    <3>1. \A i \in 1..Len(Started.calls) : FALSE
      BY StartedIs
    <3> QED BY <3>1, StartedIs DEF Threaded
  <2> QED BY <1>1, <2>1
<1>3. ASSUME NEW k \in Nat, k \in N PROVE k + 1 \in N
  <2> SUFFICES ASSUME k + 1 <= n PROVE Threaded(after[k + 1], k + 1, answers)
    OBVIOUS
  <2>1. k + 1 \in 1..n /\ (k + 1) - 1 = k /\ Threaded(after[k], k, answers)
    BY <1>3
  <2>2. after[k + 1] = ChainStep(answers, after[k], k + 1)
    BY <1>1, <2>1
  <2> QED BY <2>1, <2>2, ChainRound
<1> HIDE DEF N
<1>4. n \in N
  BY <1>2, <1>3, Chaining!NumberInduction
<1> QED BY <1>1, <1>4 DEF N

LEMMA ChainsThread == ASSUME NEW n \in Nat \ {0} PROVE ChainThreads(n)
<1> SUFFICES ASSUME NEW answers \in Answers(n)
             PROVE  LET run == PromptChain(n, answers)
                        made == Len(run.calls)
                    IN  /\ EndsAtRaise(run, answers, Raised(run))
                        /\ run.calls[1].input = "input" /\ run.result = answers[made]
                        /\ \A i \in 2 .. made : run.calls[i].input = answers[i - 1]
                        /\ \A i \in 1 .. made : run.calls[i].to = i
                        /\ made = n \/ Raised(run)
  BY DEF ChainThreads
<1> DEFINE run == PromptChain(n, answers)
           made == Len(run.calls)
<1>1. Threaded(run, n, answers)
  BY ChainIsThreaded
<1> HIDE DEF run
<1>2. made \in 1..n /\ run.calls # <<>>
  <2>1. CASE run.calls = <<>>
    BY <1>1, <2>1 DEF Threaded, Raised
  <2> QED BY <1>1, <2>1 DEF Threaded
<1>3. run.result = answers[made] /\ (made = n \/ Raised(run))
  BY <1>1, <1>2 DEF Threaded
<1>4. \A i \in 1..made :
        run.calls[i] = [to |-> i, input |-> IF i = 1 THEN "input" ELSE answers[i - 1]]
  BY <1>1 DEF Threaded
<1>5. EndsAtRaise(run, answers, Raised(run))
  <2>1. \A i \in 1..made : i # made => answers[i] # "raise"
    BY <1>1 DEF Threaded
  <2>2. Len(answers) = n
    BY DEF Answers
  <2> HIDE DEF made
  <2>3. /\ made \in 1..Len(answers) /\ \A i \in 1..made - 1 : answers[i] # "raise"
        /\ Raised(run) = (answers[made] = "raise")
    BY <1>2, <1>3, <2>1, <2>2 DEF Raised
  <2> QED BY <2>3 DEF EndsAtRaise, made
<1> HIDE DEF made
<1>6. ASSUME NEW i \in 2..made PROVE run.calls[i].input = answers[i - 1]
  <2>1. run.calls[i] = [to |-> i, input |-> answers[i - 1]]
    BY <1>2, <1>4
  <2> QED BY <2>1
<1>7. run.calls[1].input = "input" /\ \A i \in 1..made : run.calls[i].to = i
  <2>1. run.calls[1] = [to |-> 1, input |-> "input"]
    BY <1>2, <1>4
  <2>2. ASSUME NEW i \in 1..made PROVE run.calls[i].to = i
    <3>1. run.calls[i] = [to |-> i, input |-> IF i = 1 THEN "input" ELSE answers[i - 1]]
      BY <1>4
    <3> QED BY <3>1
  <2> QED BY <2>1, <2>2
<1> QED BY <1>3, <1>5, <1>6, <1>7 DEF run, made

(* A router calls the route its classifier names, and nothing else.        *)
LEMMA RoutersCallOne == RouterCallsOne
<1> SUFFICES ASSUME NEW table \in SUBSET Answer, NEW answers \in Answers(2)
             PROVE  LET run == Router(table, answers)
                    IN  /\ run.calls[1] = [to |-> "classifier", input |-> "input"]
                        /\ Len(run.calls) = IF answers[1] \in table THEN 2 ELSE 1
                        /\ Len(run.calls) = 2 =>
                             /\ run.calls[2] = [to |-> answers[1], input |-> "input"]
                             /\ run.result = answers[2]
                        /\ Len(run.calls) = 1 => Raised(run)
  BY DEF RouterCallsOne
<1> DEFINE classified == Called(Started, "classifier", "input", answers[1])
           run == Router(table, answers)
<1>1. /\ classified = [calls |-> << [to |-> "classifier", input |-> "input"] >>,
                       result |-> answers[1]]
  BY DEF Called, Started
<1> HIDE DEF classified
<1>2. CASE answers[1] = "raise"
  <2>1. answers[1] \notin table
    BY <1>2, WorkflowsAssumption
  <2>2. run = classified
    BY <1>1, <1>2 DEF Router, Raised, classified
  <2> QED BY <1>1, <1>2, <2>1, <2>2 DEF Raised
<1>3. CASE answers[1] # "raise" /\ answers[1] \notin table
  <2>1. run = [classified EXCEPT !.result = "raise"]
    BY <1>1, <1>3 DEF Router, Raised, classified
  <2>2. run.calls = << [to |-> "classifier", input |-> "input"] >> /\ run.result = "raise"
    BY <1>1, <2>1
  <2> QED BY <1>3, <2>2 DEF Raised
<1>4. CASE answers[1] # "raise" /\ answers[1] \in table
  <2>1. run = Called(classified, answers[1], "input", answers[2])
    BY <1>1, <1>4 DEF Router, Raised, classified
  <2> DEFINE first == [to |-> "classifier", input |-> "input"]
             second == [to |-> answers[1], input |-> "input"]
  <2>2. run.calls = Append(<<first>>, second) /\ run.result = answers[2]
    BY <1>1, <2>1 DEF Called
  <2> HIDE DEF first, second, run
  <2>3. <<first>> \in Seq({first, second})
    OBVIOUS
  <2>4. Len(run.calls) = 2 /\ run.calls[1] = first /\ run.calls[2] = second
    BY <2>2, <2>3
  <2> QED BY <1>4, <2>2, <2>4 DEF run, first, second
<1> QED BY <1>2, <1>3, <1>4

(* Every branch of Parallel gets the input.                                *)
BranchStep(answers, run, k) ==
  IF Raised(run) THEN run ELSE Called(run, k, "input", answers[k])

Branching == INSTANCE FoldLaws WITH Step <- BranchStep, Base <- LAMBDA answers : Started

LEMMA ParallelIsLoop ==
  ASSUME NEW n \in Nat, NEW answers
  PROVE  \E after : /\ Parallel(n, answers) = Gathered(after[n], SubSeq(answers, 1, n))
                    /\ after[0] = Started
                    /\ \A k \in 1..n : after[k] = BranchStep(answers, after[k - 1], k)
<1> DEFINE Is(g) == g = [k \in 0..n |->
                           IF k = 0 THEN Started
                           ELSE IF Raised(g[k - 1]) THEN g[k - 1]
                           ELSE Called(g[k - 1], k, "input", answers[k])]
<1>1. PICK g : Branching!IsUpto(answers, Count, n, g)
  BY Branching!RecursionDefines
<1>2. Is(g)
  BY <1>1 DEF Branching!IsUpto, BranchStep, Count
<1>3. Parallel(n, answers) = Gathered((CHOOSE h : Is(h))[n], SubSeq(answers, 1, n))
  BY DEF Parallel
<1> DEFINE after == CHOOSE h : Is(h)
<1>4. Is(after)
  <2> HIDE DEF Is
  <2> QED BY <1>2
<1> HIDE DEF after
<1>5. \A k \in 0..n : after[k] = IF k = 0 THEN Started ELSE BranchStep(answers, after[k - 1], k)
  BY <1>4 DEF BranchStep
<1>6. Parallel(n, answers) = Gathered(after[n], SubSeq(answers, 1, n))
  BY <1>3 DEF after
<1> QED BY <1>5, <1>6

(* After k rounds of a loop over jobs, which end at the first that raises. *)
JobsDone(run, k, answers) ==
  /\ run.calls \in Seq(Made) /\ Len(run.calls) <= k
  /\ run.result = IF run.calls = <<>> THEN "input" ELSE answers[Len(run.calls)]
  /\ \A i \in 1..Len(run.calls) : run.calls[i] = [to |-> i, input |-> "input"]
  /\ \A i \in 1..Len(run.calls) : i # Len(run.calls) => answers[i] # "raise"
  /\ Len(run.calls) = k \/ Raised(run)

LEMMA BranchRound ==
  ASSUME NEW n \in Nat, NEW answers \in Answers(n), NEW k \in Nat, k + 1 <= n,
         NEW run, JobsDone(run, k, answers)
  PROVE  JobsDone(BranchStep(answers, run, k + 1), k + 1, answers)
<1>1. CASE Raised(run)
  BY <1>1 DEF BranchStep, JobsDone
<1>2. CASE ~Raised(run)
  <2>1. /\ Len(run.calls) = k /\ run.calls \in Seq(Made)
        /\ run.calls = <<>> <=> k = 0
        /\ run.result = (IF k = 0 THEN "input" ELSE answers[k]) /\ run.result # "raise"
    BY <1>2 DEF JobsDone, Raised
  <2>2. [to |-> k + 1, input |-> "input"] \in Made
    BY DEF Made, Values
  <2> DEFINE now == BranchStep(answers, run, k + 1)
  <2>3. now = Called(run, k + 1, "input", answers[k + 1])
    BY <1>2 DEF BranchStep
  <2> HIDE DEF now
  <2>4. /\ now.result = answers[k + 1]
        /\ now.calls \in Seq(Made) /\ Len(now.calls) = k + 1
        /\ \A i \in 1..k : now.calls[i] = run.calls[i]
        /\ now.calls[k + 1] = [to |-> k + 1, input |-> "input"]
    <3>1. /\ now.result = answers[k + 1]
          /\ now.calls \in Seq(Made) /\ Len(now.calls) = Len(run.calls) + 1
          /\ \A i \in 1..Len(run.calls) : now.calls[i] = run.calls[i]
          /\ now.calls[Len(run.calls) + 1] = [to |-> k + 1, input |-> "input"]
      BY ONLY <2>1, <2>2, <2>3, CalledIs
    <3> QED BY <2>1, <3>1
  <2>5. now.calls # <<>>
    BY <2>4
  <2>6. ASSUME NEW i \in 1..(k + 1) PROVE now.calls[i] = [to |-> i, input |-> "input"]
    <3>1. CASE i = k + 1
      BY <2>4, <3>1
    <3>2. CASE i \in 1..k
      BY <2>1, <2>4, <3>2 DEF JobsDone
    <3> QED BY <3>1, <3>2
  <2>7. ASSUME NEW i \in 1..(k + 1), i # k + 1 PROVE answers[i] # "raise"
    <3>1. CASE i = k
      BY <2>1, <2>7, <3>1
    <3>2. CASE i # k
      BY <2>1, <2>7, <3>2 DEF JobsDone
    <3> QED BY <3>1, <3>2
  <2> QED BY <2>4, <2>5, <2>6, <2>7 DEF JobsDone, now
<1> QED BY <1>1, <1>2

LEMMA BranchesSee == ASSUME NEW n \in Nat \ {0} PROVE BranchesSeeTheInput(n)
<1> SUFFICES ASSUME NEW answers \in Answers(n)
             PROVE  LET run == Parallel(n, answers)
                    IN  /\ EndsAtRaise(run, answers, run.result = <<"raise">>)
                        /\ \A i \in DOMAIN run.calls : run.calls[i] = [to |-> i, input |-> "input"]
                        /\ run.result # <<"raise">> => Len(run.calls) = n /\ run.result = answers
  BY DEF BranchesSeeTheInput
<1>1. PICK after : /\ Parallel(n, answers) = Gathered(after[n], SubSeq(answers, 1, n))
                   /\ after[0] = Started
                   /\ \A k \in 1..n : after[k] = BranchStep(answers, after[k - 1], k)
  BY ParallelIsLoop
<1> DEFINE N == {k \in Nat : k <= n => JobsDone(after[k], k, answers)}
<1>2. 0 \in N
  <2>1. JobsDone(Started, 0, answers)
    <3>1. \A i \in 1..Len(Started.calls) : FALSE
      BY StartedIs
    <3> QED BY <3>1, StartedIs DEF JobsDone
  <2> QED BY <1>1, <2>1
<1>3. ASSUME NEW k \in Nat, k \in N PROVE k + 1 \in N
  <2> SUFFICES ASSUME k + 1 <= n PROVE JobsDone(after[k + 1], k + 1, answers)
    OBVIOUS
  <2>1. k + 1 \in 1..n /\ (k + 1) - 1 = k /\ JobsDone(after[k], k, answers)
    BY <1>3
  <2>2. after[k + 1] = BranchStep(answers, after[k], k + 1)
    BY <1>1, <2>1
  <2> QED BY <2>1, <2>2, BranchRound
<1> HIDE DEF N
<1>4. JobsDone(after[n], n, answers)
  <2>1. n \in N
    BY <1>2, <1>3, Branching!NumberInduction
  <2> QED BY <2>1 DEF N
<1> DEFINE last == after[n]
           run == Parallel(n, answers)
<1>5. run.calls = last.calls
      /\ run.result = IF Raised(last) THEN <<"raise">> ELSE SubSeq(answers, 1, n)
  BY <1>1 DEF Gathered
<1>6. SubSeq(answers, 1, n) = answers /\ Len(answers) = n
  BY DEF Answers
<1> HIDE DEF run, last
<1>7. JobsDone(last, n, answers)
  BY <1>4 DEF last
<1>8. \A i \in DOMAIN run.calls : run.calls[i] = [to |-> i, input |-> "input"]
  <2>1. last.calls \in Seq(Made)
        /\ \A i \in 1..Len(last.calls) : last.calls[i] = [to |-> i, input |-> "input"]
    BY <1>7 DEF JobsDone
  <2>2. DOMAIN last.calls = 1..Len(last.calls)
    BY <2>1
  <2> QED BY <1>5, <2>1, <2>2
<1> DEFINE made == Len(run.calls)
<1>9. /\ made \in 1..n /\ (made = n \/ Raised(last)) /\ last.result = answers[made]
      /\ \A i \in 1..made : i # made => answers[i] # "raise"
  <2>1. last.calls # <<>>
    BY <1>7 DEF JobsDone, Raised
  <2> QED BY <1>5, <1>7, <2>1 DEF JobsDone
<1> HIDE DEF made
<1>10. run.result = <<"raise">> <=> answers[made] = "raise"
  <2>1. CASE Raised(last)
    BY <1>5, <1>9, <2>1 DEF Raised
  <2>2. CASE ~Raised(last)
    <3>1. answers[made] # "raise" /\ made = n /\ run.result = answers
      BY <1>5, <1>6, <1>9, <2>2 DEF Raised
    <3>2. \A i \in 1..n : answers[i] # "raise"
      BY <1>9, <3>1
    <3>3. answers # <<"raise">>
      BY <3>2, 1 \in 1..n
    <3> QED BY <3>1, <3>3
  <2> QED BY <2>1, <2>2
<1>11. EndsAtRaise(run, answers, run.result = <<"raise">>)
  <2>1. /\ made \in 1..Len(answers) /\ \A i \in 1..made - 1 : answers[i] # "raise"
        /\ (run.result = <<"raise">>) = (answers[made] = "raise")
    BY <1>6, <1>9, <1>10
  <2> QED BY <2>1 DEF EndsAtRaise, made
<1>12. run.result # <<"raise">> => made = n /\ run.result = answers
  BY <1>5, <1>6, <1>9
<1> QED BY <1>8, <1>11, <1>12 DEF run, made

(* Counting in turns: what is left over grows until it is a whole round.   *)
LEMMA DivMod ==
  ASSUME NEW m \in Nat, NEW w \in Nat \ {0}
  PROVE  /\ m \div w \in Int /\ m % w \in 0..(w - 1)
         /\ m = w * (m \div w) + (m % w)
OBVIOUS

LEMMA Products ==
  ASSUME NEW a \in Int, NEW d \in Int, NEW w \in Nat \ {0}
  PROVE  /\ w * (a + d) = w * a + w * d /\ w * d \in Int
         /\ d >= 1 => w * d >= w
         /\ d <= -1 => w * d <= -w
<1>1. d >= 1 => w * d >= w
  OBVIOUS
<1>2. d <= -1 => w * d <= -w
  OBVIOUS
<1>3. w * (a + d) = w * a + w * d /\ w * d \in Int
  OBVIOUS
<1> QED BY <1>1, <1>2, <1>3

LEMMA OneRemainder ==
  ASSUME NEW w \in Nat \ {0}, NEW q \in Int, NEW p \in Int,
         NEW r \in 0..(w - 1), NEW s \in 0..(w - 1), w * q + r = w * p + s
  PROVE  r = s
<1> DEFINE d == q - p
<1>1. d \in Int /\ q = p + d
  OBVIOUS
<1> HIDE DEF d
<1>2. w * q = w * p + w * d /\ w * d \in Int /\ w * p \in Int
  BY <1>1, Products
<1>3. w * d = s - r
  BY <1>2
<1>4. d = 0
  BY <1>1, <1>3, Products
<1> QED BY <1>1, <1>2, <1>4

LEMMA Turns ==
  ASSUME NEW m \in Nat, NEW w \in Nat \ {0}
  PROVE  /\ m % w \in 0..(w - 1) /\ 0 % w = 0
         /\ (m + 1) % w = IF (m % w) + 1 = w THEN 0 ELSE (m % w) + 1
<1> DEFINE q == m \div w
           r == m % w
           p == (m + 1) \div w
           s == (m + 1) % w
<1>1. q \in Int /\ r \in 0..(w - 1) /\ m = w * q + r
  BY DivMod
<1>2. p \in Int /\ s \in 0..(w - 1) /\ m + 1 = w * p + s
  BY DivMod, m + 1 \in Nat
<1>3. 0 % w = 0
  OBVIOUS
<1> HIDE DEF q, r, p, s
<1>4. CASE r + 1 = w
  <2>1. w * (q + 1) = w * q + w
    BY <1>1, Products
  <2>2. w * (q + 1) + 0 = w * p + s
    BY <1>1, <1>2, <1>4, <2>1
  <2>3. s = 0
    BY <1>1, <1>2, <2>2, OneRemainder
  <2> QED BY <1>1, <1>3, <1>4, <2>3 DEF r, s
<1>5. CASE r + 1 # w
  <2>1. w * q + (r + 1) = w * p + s /\ r + 1 \in 0..(w - 1)
    BY <1>1, <1>2, <1>5
  <2>2. s = r + 1
    BY <1>1, <1>2, <2>1, OneRemainder
  <2> QED BY <1>1, <1>3, <1>5, <2>2 DEF r, s
<1> QED BY <1>4, <1>5

(* Workers that are called in turn have as many calls as any other, or one *)
(* more: those that had a turn in the round that is not over.              *)
Turn(i, workers) == ((i - 1) % workers) + 1
CallsTo(calls, len, w) == {i \in 1..len : calls[i].to = w}
Load(calls, len, w) == Cardinality(CallsTo(calls, len, w))
Share(w, done, workers) == IF w <= done % workers THEN 1 ELSE 0

LEMMA OneMoreCall ==
  ASSUME NEW calls, NEW len \in Nat, NEW w, IsFiniteSet(CallsTo(calls, len, w))
  PROVE  /\ IsFiniteSet(CallsTo(calls, len + 1, w))
         /\ Load(calls, len, w) \in Nat
         /\ Load(calls, len + 1, w) =
              Load(calls, len, w) + IF calls[len + 1].to = w THEN 1 ELSE 0
<1>1. Load(calls, len, w) \in Nat
  BY FS_CardinalityType DEF Load
<1>2. CASE calls[len + 1].to = w
  <2>1. /\ CallsTo(calls, len + 1, w) = CallsTo(calls, len, w) \cup {len + 1}
        /\ len + 1 \notin CallsTo(calls, len, w)
    BY <1>2 DEF CallsTo
  <2> QED BY <1>1, <1>2, <2>1, FS_AddElement DEF Load
<1>3. CASE calls[len + 1].to # w
  <2>1. CallsTo(calls, len + 1, w) = CallsTo(calls, len, w)
    BY <1>3 DEF CallsTo
  <2> QED BY <1>1, <1>3, <2>1 DEF Load
<1> QED BY <1>2, <1>3

LEMMA OneMoreShare ==
  ASSUME NEW workers \in Nat \ {0}, NEW j \in Nat, NEW q \in Nat
  PROVE  \E r \in Nat : \A w \in 1..workers :
           r + Share(w, j + 1, workers) =
             (q + Share(w, j, workers)) + IF (j % workers) + 1 = w THEN 1 ELSE 0
<1> DEFINE turn == (j % workers) + 1
<1>1. /\ turn \in 1..workers /\ j % workers = turn - 1
      /\ (j + 1) % workers = IF turn = workers THEN 0 ELSE turn
  <2>1. /\ j % workers \in 0..(workers - 1)
        /\ (j + 1) % workers = IF (j % workers) + 1 = workers THEN 0 ELSE (j % workers) + 1
    BY Turns
  <2> QED BY <2>1
<1> HIDE DEF turn
<1>2. \A w \in 1..workers : Share(w, j, workers) = IF w <= turn - 1 THEN 1 ELSE 0
  BY <1>1 DEF Share
<1>3. CASE turn = workers
  <2>1. \A w \in 1..workers : Share(w, j + 1, workers) = 0
    BY <1>1, <1>3 DEF Share
  <2>2. \A w \in 1..workers : (q + 1) + 0 = (q + (IF w <= turn - 1 THEN 1 ELSE 0))
                                              + IF turn = w THEN 1 ELSE 0
    BY <1>1, <1>3
  <2>3. \A w \in 1..workers :
          (q + 1) + Share(w, j + 1, workers) =
            (q + Share(w, j, workers)) + IF turn = w THEN 1 ELSE 0
    BY <1>2, <2>1, <2>2
  <2> QED BY <2>3 DEF turn
<1>4. CASE turn # workers
  <2>1. \A w \in 1..workers : Share(w, j + 1, workers) = IF w <= turn THEN 1 ELSE 0
    BY <1>1, <1>4 DEF Share
  <2>2. \A w \in 1..workers : q + (IF w <= turn THEN 1 ELSE 0) =
                                (q + (IF w <= turn - 1 THEN 1 ELSE 0))
                                  + IF turn = w THEN 1 ELSE 0
    BY <1>1
  <2>3. \A w \in 1..workers :
          q + Share(w, j + 1, workers) =
            (q + Share(w, j, workers)) + IF turn = w THEN 1 ELSE 0
    BY <1>2, <2>1, <2>2
  <2> QED BY <2>3 DEF turn
<1> QED BY <1>3, <1>4

SharedFairly(calls, m, workers) ==
  \E q \in Nat : \A w \in 1..workers :
    Load(calls, m + 1, w) = q + Share(w, m, workers)

LEMMA TurnsAreFair ==
  ASSUME NEW workers \in Nat \ {0}, NEW m \in Nat, NEW calls, calls[1].to = 0,
         \A i \in 1..m : calls[i + 1].to = Turn(i, workers)
  PROVE  SharedFairly(calls, m, workers)
<1> DEFINE Finite(j) == \A w \in 1..workers : IsFiniteSet(CallsTo(calls, j + 1, w))
           Fair(j, q) == \A w \in 1..workers :
                           Load(calls, j + 1, w) = q + Share(w, j, workers)
           N == {j \in Nat : j <= m => Finite(j) /\ \E q \in Nat : Fair(j, q)}
<1>1. 0 \in N
  <2>1. ASSUME NEW w \in 1..workers PROVE CallsTo(calls, 0 + 1, w) = {}
    BY DEF CallsTo
  <2>2. \A w \in 1..workers : Share(w, 0, workers) = 0
    BY Turns DEF Share
  <2>3. ASSUME NEW w \in 1..workers
        PROVE  IsFiniteSet(CallsTo(calls, 0 + 1, w)) /\ Load(calls, 0 + 1, w) = 0
    BY <2>1, FS_EmptySet DEF Load
  <2>4. Finite(0) /\ Fair(0, 0)
    BY <2>2, <2>3
  <2> HIDE DEF Finite, Fair
  <2> QED BY <2>4
<1>2. ASSUME NEW j \in Nat, j \in N PROVE j + 1 \in N
  <2> SUFFICES ASSUME j + 1 <= m PROVE Finite(j + 1) /\ \E q \in Nat : Fair(j + 1, q)
    OBVIOUS
  <2> HIDE DEF Finite, Fair
  <2>1. PICK q \in Nat : Fair(j, q)
    BY <1>2
  <2>2. PICK r \in Nat : \A w \in 1..workers :
          r + Share(w, j + 1, workers) =
            (q + Share(w, j, workers)) + IF (j % workers) + 1 = w THEN 1 ELSE 0
    BY OneMoreShare
  <2>3. calls[(j + 1) + 1].to = (j % workers) + 1
    BY j + 1 \in 1..m, (j + 1) - 1 = j DEF Turn
  <2>4. ASSUME NEW w \in 1..workers
        PROVE  /\ IsFiniteSet(CallsTo(calls, (j + 1) + 1, w))
               /\ Load(calls, (j + 1) + 1, w) = r + Share(w, j + 1, workers)
    <3>1. IsFiniteSet(CallsTo(calls, j + 1, w)) /\ j + 1 \in Nat
      BY <1>2 DEF Finite
    <3>2. /\ IsFiniteSet(CallsTo(calls, (j + 1) + 1, w))
          /\ Load(calls, (j + 1) + 1, w) =
               Load(calls, j + 1, w) + IF calls[(j + 1) + 1].to = w THEN 1 ELSE 0
      BY <3>1, OneMoreCall
    <3>3. Load(calls, j + 1, w) = q + Share(w, j, workers)
      BY <2>1 DEF Fair
    <3> QED BY <2>2, <2>3, <3>2, <3>3
  <2>5. Finite(j + 1) /\ Fair(j + 1, r)
    BY <2>4 DEF Finite, Fair
  <2> QED BY <2>5
<1> HIDE DEF N
<1>3. m \in N
  BY <1>1, <1>2, Branching!NumberInduction
<1> QED BY <1>3 DEF N, SharedFairly

(* The workers of an orchestrator take the subtasks in turn.               *)
ShareStep(p, run, k) ==
  IF Raised(run) THEN run
  ELSE Called(run, Turn(k, p.workers), p.subtasks[k], p.answers[k])

Planned(plan) == Called(Started, Orchestrator, "input", plan)
Sharing == INSTANCE FoldLaws WITH Step <- ShareStep, Base <- LAMBDA p : Planned(p.plan)

SharesFrom(after, n, workers, plan, subtasks, answers) ==
  /\ OrchestratorWorker(workers, plan, subtasks, answers) =
       Gathered(after[n], SubSeq(answers, 1, n))
  /\ after[0] = Planned(plan)
  /\ \A k \in 1..n :
       after[k] = IF Raised(after[k - 1]) THEN after[k - 1]
                  ELSE Called(after[k - 1], Turn(k, workers), subtasks[k], answers[k])

LEMMA OrchestratorIsLoop ==
  ASSUME NEW n \in Nat, NEW workers, NEW plan, NEW subtasks, Len(subtasks) = n, NEW answers
  PROVE  \E after : SharesFrom(after, n, workers, plan, subtasks, answers)
<1> DEFINE Is(g) == g = [k \in 0..n |->
                           IF k = 0 THEN Planned(plan)
                           ELSE IF Raised(g[k - 1]) THEN g[k - 1]
                           ELSE Called(g[k - 1], Turn(k, workers),
                                       subtasks[k], answers[k])]
           p == [workers |-> workers, plan |-> plan, subtasks |-> subtasks,
                 answers |-> answers]
<1>1. PICK g : Sharing!IsUpto(p, Count, n, g)
  BY Sharing!RecursionDefines
<1>2. Is(g)
  BY <1>1 DEF Sharing!IsUpto, ShareStep, Count
<1>3. OrchestratorWorker(workers, plan, subtasks, answers) =
        Gathered((CHOOSE h : Is(h))[n], SubSeq(answers, 1, n))
  BY DEF OrchestratorWorker, Planned, Turn
<1> DEFINE after == CHOOSE h : Is(h)
<1>4. Is(after)
  <2> HIDE DEF Is
  <2> QED BY <1>2
<1> HIDE DEF after
<1>5. \A k \in 0..n :
        after[k] = IF k = 0 THEN Planned(plan)
                   ELSE IF Raised(after[k - 1]) THEN after[k - 1]
                   ELSE Called(after[k - 1], Turn(k, workers), subtasks[k], answers[k])
  BY <1>4
<1>6. /\ OrchestratorWorker(workers, plan, subtasks, answers) =
           Gathered(after[n], SubSeq(answers, 1, n))
  BY <1>3 DEF after
<1> QED BY <1>5, <1>6 DEF SharesFrom

(* After k rounds: the plan was made, then the subtasks were handed out in *)
(* turn, up to one whose worker raised, or none if the plan did.           *)
HandedOut(run, k, workers, plan, subtasks, answers) ==
  \E m \in 0..k :
    /\ run.calls \in Seq(Made) /\ Len(run.calls) = m + 1
    /\ run.result = IF m = 0 THEN plan ELSE answers[m]
    /\ run.calls[1] = [to |-> Orchestrator, input |-> "input"]
    /\ \A i \in 1..m :
         run.calls[i + 1] = [to |-> Turn(i, workers), input |-> subtasks[i]]
    /\ m # 0 => plan # "raise"
    /\ \A i \in 1..m : i # m => answers[i] # "raise"
    /\ m = k \/ Raised(run)

LEMMA PlanIsMade ==
  ASSUME NEW workers, NEW plan, NEW subtasks, NEW answers
  PROVE  HandedOut(Planned(plan), 0, workers, plan, subtasks, answers)
<1> DEFINE call == [to |-> Orchestrator, input |-> "input"]
<1>1. call \in Made
  BY DEF Made, Orchestrator, Values
<1>2. Planned(plan) = [calls |-> <<call>>, result |-> plan]
  BY DEF Planned, Called, Started
<1> HIDE DEF call
<1>3. /\ Planned(plan).result = plan /\ Planned(plan).calls \in Seq(Made)
      /\ Len(Planned(plan).calls) = 0 + 1 /\ Planned(plan).calls[1] = call
  BY <1>1, <1>2
<1>4. 0 \in 0..0 /\ \A i \in 1..0 : FALSE
  OBVIOUS
<1> QED BY <1>3, <1>4 DEF HandedOut, call

LEMMA ShareRound ==
  ASSUME NEW n \in Nat, NEW workers \in Nat \ {0}, NEW plan \in Plan,
         NEW subtasks \in [1..n -> Answer], NEW answers \in Answers(n), NEW k \in Nat, k + 1 <= n,
         NEW run, HandedOut(run, k, workers, plan, subtasks, answers), NEW now,
         now = IF Raised(run) THEN run
               ELSE Called(run, Turn(k + 1, workers), subtasks[k + 1], answers[k + 1])
  PROVE  HandedOut(now, k + 1, workers, plan, subtasks, answers)
<1>1. PICK m \in 0..k :
        /\ run.calls \in Seq(Made) /\ Len(run.calls) = m + 1
        /\ run.result = IF m = 0 THEN plan ELSE answers[m]
        /\ run.calls[1] = [to |-> Orchestrator, input |-> "input"]
        /\ \A i \in 1..m :
             run.calls[i + 1] = [to |-> Turn(i, workers), input |-> subtasks[i]]
        /\ m # 0 => plan # "raise"
        /\ \A i \in 1..m : i # m => answers[i] # "raise"
        /\ m = k \/ Raised(run)
  BY DEF HandedOut
<1>2. CASE Raised(run)
  <2>1. now = run /\ m \in 0..(k + 1)
    BY <1>2
  <2> QED BY <1>1, <1>2, <2>1 DEF HandedOut
<1>3. CASE ~Raised(run)
  <2> DEFINE to == Turn(k + 1, workers)
             call == [to |-> to, input |-> subtasks[k + 1]]
  <2>1. m = k
    BY <1>1, <1>3
  <2>2. call \in Made
    <3>1. to \in Nat /\ subtasks[k + 1] \in Values
      BY Turns, (k + 1) - 1 = k DEF Values, Turn
    <3> QED BY <3>1 DEF Made
  <2>3. now = Called(run, to, subtasks[k + 1], answers[k + 1])
    BY <1>3
  <2>4. /\ now.result = answers[k + 1]
        /\ now.calls \in Seq(Made) /\ Len(now.calls) = Len(run.calls) + 1
        /\ \A i \in 1..Len(run.calls) : now.calls[i] = run.calls[i]
        /\ now.calls[Len(run.calls) + 1] = call
    <3>1. run.calls \in Seq(Made)
      BY <1>1
    <3> DEFINE input == subtasks[k + 1]
    <3>2. [to |-> to, input |-> input] \in Made /\ call = [to |-> to, input |-> input]
      BY <2>2
    <3>3. now = Called(run, to, input, answers[k + 1])
      BY <2>3
    <3> HIDE DEF to, input, call
    <3> QED BY ONLY <3>1, <3>2, <3>3, CalledIs
  <2> HIDE DEF to, call
  <2>5. /\ Len(now.calls) = (k + 1) + 1 /\ now.calls[(k + 1) + 1] = call
        /\ \A i \in 1..(k + 1) : now.calls[i] = run.calls[i]
    BY <1>1, <2>1, <2>4
  <2>6. now.calls[1] = [to |-> Orchestrator, input |-> "input"]
    BY <1>1, <2>5, 1 \in 1..(k + 1)
  <2>7. ASSUME NEW i \in 1..(k + 1)
        PROVE  now.calls[i + 1] = [to |-> Turn(i, workers), input |-> subtasks[i]]
    <3>1. CASE i = k + 1
      BY <2>5, <3>1, (k + 1) - 1 = k DEF call, to
    <3>2. CASE i \in 1..k
      BY <1>1, <2>1, <2>5, <3>2, i + 1 \in 1..(k + 1)
    <3> QED BY <3>1, <3>2
  <2>8. plan # "raise" /\ \A i \in 1..(k + 1) : i # k + 1 => answers[i] # "raise"
    BY <1>1, <1>3, <2>1 DEF Raised
  <2>9. now.result = IF k + 1 = 0 THEN plan ELSE answers[k + 1]
    BY <2>4
  <2>10. k + 1 \in 0..(k + 1)
    OBVIOUS
  <2> QED BY <2>4, <2>5, <2>6, <2>7, <2>8, <2>9, <2>10 DEF HandedOut
<1> QED BY <1>2, <1>3

LEMMA AllHandedOut ==
  ASSUME NEW n \in Nat, NEW workers \in Nat \ {0}, NEW plan \in Plan,
         NEW subtasks \in [1..n -> Answer], NEW answers \in Answers(n)
  PROVE  \E last : /\ HandedOut(last, n, workers, plan, subtasks, answers)
                   /\ OrchestratorWorker(workers, plan, subtasks, answers) =
                        Gathered(last, SubSeq(answers, 1, n))
<1>0. Len(subtasks) = n
  OBVIOUS
<1>1. PICK after : SharesFrom(after, n, workers, plan, subtasks, answers)
  BY <1>0, OrchestratorIsLoop
<1> DEFINE N == {k \in Nat : k <= n => HandedOut(after[k], k, workers, plan, subtasks, answers)}
<1>2. 0 \in N
  BY <1>1, PlanIsMade DEF SharesFrom
<1>3. ASSUME NEW k \in Nat, k \in N PROVE k + 1 \in N
  <2> SUFFICES ASSUME k + 1 <= n
               PROVE  HandedOut(after[k + 1], k + 1, workers, plan, subtasks, answers)
    OBVIOUS
  <2>1. /\ k + 1 \in 1..n /\ (k + 1) - 1 = k
        /\ HandedOut(after[k], k, workers, plan, subtasks, answers)
    BY <1>3
  <2>2. after[k + 1] = IF Raised(after[k]) THEN after[k]
                       ELSE Called(after[k], Turn(k + 1, workers), subtasks[k + 1], answers[k + 1])
    BY <1>1, <2>1 DEF SharesFrom
  <2> QED BY <2>1, <2>2, ShareRound
<1> HIDE DEF N
<1>4. n \in N
  BY <1>2, <1>3, Sharing!NumberInduction
<1> QED BY <1>1, <1>4 DEF N, SharesFrom

(* The one after the last worker is the first.                             *)
LEMMA NextTurn ==
  ASSUME NEW workers \in Nat \ {0}, NEW i \in Nat, i >= 1
  PROVE  /\ Turn(1, workers) = 1
         /\ Turn(i + 1, workers) = IF Turn(i, workers) = workers THEN 1 ELSE Turn(i, workers) + 1
<1>1. i - 1 \in Nat /\ (i - 1) + 1 = i /\ 1 - 1 = 0 /\ (i + 1) - 1 = i
  OBVIOUS
<1>2. /\ (i - 1) % workers \in 0..(workers - 1) /\ 0 % workers = 0
      /\ ((i - 1) + 1) % workers = IF ((i - 1) % workers) + 1 = workers THEN 0
                                   ELSE ((i - 1) % workers) + 1
  BY <1>1, Turns
<1> DEFINE before == (i - 1) % workers
<1>3. /\ Turn(1, workers) = 1 /\ Turn(i, workers) = before + 1
      /\ Turn(i + 1, workers) = IF before + 1 = workers THEN 0 + 1 ELSE (before + 1) + 1
  BY <1>1, <1>2 DEF Turn
<1> QED BY <1>3

LEMMA SubtasksShared == ASSUME NEW n \in Nat PROVE SubtasksAreShared(n)
<1> SUFFICES ASSUME NEW workers \in 1..MaxParts, NEW plan \in Plan,
                    NEW subtasks \in [1..n -> Answer], NEW answers \in Answers(n)
             PROVE  LET run == OrchestratorWorker(workers, plan, subtasks, answers)
                        tasks == Tail(run.calls)
                        load(w) == Cardinality(CallsOf(run, w))
                    IN  /\ EndsAtRaise(run, <<plan>> \o answers, run.result = <<"raise">>)
                        /\ run.calls[1] = [to |-> Orchestrator, input |-> "input"]
                        /\ \A i \in DOMAIN tasks :
                             /\ tasks[i].input = subtasks[i]
                             /\ i = 1 => tasks[i].to = 1
                             /\ i > 1 => tasks[i].to = IF tasks[i - 1].to = workers THEN 1
                                                       ELSE tasks[i - 1].to + 1
                        /\ \A w, v \in 1..workers : load(w) - load(v) \in {-1, 0, 1}
                        /\ run.result # <<"raise">> => Len(tasks) = n /\ run.result = answers
  BY DEF SubtasksAreShared
<1> DEFINE run == OrchestratorWorker(workers, plan, subtasks, answers)
           tasks == Tail(run.calls)
<1>1. workers \in Nat \ {0}
  BY WorkflowsAssumption
<1>2. PICK last : /\ HandedOut(last, n, workers, plan, subtasks, answers)
                  /\ run = Gathered(last, SubSeq(answers, 1, n))
  BY <1>1, AllHandedOut
<1>3. run.calls = last.calls
      /\ run.result = IF Raised(last) THEN <<"raise">> ELSE SubSeq(answers, 1, n)
  BY <1>2 DEF Gathered
<1> HIDE DEF run
<1>4. PICK m \in 0..n :
        /\ run.calls \in Seq(Made) /\ Len(run.calls) = m + 1
        /\ last.result = IF m = 0 THEN plan ELSE answers[m]
        /\ run.calls[1] = [to |-> Orchestrator, input |-> "input"]
        /\ \A i \in 1..m :
             run.calls[i + 1] = [to |-> Turn(i, workers), input |-> subtasks[i]]
        /\ m # 0 => plan # "raise"
        /\ \A i \in 1..m : i # m => answers[i] # "raise"
        /\ m = n \/ Raised(last)
  BY <1>2, <1>3 DEF HandedOut
<1>5. Len(tasks) = m /\ DOMAIN tasks = 1..m /\ \A i \in 1..m : tasks[i] = run.calls[i + 1]
  BY <1>4
<1>6. \A i \in 1..m : /\ run.calls[i + 1].input = subtasks[i]
                     /\ run.calls[i + 1].to = Turn(i, workers)
  <2>1. ASSUME NEW i \in 1..m
        PROVE  /\ run.calls[i + 1].input = subtasks[i]
               /\ run.calls[i + 1].to = Turn(i, workers)
    <3>1. run.calls[i + 1] = [to |-> Turn(i, workers), input |-> subtasks[i]]
      BY <1>4
    <3> QED BY <3>1
  <2> QED BY <2>1
<1>7. \A w, v \in 1..workers :
        Cardinality(CallsOf(run, w)) - Cardinality(CallsOf(run, v)) \in {-1, 0, 1}
  <2>1. run.calls[1].to = 0
    <3>1. run.calls[1] = [to |-> Orchestrator, input |-> "input"]
      BY <1>4
    <3> QED BY <3>1 DEF Orchestrator
  <2>2. SharedFairly(run.calls, m, workers)
    BY <1>1, <1>6, <2>1, m \in Nat, TurnsAreFair
  <2>3. \A w : Cardinality(CallsOf(run, w)) = Load(run.calls, m + 1, w)
    <3>1. DOMAIN run.calls = 1..(m + 1)
      BY <1>4
    <3> QED BY <3>1 DEF CallsOf, Load, CallsTo
  <2>4. \A w : Share(w, m, workers) \in {0, 1}
    BY DEF Share
  <2> QED BY <2>2, <2>3, <2>4 DEF SharedFairly
<1>8. SubSeq(answers, 1, n) = answers /\ Len(answers) = n
  BY DEF Answers
<1> HIDE DEF tasks
<1>9. run.result # <<"raise">> => Len(tasks) = n /\ run.result = answers
  BY <1>3, <1>4, <1>5, <1>8
<1>10. ASSUME NEW i \in DOMAIN tasks
       PROVE  /\ tasks[i].input = subtasks[i]
              /\ i = 1 => tasks[i].to = 1
              /\ i > 1 => tasks[i].to = IF tasks[i - 1].to = workers THEN 1
                                        ELSE tasks[i - 1].to + 1
  <2>1. i \in 1..m /\ tasks[i].input = subtasks[i] /\ tasks[i].to = Turn(i, workers)
    BY <1>5, <1>6
  <2>2. i = 1 => tasks[i].to = 1
    BY <1>1, <2>1, NextTurn
  <2>3. ASSUME i > 1
        PROVE  tasks[i].to = IF tasks[i - 1].to = workers THEN 1 ELSE tasks[i - 1].to + 1
    <3>1. i - 1 \in 1..m /\ i - 1 \in Nat /\ i - 1 >= 1 /\ (i - 1) + 1 = i
      BY <2>1, <2>3
    <3>2. tasks[i - 1].to = Turn(i - 1, workers)
      BY <1>5, <1>6, <3>1
    <3>3. Turn((i - 1) + 1, workers) = IF Turn(i - 1, workers) = workers THEN 1
                                       ELSE Turn(i - 1, workers) + 1
      BY <1>1, <3>1, NextTurn
    <3> QED BY <2>1, <3>1, <3>2, <3>3
  <2> QED BY <2>1, <2>2, <2>3
<1> DEFINE came == <<plan>> \o answers
<1>11. /\ Len(came) = n + 1 /\ came[1] = plan
       /\ \A i \in 1..n : came[i + 1] = answers[i]
  <2>1. <<plan>> \in Seq(Values \cup {plan}) /\ answers \in Seq(Values \cup {plan})
    BY DEF Answers, Values
  <2> QED BY <1>8, <2>1
<1> HIDE DEF came
<1>12. last.result = came[m + 1] /\ \A i \in 1..m : came[i] # "raise"
  <2>1. last.result = came[m + 1]
    BY <1>4, <1>11
  <2>2. ASSUME NEW i \in 1..m PROVE came[i] # "raise"
    <3>1. CASE i = 1
      BY <1>4, <1>11, <3>1
    <3>2. CASE i # 1
      <4>1. i - 1 \in 1..m /\ i - 1 \in 1..n /\ i - 1 # m /\ (i - 1) + 1 = i
        BY <3>2
      <4>2. came[i] = answers[i - 1]
        BY <1>11, <4>1
      <4>3. answers[i - 1] # "raise"
        BY <1>4, <4>1
      <4> QED BY <4>2, <4>3
    <3> QED BY <3>1, <3>2
  <2> QED BY <2>1, <2>2
<1>13. (run.result = <<"raise">>) = (came[m + 1] = "raise")
  <2>1. CASE Raised(last)
    BY <1>3, <1>12, <2>1 DEF Raised
  <2>2. CASE ~Raised(last)
    <3>1. came[m + 1] # "raise" /\ m = n /\ run.result = answers
      BY <1>3, <1>4, <1>8, <1>12, <2>2 DEF Raised
    <3>2. \A i \in 1..n : answers[i] # "raise"
      BY <1>4, <1>11, <3>1
    <3>3. answers # <<"raise">>
      <4>1. n # 0 => 1 \in 1..n
        OBVIOUS
      <4>2. Len(<<"raise">>) = 1 /\ <<"raise">>[1] = "raise"
        OBVIOUS
      <4> QED BY <1>8, <3>2, <4>1, <4>2
    <3> QED BY <3>1, <3>3
  <2> QED BY <2>1, <2>2
<1>14. EndsAtRaise(run, came, run.result = <<"raise">>)
  <2>1. Len(run.calls) = m + 1 /\ m + 1 \in 1..Len(came) /\ (m + 1) - 1 = m
    BY <1>4, <1>11
  <2> QED BY <1>12, <1>13, <2>1 DEF EndsAtRaise
<1> QED BY <1>4, <1>7, <1>9, <1>10, <1>14 DEF run, tasks, came

(* An optimizer drafts and judges until a verdict approves.                *)
JudgeStep(p, s, k) ==
  IF s.done THEN s
  ELSE LET drafted == Called(s.run, "generator", "input", p.answers[k])
           judged == Called(drafted, "evaluator", p.answers[k], p.verdicts[k])
       IN  IF Raised(drafted) THEN [run |-> drafted, done |-> TRUE]
           ELSE IF Raised(judged) THEN [run |-> judged, done |-> TRUE]
           ELSE [run |-> [judged EXCEPT !.result =
                            IF @ = "ok with value" THEN "value" ELSE p.answers[k]],
                 done |-> Approves(p.verdicts[k])]

Undrafted == [run |-> Started, done |-> FALSE]
Judging == INSTANCE FoldLaws WITH Step <- JudgeStep, Base <- LAMBDA p : Undrafted

JudgesFrom(after, n, answers, verdicts) ==
  /\ EvaluatorOptimizer(n, answers, verdicts) = after[n].run
  /\ after[0] = Undrafted
  /\ \A k \in 1..n :
       after[k] = JudgeStep([answers |-> answers, verdicts |-> verdicts], after[k - 1], k)

LEMMA OptimizerIsLoop ==
  ASSUME NEW n \in Nat, NEW answers, NEW verdicts
  PROVE  \E after : JudgesFrom(after, n, answers, verdicts)
<1> DEFINE p == [answers |-> answers, verdicts |-> verdicts]
           Is(g) == g = [k \in 0..n |->
                           IF k = 0 THEN [run |-> Started, done |-> FALSE]
                           ELSE IF g[k - 1].done THEN g[k - 1]
                           ELSE LET drafted == Called(g[k - 1].run, "generator", "input",
                                                      answers[k])
                                    judged == Called(drafted, "evaluator", answers[k],
                                                     verdicts[k])
                                IN  IF Raised(drafted) THEN [run |-> drafted, done |-> TRUE]
                                    ELSE IF Raised(judged) THEN [run |-> judged, done |-> TRUE]
                                    ELSE [run |-> [judged EXCEPT !.result =
                                             IF @ = "ok with value" THEN "value"
                                             ELSE answers[k]],
                                          done |-> Approves(verdicts[k])]]
<1>1. PICK g : Judging!IsUpto(p, Count, n, g)
  BY Judging!RecursionDefines
<1>2. \A h : Is(h) <=> h = [k \in 0..n |-> IF k = 0 THEN Undrafted
                                           ELSE JudgeStep(p, h[k - 1], k)]
  BY DEF JudgeStep, Undrafted
<1>3. EvaluatorOptimizer(n, answers, verdicts) = (CHOOSE h : Is(h))[n].run
  BY DEF EvaluatorOptimizer
<1> DEFINE after == CHOOSE h : Is(h)
<1> HIDE DEF Is, p
<1>4. Is(g)
  BY <1>1, <1>2 DEF Judging!IsUpto, Count
<1>5. Is(after)
  BY <1>4
<1>6. EvaluatorOptimizer(n, answers, verdicts) = after[n].run
  BY <1>3
<1> HIDE DEF after
<1>7. \A k \in 0..n : after[k] = IF k = 0 THEN Undrafted ELSE JudgeStep(p, after[k - 1], k)
  BY <1>2, <1>5
<1> QED BY <1>6, <1>7 DEF JudgesFrom, p

(* A draft is asked for before every verdict, and a verdict on every draft *)
(* but one that raised.                                                    *)
Drafted(calls, d, len, answers) ==
  /\ calls \in Seq(Made) /\ Len(calls) = len
  /\ \A j \in 1..d : calls[2 * j - 1] = [to |-> "generator", input |-> "input"]
  /\ \A j \in 1..d : 2 * j <= len => calls[2 * j] = [to |-> "evaluator", input |-> answers[j]]

Paired(calls, d, answers) == Drafted(calls, d, 2 * d, answers)
Unpaired(calls, d, answers) == Drafted(calls, d, 2 * d - 1, answers)

Outcome(verdict, draft) == IF verdict = "ok with value" THEN "value" ELSE draft

(* Round j came to a verdict that does not approve.                        *)
Declined(j, answers, verdicts) ==
  ~Approves(verdicts[j]) /\ "raise" \notin {answers[j], verdicts[j]}

Ended(run, d, answers, verdicts) ==
  \/ /\ ~Raised(run) /\ Approves(verdicts[d]) /\ answers[d] # "raise"
     /\ Paired(run.calls, d, answers)
     /\ run.result = Outcome(verdicts[d], answers[d])
  \/ /\ Raised(run) /\ verdicts[d] = "raise" /\ answers[d] # "raise"
     /\ Paired(run.calls, d, answers)
  \/ /\ Raised(run) /\ answers[d] = "raise"
     /\ Unpaired(run.calls, d, answers)

Open(run, d, answers, verdicts) ==
  /\ ~Raised(run) /\ Paired(run.calls, d, answers)
  /\ d # 0 => /\ Declined(d, answers, verdicts)
              /\ run.result = Outcome(verdicts[d], answers[d])

(* After k rounds, d of which drafted.                                     *)
Judged(s, k, d, answers, verdicts) ==
  /\ d \in 0..k /\ \A j \in 1..(d - 1) : Declined(j, answers, verdicts)
  /\ \/ ~s.done /\ d = k /\ Open(s.run, d, answers, verdicts)
     \/ s.done /\ d # 0 /\ Ended(s.run, d, answers, verdicts)

Draft(run, draft) == Called(run, "generator", "input", draft)
Judge(run, draft, verdict) == Called(Draft(run, draft), "evaluator", draft, verdict)

LEMMA OneMoreDraft ==
  ASSUME NEW answers, NEW d \in Nat, answers[d + 1] \in Values, NEW verdict, NEW run,
         Paired(run.calls, d, answers)
  PROVE  /\ Unpaired(Draft(run, answers[d + 1]).calls, d + 1, answers)
         /\ Paired(Judge(run, answers[d + 1], verdict).calls, d + 1, answers)
         /\ Draft(run, answers[d + 1]).result = answers[d + 1]
         /\ Judge(run, answers[d + 1], verdict).result = verdict
<1> DEFINE drafted == Draft(run, answers[d + 1])
           judged == Judge(run, answers[d + 1], verdict)
<1>0. /\ drafted = Called(run, "generator", "input", answers[d + 1])
      /\ judged = Called(drafted, "evaluator", answers[d + 1], verdict)
  BY DEF Draft, Judge
<1> HIDE DEF drafted, judged
<1> DEFINE ask == [to |-> "generator", input |-> "input"]
           judge == [to |-> "evaluator", input |-> answers[d + 1]]
<1>1. ask \in Made /\ judge \in Made
  <2>1. answers[d + 1] \in Values /\ "input" \in Values
    BY DEF Values
  <2> QED BY <2>1 DEF Made
<1>2. run.calls \in Seq(Made) /\ Len(run.calls) = 2 * d
  BY DEF Drafted, Paired
<1>3. /\ drafted.result = answers[d + 1]
      /\ drafted.calls \in Seq(Made) /\ Len(drafted.calls) = Len(run.calls) + 1
      /\ \A i \in 1..Len(run.calls) : drafted.calls[i] = run.calls[i]
      /\ drafted.calls[Len(run.calls) + 1] = ask
  <2>1. drafted = Called(run, "generator", "input", answers[d + 1])
    BY <1>0
  <2>2. run.calls \in Seq(Made)
    BY <1>2
  <2> QED BY ONLY <1>1, <2>1, <2>2, CalledIs
<1>4. /\ judged.result = verdict
      /\ judged.calls \in Seq(Made) /\ Len(judged.calls) = Len(drafted.calls) + 1
      /\ \A i \in 1..Len(drafted.calls) : judged.calls[i] = drafted.calls[i]
      /\ judged.calls[Len(drafted.calls) + 1] = judge
  <2>1. judged = Called(drafted, "evaluator", answers[d + 1], verdict)
    BY <1>0
  <2> QED BY ONLY <1>1, <1>3, <2>1, CalledIs
<1> HIDE DEF ask, judge
<1>5. /\ Len(drafted.calls) = 2 * d + 1 /\ Len(judged.calls) = 2 * d + 2
      /\ drafted.calls[2 * d + 1] = ask /\ judged.calls[2 * d + 1] = ask
      /\ judged.calls[2 * d + 2] = judge
      /\ \A i \in 1..(2 * d) : drafted.calls[i] = run.calls[i] /\ judged.calls[i] = run.calls[i]
  <2>1. Len(drafted.calls) = 2 * d + 1 /\ Len(judged.calls) = (2 * d + 1) + 1
    BY <1>2, <1>3, <1>4
  <2>2. drafted.calls[2 * d + 1] = ask
    BY <1>2, <1>3
  <2>3. judged.calls[2 * d + 1] = drafted.calls[2 * d + 1]
    BY <1>4, <2>1, 2 * d + 1 \in 1..(2 * d + 1)
  <2>4. judged.calls[(2 * d + 1) + 1] = judge
    BY <1>4, <2>1
  <2>5. ASSUME NEW i \in 1..(2 * d)
        PROVE  drafted.calls[i] = run.calls[i] /\ judged.calls[i] = run.calls[i]
    BY <1>2, <1>3, <1>4, <2>1, i \in 1..(2 * d + 1)
  <2> QED BY <2>1, <2>2, <2>3, <2>4, <2>5, (2 * d + 1) + 1 = 2 * d + 2
<1>6. ASSUME NEW j \in 1..(d + 1)
      PROVE  drafted.calls[2 * j - 1] = ask /\ judged.calls[2 * j - 1] = ask
  <2>1. CASE j = d + 1
    BY <1>5, <2>1
  <2>2. CASE j \in 1..d
    BY <1>5, <2>2, 2 * j - 1 \in 1..(2 * d) DEF Drafted, Paired, ask
  <2> QED BY <2>1, <2>2
<1>7. ASSUME NEW j \in 1..d
      PROVE  /\ drafted.calls[2 * j] = [to |-> "evaluator", input |-> answers[j]]
             /\ judged.calls[2 * j] = [to |-> "evaluator", input |-> answers[j]]
  <2>1. 2 * j <= 2 * d /\ 2 * j \in 1..(2 * d)
    OBVIOUS
  <2>2. run.calls[2 * j] = [to |-> "evaluator", input |-> answers[j]]
    BY <2>1 DEF Drafted, Paired
  <2> QED BY <1>5, <2>1, <2>2
<1>8. ASSUME NEW j \in 1..(d + 1)
      PROVE  judged.calls[2 * j] = [to |-> "evaluator", input |-> answers[j]]
  <2>1. CASE j = d + 1
    BY <1>5, <2>1, 2 * (d + 1) = 2 * d + 2 DEF judge
  <2>2. CASE j \in 1..d
    BY <1>7, <2>2
  <2> QED BY <2>1, <2>2
<1>9. Drafted(drafted.calls, d + 1, 2 * (d + 1) - 1, answers)
  <2>1. \A j \in 1..(d + 1) : 2 * j <= 2 * (d + 1) - 1 => j \in 1..d
    OBVIOUS
  <2>2. Len(drafted.calls) = 2 * (d + 1) - 1
    BY <1>5, 2 * (d + 1) - 1 = 2 * d + 1
  <2> QED BY <1>3, <1>6, <1>7, <2>1, <2>2 DEF Drafted, ask
<1>10. Drafted(judged.calls, d + 1, 2 * (d + 1), answers)
  <2>1. Len(judged.calls) = 2 * (d + 1)
    BY <1>5
  <2> QED BY <1>4, <1>6, <1>8, <2>1 DEF Drafted, ask
<1> QED BY <1>3, <1>4, <1>9, <1>10 DEF Paired, Unpaired, drafted, judged

LEMMA JudgeRound ==
  ASSUME NEW n \in Nat, NEW answers \in Answers(n), NEW verdicts,
         NEW k \in Nat, k + 1 <= n, NEW s, NEW d, Judged(s, k, d, answers, verdicts),
         NEW now,
         now = JudgeStep([answers |-> answers, verdicts |-> verdicts], s, k + 1)
  PROVE  \E e : Judged(now, k + 1, e, answers, verdicts)
<1>1. CASE s.done
  <2>1. now = s /\ d \in 0..(k + 1)
    BY <1>1 DEF JudgeStep, Judged
  <2> QED BY <1>1, <2>1 DEF Judged
<1>2. CASE ~s.done
  <2> DEFINE e == k + 1
             drafted == Draft(s.run, answers[e])
             judged == Judge(s.run, answers[e], verdicts[e])
             kept == [judged EXCEPT !.result =
                        IF @ = "ok with value" THEN "value" ELSE answers[e]]
  <2>1. d = k /\ Open(s.run, k, answers, verdicts)
    BY <1>2 DEF Judged
  <2>2. now = IF Raised(drafted) THEN [run |-> drafted, done |-> TRUE]
              ELSE IF Raised(judged) THEN [run |-> judged, done |-> TRUE]
              ELSE [run |-> kept, done |-> Approves(verdicts[e])]
    BY <1>2 DEF JudgeStep, Draft, Judge
  <2>3. /\ Unpaired(drafted.calls, e, answers) /\ Paired(judged.calls, e, answers)
        /\ drafted.result = answers[e] /\ judged.result = verdicts[e]
    <3>1. Paired(s.run.calls, k, answers)
      BY <2>1 DEF Open
    <3>2. answers[k + 1] \in Values
      BY DEF Answers, Values
    <3> HIDE DEF kept
    <3> QED BY ONLY k \in Nat, <3>1, <3>2, OneMoreDraft
  <2>4. kept.calls = judged.calls /\ kept.result = Outcome(verdicts[e], answers[e])
    <3>1. judged = [calls |-> judged.calls, result |-> judged.result]
      BY DEF Called, Judge
    <3> HIDE DEF judged
    <3> QED BY <2>3, <3>1 DEF Outcome
  <2>5. e \in 0..(k + 1) /\ e # 0 /\ e - 1 = k
    OBVIOUS
  <2>6. \A j \in 1..(e - 1) : Declined(j, answers, verdicts)
    <3>1. \A j \in 1..k : j # k => j \in 1..(k - 1)
      OBVIOUS
    <3>2. k # 0 => Declined(k, answers, verdicts)
      BY <2>1 DEF Open
    <3>3. \A j \in 1..(k - 1) : Declined(j, answers, verdicts)
      BY <2>1 DEF Judged
    <3> QED BY <2>5, <3>1, <3>2, <3>3
  <2> HIDE DEF drafted, judged, kept
  <2>7. CASE Raised(drafted)
    <3>1. now.run = drafted /\ now.done
      BY <2>2, <2>7
    <3>2. Ended(now.run, e, answers, verdicts)
      BY <2>3, <2>7, <3>1 DEF Ended, Raised
    <3> QED BY <2>5, <2>6, <3>1, <3>2 DEF Judged
  <2>8. CASE ~Raised(drafted) /\ Raised(judged)
    <3>1. now.run = judged /\ now.done
      BY <2>2, <2>8
    <3>2. Ended(now.run, e, answers, verdicts)
      BY <2>3, <2>8, <3>1 DEF Ended, Raised
    <3> QED BY <2>5, <2>6, <3>1, <3>2 DEF Judged
  <2>9. CASE ~Raised(drafted) /\ ~Raised(judged)
    <3>1. now.run = kept /\ now.done = Approves(verdicts[e])
      BY <2>2, <2>9
    <3>2. /\ ~Raised(kept) /\ Paired(kept.calls, e, answers)
          /\ "raise" \notin {answers[e], verdicts[e]}
      BY <2>3, <2>4, <2>9 DEF Raised, Outcome
    <3>3. CASE Approves(verdicts[e])
      <4>1. Ended(now.run, e, answers, verdicts)
        BY <2>4, <3>1, <3>2, <3>3 DEF Ended
      <4> QED BY <2>5, <2>6, <3>1, <3>3, <4>1 DEF Judged
    <3>4. CASE ~Approves(verdicts[e])
      <4>1. Open(now.run, e, answers, verdicts)
        BY <2>4, <3>1, <3>2, <3>4 DEF Open, Declined
      <4> QED BY <2>5, <2>6, <3>1, <3>4, <4>1 DEF Judged
    <3> QED BY <3>3, <3>4
  <2> QED BY <2>7, <2>8, <2>9
<1> QED BY <1>1, <1>2

LEMMA AllJudged ==
  ASSUME NEW n \in Nat, NEW answers \in Answers(n), NEW verdicts \in [1..n -> Verdict]
  PROVE  \E s, d : /\ Judged(s, n, d, answers, verdicts)
                   /\ EvaluatorOptimizer(n, answers, verdicts) = s.run
<1>1. PICK after : JudgesFrom(after, n, answers, verdicts)
  BY OptimizerIsLoop
<1> DEFINE N == {k \in Nat : k <= n => \E d : Judged(after[k], k, d, answers, verdicts)}
<1>2. 0 \in N
  <2>1. after[0].run = Started /\ after[0].done = FALSE
    BY <1>1 DEF JudgesFrom, Undrafted
  <2>2. \A j \in 1..0 : FALSE
    OBVIOUS
  <2>3. Paired(Started.calls, 0, answers)
    BY <2>2, StartedIs DEF Drafted, Paired
  <2>4. Judged(after[0], 0, 0, answers, verdicts)
    BY <2>1, <2>3, StartedIs DEF Judged, Open
  <2> QED BY <2>4
<1>3. ASSUME NEW k \in Nat, k \in N PROVE k + 1 \in N
  <2> SUFFICES ASSUME k + 1 <= n PROVE \E d : Judged(after[k + 1], k + 1, d, answers, verdicts)
    OBVIOUS
  <2>1. k + 1 \in 1..n /\ (k + 1) - 1 = k
    OBVIOUS
  <2>2. PICK d : Judged(after[k], k, d, answers, verdicts)
    BY <1>3
  <2>3. after[k + 1] = JudgeStep([answers |-> answers, verdicts |-> verdicts], after[k], k + 1)
    BY <1>1, <2>1 DEF JudgesFrom
  <2> QED BY <2>2, <2>3, JudgeRound
<1> HIDE DEF N
<1>4. n \in N
  BY <1>2, <1>3, Judging!NumberInduction
<1> QED BY <1>1, <1>4 DEF N, JudgesFrom

(* There are as many calls of the generator as there are drafts.           *)
LEMMA DraftsCounted ==
  ASSUME NEW d \in Nat, NEW len \in {2 * d, 2 * d - 1}, len \in Nat, NEW calls, NEW answers,
         Drafted(calls, d, len, answers)
  PROVE  Load(calls, len, "generator") = d
<1> DEFINE Counted(l, j) == /\ IsFiniteSet(CallsTo(calls, l, "generator"))
                            /\ Load(calls, l, "generator") = j
           N == {j \in Nat : 2 * j <= len => Counted(2 * j, j)}
<1>1. 0 \in N
  <2>1. CallsTo(calls, 0, "generator") = {}
    BY DEF CallsTo
  <2>2. Counted(0, 0)
    BY <2>1, FS_EmptySet DEF Load
  <2> HIDE DEF Counted
  <2> QED BY <2>2, 2 * 0 = 0
<1>2. ASSUME NEW l \in Nat, NEW j \in Nat, Counted(l, j)
      PROVE  /\ calls[l + 1].to = "generator" => Counted(l + 1, j + 1)
             /\ calls[l + 1].to # "generator" => Counted(l + 1, j)
  BY <1>2, OneMoreCall
<1>3. ASSUME NEW j \in 1..d PROVE calls[2 * j - 1].to = "generator"
  <2>1. calls[2 * j - 1] = [to |-> "generator", input |-> "input"]
    BY DEF Drafted
  <2> QED BY <2>1
<1>4. ASSUME NEW j \in 1..d, 2 * j <= len PROVE calls[2 * j].to # "generator"
  <2>1. calls[2 * j] = [to |-> "evaluator", input |-> answers[j]]
    BY <1>4 DEF Drafted
  <2> QED BY <2>1
<1> HIDE DEF Counted
<1>5. ASSUME NEW j \in Nat, j \in N PROVE j + 1 \in N
  <2> SUFFICES ASSUME 2 * (j + 1) <= len PROVE Counted(2 * (j + 1), j + 1)
    OBVIOUS
  <2>1. /\ j + 1 \in 1..d /\ 2 * j <= len /\ 2 * (j + 1) - 1 = 2 * j + 1
        /\ 2 * (j + 1) = (2 * j + 1) + 1 /\ 2 * j \in Nat /\ 2 * j + 1 \in Nat
    OBVIOUS
  <2>2. Counted(2 * j, j)
    BY <1>5, <2>1
  <2>3. Counted(2 * j + 1, j + 1)
    <3>1. calls[2 * j + 1].to = "generator"
      <4>1. calls[2 * (j + 1) - 1].to = "generator"
        BY <1>3, <2>1
      <4> QED BY <2>1, <4>1
    <3> QED BY <1>2, <2>1, <2>2, <3>1
  <2>4. calls[(2 * j + 1) + 1].to # "generator"
    BY <1>4, <2>1
  <2>5. Counted((2 * j + 1) + 1, j + 1)
    BY <1>2, <2>1, <2>3, <2>4
  <2> QED BY <2>1, <2>5
<1> HIDE DEF N
<1>6. Nat \subseteq N
  BY <1>1, <1>5, Judging!NumberInduction
<1>7. CASE len = 2 * d
  <2>1. Counted(2 * d, d)
    BY <1>6, <1>7 DEF N
  <2> QED BY <1>7, <2>1 DEF Counted
<1>8. CASE len = 2 * d - 1
  <2>1. d - 1 \in Nat /\ d \in 1..d /\ 2 * (d - 1) + 1 = len /\ 2 * (d - 1) \in Nat
    BY <1>8
  <2>2. Counted(2 * (d - 1), d - 1)
    BY <1>6, <2>1 DEF N
  <2>3. calls[2 * (d - 1) + 1].to = "generator"
    BY <1>3, <1>8, <2>1
  <2>4. Counted(2 * (d - 1) + 1, (d - 1) + 1)
    BY <1>2, <2>1, <2>2, <2>3
  <2> QED BY <2>1, <2>4, (d - 1) + 1 = d DEF Counted
<1> QED BY <1>7, <1>8

LEMMA LastCandidates == ASSUME NEW n \in Nat \ {0} PROVE LastCandidateOrApproved(n)
<1> SUFFICES
      \A answers \in Answers(n), verdicts \in [1 .. n -> Verdict] :
        LET run == EvaluatorOptimizer(n, answers, verdicts)
            drafts == Cardinality(CallsOf(run, "generator"))
            made == Len(run.calls)
            came == [i \in 1 .. 2 * n |-> IF i % 2 = 1 THEN answers[(i + 1) \div 2]
                                          ELSE verdicts[i \div 2]]
        IN  /\ EndsAtRaise(run, came, Raised(run))
            /\ \A i \in DOMAIN run.calls :
                 run.calls[i] = IF i % 2 = 1 THEN [to |-> "generator", input |-> "input"]
                                ELSE [to |-> "evaluator", input |-> answers[i \div 2]]
            /\ \A k \in 1 .. drafts - 1 : ~Approves(verdicts[k])
            /\ ~Raised(run) =>
                 /\ made = 2 * drafts /\ (drafts = n \/ Approves(verdicts[drafts]))
                 /\ run.result = IF verdicts[drafts] = "ok with value" THEN "value"
                                 ELSE answers[drafts]
  BY DEF LastCandidateOrApproved
<1> TAKE answers \in Answers(n), verdicts \in [1 .. n -> Verdict]
<1> DEFINE run == EvaluatorOptimizer(n, answers, verdicts)
           drafts == Cardinality(CallsOf(run, "generator"))
           made == Len(run.calls)
           came == [i \in 1 .. 2 * n |-> IF i % 2 = 1 THEN answers[(i + 1) \div 2]
                                         ELSE verdicts[i \div 2]]
<1>1. PICK s, d : Judged(s, n, d, answers, verdicts) /\ run = s.run
  BY AllJudged
<1> HIDE DEF run
<1>2. d \in 0..n /\ \A j \in 1..(d - 1) : Declined(j, answers, verdicts)
  BY <1>1 DEF Judged
<1>3. \/ d = n /\ Open(run, d, answers, verdicts)
      \/ d # 0 /\ Ended(run, d, answers, verdicts)
  BY <1>1 DEF Judged
<1>4. d # 0
  BY <1>3
<1>5. PICK len \in {2 * d, 2 * d - 1} :
        /\ Drafted(run.calls, d, len, answers)
        /\ len = 2 * d => answers[d] # "raise" /\ (Raised(run) <=> verdicts[d] = "raise")
        /\ len = 2 * d - 1 => answers[d] = "raise" /\ Raised(run)
  <2>1. 2 * d # 2 * d - 1
    BY <1>2
  <2>2. CASE Paired(run.calls, d, answers)
             /\ answers[d] # "raise" /\ (Raised(run) <=> verdicts[d] = "raise")
    BY <2>1, <2>2 DEF Paired
  <2>3. CASE Unpaired(run.calls, d, answers) /\ answers[d] = "raise" /\ Raised(run)
    BY <2>1, <2>3 DEF Unpaired
  <2> QED BY <1>3, <1>4, <2>2, <2>3 DEF Open, Ended, Declined, Approves
<1>6. len \in Nat /\ made = len /\ DOMAIN run.calls = 1..len
  BY <1>2, <1>4, <1>5 DEF Drafted
<1>7. drafts = d
  <2>1. Load(run.calls, len, "generator") = d
    BY <1>2, <1>5, <1>6, DraftsCounted
  <2>2. CallsOf(run, "generator") = CallsTo(run.calls, len, "generator")
    BY <1>6 DEF CallsOf, CallsTo
  <2> QED BY <2>1, <2>2 DEF Load
<1> HIDE DEF drafts, made, came
<1>8. ASSUME NEW i \in DOMAIN run.calls
      PROVE  run.calls[i] = IF i % 2 = 1 THEN [to |-> "generator", input |-> "input"]
                            ELSE [to |-> "evaluator", input |-> answers[i \div 2]]
  <2>1. i \in 1..len
    BY <1>6
  <2>2. CASE i % 2 = 1
    <3>1. PICK j \in 1..d : i = 2 * j - 1
      <4>1. (i \div 2) + 1 \in 1..d /\ i = 2 * ((i \div 2) + 1) - 1
        BY <1>2, <1>5, <2>1, <2>2
      <4> QED BY <4>1
    <3> QED BY <1>5, <2>2, <3>1 DEF Drafted
  <2>3. CASE i % 2 # 1
    <3>1. i \div 2 \in 1..d /\ i = 2 * (i \div 2) /\ 2 * (i \div 2) <= len
      BY <1>2, <1>5, <2>1, <2>3
    <3> QED BY <1>5, <2>3, <3>1 DEF Drafted
  <2> QED BY <2>2, <2>3
<1>9. ASSUME ~Raised(run)
      PROVE  /\ made = 2 * d /\ (d = n \/ Approves(verdicts[d]))
             /\ run.result = IF verdicts[d] = "ok with value" THEN "value" ELSE answers[d]
  <2>1. /\ Paired(run.calls, d, answers) /\ (d = n \/ Approves(verdicts[d]))
        /\ run.result = Outcome(verdicts[d], answers[d])
    BY <1>3, <1>4, <1>9 DEF Open, Ended
  <2>2. made = 2 * d
    BY <2>1 DEF Paired, Drafted, made
  <2> QED BY <2>1, <2>2 DEF Outcome
<1>10. \A j \in 1..d : 2 * j - 1 \in 1..2 * n /\ 2 * j \in 1..2 * n
                        /\ came[2 * j - 1] = answers[j] /\ came[2 * j] = verdicts[j]
  <2>1. ASSUME NEW j \in 1..d
        PROVE  /\ 2 * j - 1 \in 1..2 * n /\ 2 * j \in 1..2 * n
               /\ (2 * j - 1) % 2 = 1 /\ ((2 * j - 1) + 1) \div 2 = j
               /\ (2 * j) % 2 # 1 /\ (2 * j) \div 2 = j
    BY <1>2
  <2> QED BY <2>1 DEF came
<1>11. ASSUME NEW i \in 1..made - 1 PROVE came[i] # "raise"
  <2>1. CASE i % 2 = 1
    <3>1. PICK j \in 1..d : i = 2 * j - 1
      <4>1. i \in 1..2 * d /\ d \in Nat
        BY <1>2, <1>5, <1>6
      <4>2. i = 2 * (i \div 2) + 1 /\ i \div 2 \in Int
        BY <2>1, <4>1
      <4> DEFINE h == i \div 2
      <4>3. h + 1 \in 1..d /\ i = 2 * (h + 1) - 1
        <5> HIDE DEF h
        <5>1. i = 2 * h + 1 /\ h \in Int
          BY <4>2 DEF h
        <5> QED BY <4>1, <5>1
      <4> QED BY <4>3
    <3>2. CASE j = d
      BY <1>2, <1>5, <1>6, <1>10, <3>1, <3>2
    <3>3. CASE j # d
      <4>1. j \in 1..(d - 1) /\ came[i] = answers[j]
        BY <1>2, <1>10, <3>1, <3>3
      <4>2. Declined(j, answers, verdicts)
        BY <1>2, <4>1
      <4> QED BY <4>1, <4>2 DEF Declined
    <3> QED BY <3>2, <3>3
  <2>2. CASE i % 2 # 1
    <3>1. PICK j \in 1..(d - 1) : i = 2 * j
      <4>1. i \in 1..2 * d - 1 /\ d \in Nat
        BY <1>2, <1>5, <1>6
      <4>2. i = 2 * (i \div 2) /\ i \div 2 \in Int
        BY <2>2, <4>1
      <4> DEFINE h == i \div 2
      <4>3. h \in 1..(d - 1) /\ i = 2 * h
        <5> HIDE DEF h
        <5>1. i = 2 * h /\ h \in Int
          BY <4>2 DEF h
        <5> QED BY <4>1, <5>1
      <4> QED BY <4>3
    <3>2. Declined(j, answers, verdicts)
      BY <1>2, <3>1
    <3>3. j \in 1..d
      BY <1>2
    <3>4. came[2 * j] = verdicts[j]
      BY <1>10, <3>3
    <3> QED BY <3>1, <3>2, <3>4 DEF Declined
  <2> QED BY <2>1, <2>2
<1>12. EndsAtRaise(run, came, Raised(run))
  <2>1. Len(came) = 2 * n
    <3> DEFINE all == 2 * n
    <3>1. DOMAIN came = 1..all /\ came = [i \in 1..all |-> came[i]] /\ all \in Nat
      BY DEF came
    <3> HIDE DEF all
    <3>2. came \in [1..all -> {came[i] : i \in 1..all}]
      BY <3>1
    <3>3. Len(came) = all
      BY <3>1, <3>2
    <3> QED BY <3>3 DEF all
  <2>2. made \in 1..2 * n /\ d \in 1..d
    BY <1>2, <1>4, <1>5, <1>6
  <2>3. Raised(run) <=> came[made] = "raise"
    BY <1>2, <1>5, <1>6, <1>10, <2>2
  <2> QED BY <1>11, <2>1, <2>2, <2>3 DEF EndsAtRaise, made, Raised
<1>13. \A k \in 1..(d - 1) : ~Approves(verdicts[k])
  BY <1>2 DEF Declined
<1> QED BY <1>7, <1>8, <1>9, <1>12, <1>13 DEF run, drafts, made, came

(* Any number of parts.                                                    *)
LEMMA WorkflowsAsTheySay == CallsAsDocumented
<1>1. 0 \in Nat /\ \A n \in 1..MaxParts : n \in Nat \ {0} /\ n \in Nat
  BY WorkflowsAssumption
<1> QED BY <1>1, ChainsThread, RoutersCallOne, BranchesSee, SubtasksShared, LastCandidates
        DEF CallsAsDocumented

(* Whatever skills a workflow is given, and whatever they answer or raise, *)
(* it makes the calls its documentation says.                              *)
THEOREM WorkflowsKeepTheirWord == Spec => []WorkflowsAsDocumented
<1>1. WorkflowsAsDocumented
  BY WorkflowsAsTheySay DEF WorkflowsAsDocumented
<1> QED BY <1>1, PTL
=============================================================================
