---------------------------- MODULE ConfigValues ----------------------------
(***************************************************************************)
(* The values of a document and where they end up.  A value is a literal   *)
(* or names a secret.  The web UI sees records, which show literals and    *)
(* flat environments only, and sends records back; a kernel gets plain     *)
(* variables.  One agent with its connection and gateway, and two kernel   *)
(* configurations: that of the agent's harness, acp, and that of           *)
(* copilot-cli, which its CLI sessions run.  A CLI session keeps a launch  *)
(* snapshot for good, a chat session and the gateway are started from the  *)
(* document of the moment.  An environment is what client_service asks     *)
(* agent_host to start something with; what agent_host adds to it          *)
(* (kernel_environment, container_spec) is no value of the document and    *)
(* left out, as are the CLI's optional COPILOT_REASONING_EFFORT,           *)
(* COPILOT_CONFIG_DIR, COPILOT_EXTRA_ARGS and COPILOT_ADDITIONAL_PATHS,    *)
(* which the snapshot keeps as it keeps COPILOT_MODEL.                     *)
(***************************************************************************)
EXTENDS Options, SequencesExt, FiniteSetsExt, Functions, Integers, TLC

CONSTANTS
  Documents,    \* the documents to begin with
  Requests,     \* what the web UI may ask for
  Secrets,      \* declared secrets
  MaxSteps      \* edits and secret changes

VARIABLES
  doc,          \* the document: url, flavor, key, prompt and the environments of its resources
  values,       \* the secret store
  made, snapshot, \* the document a CLI session was created from, and its launch snapshot
  launched,     \* the last launch: of what, from what, again or not, and its environment
  before, edit, \* the last edit of a record, and the document it found
  steps

valueVars == <<doc, values, made, snapshot, launched, before, edit, steps>>

\* the entries of f, and those of g that f does not have
f ?? g == [k \in DOMAIN f \cup DOMAIN g |-> IF k \in DOMAIN f THEN f[k] ELSE g[k]]
One(k, v) == [n \in {k} |-> v]

\* a string: quoted or not; the lines after its first are "KEY=VALUE" to a parser of lines
Str(text) == [text |-> text, quoted |-> FALSE, more |-> <<>>]
Empty == Str("")
Lit(string) == [lit |-> Some(string), ref |-> None]
Ref(secret) == [lit |-> None, ref |-> Some(secret)]
is_secret(v) == v.ref # None
literal_or_empty(v) == IF is_secret(v) THEN Empty ELSE Only(v.lit)

\* an environment is a map of values or text; a line of text has a key and a string, and no
\* key when it is blank or a comment
Env(map, text) == [map |-> map, text |-> text]
Line(key, string) == [key |-> key, string |-> string]

\* what the types of the document and its validation allow: never a map and a text
IsOption(o) == o = None \/ o = Some(Only(o))
IsValue(v) == \/ v.lit # None /\ v = Lit(Only(v.lit))
              \/ v.ref # None /\ v = Ref(Only(v.ref)) /\ Only(v.ref) \in Secrets
AreValues(map) == map = [k \in DOMAIN map |-> map[k]] /\ \A k \in DOMAIN map : IsValue(map[k])
IsEnv(env) == /\ env = Env(env.map, env.text) /\ IsOption(env.map) /\ IsOption(env.text)
              /\ env.map # None => env.text = None /\ AreValues(Only(env.map))
IsDocument(d) ==
  /\ d = [url |-> d.url, flavor |-> d.flavor, key |-> d.key, prompt |-> d.prompt,
          agentEnv |-> d.agentEnv, kernelEnv |-> d.kernelEnv, cliEnv |-> d.cliEnv,
          gatewayEnv |-> d.gatewayEnv, gatewaySecrets |-> d.gatewaySecrets]
  /\ IsValue(d.url) /\ IsValue(d.prompt)
  /\ IsOption(d.key) /\ (d.key # None => IsValue(Only(d.key)))
  /\ IsEnv(d.agentEnv) /\ IsEnv(d.gatewayEnv)
  /\ IsOption(d.kernelEnv) /\ (d.kernelEnv # None => IsEnv(Only(d.kernelEnv)))
  /\ IsOption(d.cliEnv) /\ (d.cliEnv # None => IsEnv(Only(d.cliEnv)))
  /\ AreValues(d.gatewaySecrets)

\* what a document has, the kernel configurations of acp and copilot-cli among them
Resources == {"agent", "connection", "gateway", "kernel", "cli"}

\* a request of one kind: what it names, a secret or none in place of the literal key
IsRequest(q) ==
  /\ q = [what |-> q.what, prompt |-> q.prompt, env |-> q.env, url |-> q.url, flavor |-> q.flavor,
          key |-> q.key, secret |-> q.secret, secrets |-> q.secrets]
  /\ q.what \in Resources
  /\ IsOption(q.prompt) /\ IsOption(q.env) /\ IsOption(q.url) /\ IsOption(q.flavor) /\ IsOption(q.key)
  /\ IsOption(q.secret) /\ IsOption(q.secrets)
  /\ q.secret # None => /\ q.key = None /\ IsOption(Only(q.secret))
                        /\ Only(q.secret) # None => Only(Only(q.secret)) \in Secrets
  /\ q.secrets # None => Only(q.secrets) = [k \in DOMAIN Only(q.secrets) |-> Only(q.secrets)[k]]
  /\ q.what \in {"kernel", "cli"} => q.env # None

ASSUME DocumentsAssumption == \A d \in Documents : IsDocument(d)
ASSUME RequestsAssumption == \A q \in Requests : IsRequest(q)

----------------------------------------------------------------------------
(* Environments as text.                                                    *)

KeyOrder == <<"AGENTSPACE_AGENT_ID", "B", "CONNECTION_API_FLAVOR", "CONNECTION_URL", "COPILOT_MODEL",
              "KERNEL_ACP_MODEL_NAME", "M">>
Keys(f) == SelectSeq(KeyOrder, LAMBDA k : k \in DOMAIN f)

\* the first line of a literal follows its key, the others stand on their own
env_to_text(env) ==
  LET lines(k) == LET v == Only(env.map)[k] IN
        IF is_secret(v) THEN <<>>
        ELSE <<Line(k, [Only(v.lit) EXCEPT !.more = <<>>])>> \o Only(v.lit).more
  IN  IF env.text # None THEN Only(env.text)
      ELSE IF env.map = None THEN <<>>
      ELSE FoldLeft(LAMBDA acc, k : acc \o lines(k), <<>>, Keys(Only(env.map)))

trim_matching_quotes(s) == [s EXCEPT !.quoted = FALSE]
parse_env_vars(lines) ==
  FoldLeft(LAMBDA env, l : IF l.key = "" THEN env ELSE One(l.key, trim_matching_quotes(l.string)) ?? env,
           <<>>, lines)

text_to_env(lines) == IF \A i \in DOMAIN lines : lines[i] = Line("", Empty) THEN None ELSE Some(lines)

----------------------------------------------------------------------------
(* Records and how they are merged back.                                    *)

\* Mutant: the flat text always replaces the environment.
merge_env_flat(env, lines) == Env(None, text_to_env(lines))
merge_env(env, lines) ==
  IF env_to_text(env) = lines THEN env ELSE Env(None, text_to_env(lines))

merge_required_value(v, string) == IF is_secret(v) /\ string = Empty THEN v ELSE Lit(string)

Literals(map) == [k \in {k \in DOMAIN map : ~is_secret(map[k])} |-> Only(map[k].lit)]
merge_gateway_secrets(map, incoming) ==
  IF Literals(map) = incoming THEN map
  ELSE [k \in DOMAIN incoming |-> Lit(incoming[k])]
         ?? [k \in {k \in DOMAIN map : is_secret(map[k])} |-> map[k]]

agent_to_record(d) == [prompt |-> literal_or_empty(d.prompt), env |-> env_to_text(d.agentEnv)]
patch_agent(d, r) == [d EXCEPT !.prompt = merge_required_value(@, r.prompt),
                               !.agentEnv = merge_env(@, r.env)]

connection_to_record(d) ==
  [url |-> literal_or_empty(d.url), flavor |-> d.flavor,
   key |-> IF d.key = None THEN Empty ELSE literal_or_empty(Only(d.key)),
   secret |-> IF d.key = None THEN None ELSE Only(d.key).ref]
\* a secret's name wins over a literal
connection_api_key_value(r) ==
  IF r.secret # None THEN Some(Ref(Only(r.secret)))
  ELSE IF r.key = Empty THEN None ELSE Some(Lit(r.key))
patch_connection(d, r) == [d EXCEPT !.url = merge_required_value(@, r.url), !.flavor = r.flavor,
                                    !.key = connection_api_key_value(r)]

gateway_to_record(d) == [env |-> env_to_text(d.gatewayEnv), secrets |-> Literals(d.gatewaySecrets)]
patch_gateway(d, r) == [d EXCEPT !.gatewayEnv = merge_env(@, r.env),
                                 !.gatewaySecrets = merge_gateway_secrets(@, r.secrets)]

\* a kernel's configuration may not be there yet
upsert_kernel_config(config, lines) ==
  Some(IF config = None THEN Env(None, text_to_env(lines)) ELSE merge_env(Only(config), lines))

----------------------------------------------------------------------------
(* Requests: what is not given stays as the record has it.                  *)

Given(o, x) == IF o = None THEN x ELSE Only(o)

update_agent(q) ==
  LET r == agent_to_record(doc)
  IN  patch_agent(doc, [r EXCEPT !.prompt = Given(q.prompt, @), !.env = Given(q.env, @)])

\* a literal and a secret are never both given; an empty one clears the key
apply_connection_api_key(r, q) ==
  IF q.secret # None THEN [r EXCEPT !.key = Empty, !.secret = Only(q.secret)]
  ELSE IF q.key # None THEN [r EXCEPT !.key = Only(q.key), !.secret = None]
  ELSE r
update_connection(q) ==
  LET r == connection_to_record(doc)
  IN  patch_connection(doc, apply_connection_api_key([r EXCEPT !.url = Given(q.url, @),
                                                              !.flavor = Given(q.flavor, @)], q))

update_gateway(q) ==
  LET r == gateway_to_record(doc)
  IN  patch_gateway(doc, [r EXCEPT !.env = Given(q.env, @), !.secrets = Given(q.secrets, <<>>) ?? @])

Edited(q) ==
  CASE q.what = "agent" -> update_agent(q)
    [] q.what = "connection" -> update_connection(q)
    [] q.what = "gateway" -> update_gateway(q)
    [] q.what = "kernel" -> [doc EXCEPT !.kernelEnv = upsert_kernel_config(@, Only(q.env))]
    [] q.what = "cli" -> [doc EXCEPT !.cliEnv = upsert_kernel_config(@, Only(q.env))]

\* what plan says of each resource
plan(current, next) ==
  LET fields == [agent |-> {"prompt", "agentEnv"}, connection |-> {"url", "flavor", "key"},
                 gateway |-> {"gatewayEnv", "gatewaySecrets"}, kernel |-> {"kernelEnv"}, cli |-> {"cliEnv"}]
  IN  [r \in DOMAIN fields |->
         IF \A f \in fields[r] : current[f] = next[f] THEN "no-op"
         ELSE IF \E f \in fields[r] : f \in {"kernelEnv", "cliEnv"} /\ current[f] = None THEN "create"
         ELSE "update"]

----------------------------------------------------------------------------
(* Resolution.                                                              *)

resolve_one(v) == IF is_secret(v) THEN values[Only(v.ref)] ELSE v.lit

\* the text's variables, then every entry of the map as it is
resolve_env(env) ==
  LET map == IF env.map = None THEN <<>> ELSE Only(env.map)
      known == {k \in DOMAIN map : resolve_one(map[k]) # None}
  IN  [k \in known |-> Only(resolve_one(map[k]))] ?? parse_env_vars(env_to_text(env))
Missing(env) == env.map # None /\ \E k \in DOMAIN Only(env.map) : resolve_one(Only(env.map)[k]) = None

Unset == Env(None, None)
KernelEnv(d) == IF d.kernelEnv = None THEN Unset ELSE Only(d.kernelEnv)
CliEnv(d) == IF d.cliEnv = None THEN Unset ELSE Only(d.cliEnv)

\* what the service says of itself: whose session it is, where client_service and its skills
\* are, and that a session which has run before is started again
insert_agentspace_api_env ==
  One("AGENTSPACE_SKILLS_API", Str("service/skills")) ?? One("AGENTSPACE_CLIENT_SERVICE_URL", Str("service"))
ServiceVars(recovery) ==
  insert_agentspace_api_env ?? One("AGENTSPACE_AGENT_ID", Str("agent"))
    ?? (IF recovery THEN One("AGENTSPACE_RUNTIME_RECOVERY", Str("1")) ELSE <<>>)

\* Mutant: the connection's variables win over the agent's.
Overlay_connection_last(own, prompt, agent, connection, kernel) ==
  own ?? prompt ?? connection ?? agent ?? kernel
Overlay(own, prompt, agent, connection, kernel) == own ?? prompt ?? agent ?? connection ?? kernel

Var(name, o) == IF o = None THEN <<>> ELSE One(name, Only(o))

\* the variables of the connection, and whether one of its secrets has no value
resolve_connection ==
  LET key == IF doc.key = None THEN None ELSE resolve_one(Only(doc.key))
  IN  [env     |-> Var("CONNECTION_URL", resolve_one(doc.url)) ?? One("CONNECTION_API_FLAVOR", doc.flavor)
                     ?? Var("CONNECTION_API_KEY", key),
       missing |-> resolve_one(doc.url) = None \/ (doc.key # None /\ key = None)]

resolve_agent_system_prompt == resolve_one(doc.prompt)

\* one map, each source over the one before: the kernel's variables, the connection's, the
\* agent's, the prompt and the service's own; all that is missing is found out before the
\* session is refused
session_env(recovery) ==
  LET prompt == resolve_agent_system_prompt
      missing == \/ Missing(KernelEnv(doc)) \/ Missing(doc.agentEnv)
                 \/ prompt = None \/ resolve_connection.missing
  IN  IF missing THEN None
      ELSE Some(Overlay(ServiceVars(recovery),
                        IF Only(prompt) = Empty THEN <<>> ELSE Var("KERNEL_SYSTEM_PROMPT", prompt),
                        resolve_env(doc.agentEnv), resolve_connection.env,
                        resolve_env(KernelEnv(doc))))

resolve_gateway_env ==
  LET secrets == Env(Some(doc.gatewaySecrets), None)
  IN  IF Missing(doc.gatewayEnv) \/ Missing(secrets) THEN None
      ELSE Some([k \in DOMAIN doc.gatewaySecrets |-> Only(resolve_one(doc.gatewaySecrets[k]))]
                  ?? resolve_env(doc.gatewayEnv))

----------------------------------------------------------------------------
(* The launch snapshot of a CLI session.                                    *)

\* where a variable's value comes from: a string, a secret or a field of the document
Source(string, secret, field) == [lit |-> string, ref |-> secret, field |-> field]

\* Mutant: what is a literal is looked up again at each launch.
launch_value_source_by_field(v, field, allowLiteral) ==
  IF is_secret(v) THEN Source(None, v.ref, None) ELSE Source(None, None, Some(field))
launch_value_source(v, field, allowLiteral) ==
  IF is_secret(v) THEN Source(None, v.ref, None)
  ELSE IF allowLiteral THEN Source(v.lit, None, None)
  ELSE Source(None, None, Some(field))

config_env_sources(env) ==
  LET text == IF env.text = None THEN <<>> ELSE parse_env_vars(Only(env.text))
      map == IF env.map = None THEN <<>> ELSE Only(env.map)
  IN  [k \in DOMAIN map |-> launch_value_source(map[k], "env", TRUE)]
        ?? [k \in DOMAIN text |-> Source(Some(text[k]), None, None)]

\* the agent's harness has its own name for the model, which stands in for COPILOT_MODEL
cli_launch_snapshot ==
  LET env == config_env_sources(doc.agentEnv) ?? config_env_sources(CliEnv(doc))
      var(name, key) == IF key \in DOMAIN env THEN One(name, env[key]) ELSE <<>>
  IN  One("CONNECTION_URL", launch_value_source(doc.url, "url", TRUE))
        ?? One("CONNECTION_API_FLAVOR", Source(Some(doc.flavor), None, None))
        ?? (IF doc.key = None THEN <<>>
            ELSE One("CONNECTION_API_KEY", launch_value_source(Only(doc.key), "key", FALSE)))
        ?? (IF doc.prompt = Lit(Empty) THEN <<>>
            ELSE One("KERNEL_SYSTEM_PROMPT", launch_value_source(doc.prompt, "prompt", TRUE)))
        ?? var("COPILOT_MODEL", "COPILOT_MODEL") ?? var("COPILOT_MODEL", "KERNEL_ACP_MODEL_NAME")

resolve_launch_value(s) ==
  IF s.lit # None THEN s.lit
  ELSE IF s.ref # None THEN values[Only(s.ref)]
  ELSE CASE Only(s.field) = "url" -> resolve_one(doc.url)
         [] Only(s.field) = "key" -> IF doc.key = None THEN None ELSE resolve_one(Only(doc.key))
         [] Only(s.field) = "prompt" -> resolve_one(doc.prompt)
         [] OTHER -> None

\* the snapshot's variables over the service's own and the session's identity
CliVars(recovery) == One("KERNEL_SESSION_ID", Str("session")) ?? ServiceVars(recovery)
cli_runtime_launch(recovery) ==
  LET s == Only(snapshot)
  IN  IF \E k \in DOMAIN s : resolve_launch_value(s[k]) = None THEN None
      ELSE Some([k \in DOMAIN s |-> Only(resolve_launch_value(s[k]))] ?? CliVars(recovery))

----------------------------------------------------------------------------
(* Actions.                                                                 *)

NoEdit == [what |-> "nothing", prompt |-> None, env |-> None, url |-> None, flavor |-> None, key |-> None,
           secret |-> None, secrets |-> None]
NotLaunched == [what |-> "nothing", from |-> None, with |-> <<>>, recovery |-> FALSE, env |-> None]

ValuesBegin(written) ==
  /\ doc = written /\ values = [s \in Secrets |-> Some(Str("v"))]
  /\ made = None /\ snapshot = None /\ launched = NotLaunched
  /\ before = doc /\ edit = NoEdit /\ steps = 0
ValuesInit == \E written \in Documents : ValuesBegin(written)

Edit(q) ==
  /\ steps < MaxSteps /\ steps' = steps + 1
  /\ doc' = Edited(q) /\ before' = doc /\ edit' = q
  /\ launched' = NotLaunched
  /\ UNCHANGED <<values, made, snapshot>>

\* a secret is set to a new value, or cleared
SetSecret(s) ==
  /\ steps < MaxSteps /\ steps' = steps + 1
  /\ \E v \in {None, Some(Str("w"))} : values' = [values EXCEPT ![s] = v]
  /\ launched' = NotLaunched
  /\ UNCHANGED <<doc, made, snapshot, before, edit>>

CreateCli ==
  /\ snapshot = None
  /\ snapshot' = Some(cli_launch_snapshot) /\ made' = Some(doc)
  /\ UNCHANGED <<doc, values, launched, before, edit, steps>>

Launched(what, recovery, env) ==
  /\ launched.what = "nothing"
  /\ launched' = [what |-> what, from |-> Some(doc), with |-> values, recovery |-> recovery, env |-> env]
  /\ UNCHANGED <<doc, values, made, snapshot, before, edit, steps>>

\* a session may have run before
LaunchCli == snapshot # None /\ \E recovery \in BOOLEAN : Launched("cli", recovery, cli_runtime_launch(recovery))
StartChat == \E recovery \in BOOLEAN : Launched("chat", recovery, session_env(recovery))
StartGateway == Launched("gateway", FALSE, resolve_gateway_env)

ValuesNext ==
  \/ \E q \in Requests : Edit(q)
  \/ \E s \in Secrets : SetSecret(s)
  \/ CreateCli \/ LaunchCli \/ StartChat \/ StartGateway

ValuesSpec == ValuesInit /\ [][ValuesNext]_valueVars

----------------------------------------------------------------------------
(* Properties.                                                              *)

Shows(given, shown, was) ==
  given # None => \/ shown = Only(given)
                  \/ is_secret(was) /\ Only(given) = Empty
ShowsEnv(given, env, was) ==
  IF given = None THEN env = was
  ELSE env_to_text(env) = Only(given) \/ (text_to_env(Only(given)) = None /\ env_to_text(env) = <<>>)

\* An edit of one record through the web UI, which cannot show a secretRef or a structured
\* environment, changes what it names and nothing else: every field it leaves out is the
\* same afterwards, secretRefs and structure included, the record then shows what was
\* asked for (an empty string leaves a secretRef in place), a gateway keeps the secretRefs
\* of every key the request does not name, and plan reports no other resource.
EditChangesOnlyIt ==
  edit.what # "nothing" =>
    /\ \A r \in Resources \ {edit.what} : plan(before, doc)[r] = "no-op"
    /\ edit.what = "agent" =>
         /\ edit.prompt = None => doc.prompt = before.prompt
         /\ Shows(edit.prompt, literal_or_empty(doc.prompt), before.prompt)
         /\ ShowsEnv(edit.env, doc.agentEnv, before.agentEnv)
    /\ edit.what = "connection" =>
         /\ edit.url = None => doc.url = before.url
         /\ Shows(edit.url, literal_or_empty(doc.url), before.url)
         /\ doc.flavor = Given(edit.flavor, before.flavor)
         /\ (edit.key = None /\ edit.secret = None) =>
              (doc.key = before.key \/ (before.key = Some(Lit(Empty)) /\ doc.key = None))
         /\ edit.secret # None => connection_to_record(doc).secret = Only(edit.secret)
    /\ edit.what = "gateway" =>
         /\ ShowsEnv(edit.env, doc.gatewayEnv, before.gatewayEnv)
         /\ \A k \in DOMAIN before.gatewaySecrets :
              (edit.secrets = None \/ k \notin DOMAIN Only(edit.secrets))
                => doc.gatewaySecrets[k] = before.gatewaySecrets[k]
         /\ edit.secrets # None => \A k \in DOMAIN Only(edit.secrets) :
              doc.gatewaySecrets[k] = Lit(Only(edit.secrets)[k])

\* a value under a secret store
Under(v, store) == IF is_secret(v) THEN store[Only(v.ref)] ELSE v.lit
\* the strings a text writes: for each key the last of its lines says it
Strings(lines) ==
  LET last(k) == lines[Max({i \in DOMAIN lines : lines[i].key = k})].string
  IN  [k \in {lines[i].key : i \in DOMAIN lines} \ {""} |-> [last(k) EXCEPT !.quoted = FALSE]]
\* the values an environment writes, by key
Written(env) ==
  IF env.map # None THEN Only(env.map)
  ELSE LET said == Strings(IF env.text = None THEN <<>> ELSE Only(env.text))
       IN  [k \in DOMAIN said |-> Lit(said[k])]
OneLine(env) == env.map = None \/ \A k \in DOMAIN Only(env.map) :
                  is_secret(Only(env.map)[k]) \/ Only(Only(env.map)[k].lit).more = <<>>

\* the environments that documents begin with, and the texts they may come to have
Envs == {d.agentEnv : d \in Documents} \cup {d.gatewayEnv : d \in Documents}
          \cup (UNION {Range(d.kernelEnv) \cup Range(d.cliEnv) : d \in Documents})
EnvTexts == {<<>>} \cup (UNION {Range(e.text) : e \in Envs}) \cup (UNION {Range(q.env) : q \in Requests})
\* what the parser of lines makes of them, line after line
ASSUME ParseAssumption ==
  /\ \A t \in EnvTexts : parse_env_vars(t) = Strings(t)
  /\ \A e \in Envs : (e.map # None /\ OneLine(e)) =>
       DOMAIN parse_env_vars(env_to_text(e)) \subseteq {k \in DOMAIN Only(e.map) : ~is_secret(Only(e.map)[k])}

\* variables whose values are the service's
Fixed(vars) == [k \in DOMAIN vars |-> Lit(vars[k])]

\* A CLI session is launched, however often and whatever was edited since, with what the
\* document said when the session was created: literals and the connection's flavor as they
\* were then, secrets by the names they had then and the values they have now; only a
\* literal API key, which the snapshot never holds, is read from the document of the moment.
\* Beside them it has the service's own variables and its identity, and no other.  The
\* launch fails exactly when a value is missing.
LaunchIsFrozen ==
  launched.what = "cli" =>
    LET d == Only(made)
        env == Written(d.agentEnv) ?? Written(CliEnv(d))
        own == CliVars(launched.recovery)
        key == IF is_secret(Only(d.key)) THEN d.key ELSE Only(launched.from).key
        model == IF "COPILOT_MODEL" \in DOMAIN env THEN <<"COPILOT_MODEL">>
                 ELSE IF "KERNEL_ACP_MODEL_NAME" \in DOMAIN env THEN <<"KERNEL_ACP_MODEL_NAME">> ELSE <<>>
        wants == {<<"CONNECTION_URL", Under(d.url, launched.with)>>, <<"CONNECTION_API_FLAVOR", Some(d.flavor)>>}
                   \cup (IF d.key = None THEN {} ELSE
                        {<<"CONNECTION_API_KEY", IF key = None THEN None ELSE Under(Only(key), launched.with)>>})
                   \cup (IF d.prompt = Lit(Empty) THEN {} ELSE
                        {<<"KERNEL_SYSTEM_PROMPT", Under(d.prompt, launched.with)>>})
                   \cup (IF model = <<>> THEN {} ELSE
                        {<<"COPILOT_MODEL", Under(env[model[1]], launched.with)>>})
    IN  /\ \A k \in DOMAIN Only(snapshot) : k = "CONNECTION_API_KEY" => Only(snapshot)[k].lit = None
        /\ IF launched.env = None THEN \E w \in wants : w[2] = None
           ELSE wants \cup {<<k, Some(own[k])>> : k \in DOMAIN own} =
                  {<<k, Some(Only(launched.env)[k])>> : k \in DOMAIN Only(launched.env)}

\* What client_service asks agent_host to start a chat session or a gateway with is what the
\* document says at that moment.  A chat session has for each name the service's own value
\* where it has one, whatever the document writes under that name (the agent's id, the two
\* addresses, the flag of a session that has run before); else the system prompt, unless it
\* is empty, the agent's value, the connection's (its url, its flavor, which is always
\* there, its key) and the kernel's, in this order.  A gateway has its secrets, else its
\* environment.  Each of these is exactly as written, there is no other variable, and
\* nothing is started when any secret that is named has no value, one that is overridden
\* included.  (A literal of several lines in a structured environment is the exception: its
\* later lines become variables of their own.)
StartedAsWritten ==
  LET d == Only(launched.from)
      store == launched.with
      prompt == IF Under(d.prompt, store) \in {None, Some(Empty)} THEN <<>>
                ELSE One("KERNEL_SYSTEM_PROMPT", d.prompt)
      chat == Fixed(ServiceVars(launched.recovery)) ?? prompt ?? Written(d.agentEnv)
                ?? One("CONNECTION_URL", d.url) ?? One("CONNECTION_API_FLAVOR", Lit(d.flavor))
                ?? (IF d.key = None THEN <<>> ELSE One("CONNECTION_API_KEY", Only(d.key)))
                ?? Written(KernelEnv(d))
      gateway == d.gatewaySecrets ?? Written(d.gatewayEnv)
      Named(maps) == UNION {{m[k] : k \in DOMAIN m} : m \in maps}
      Match(want, named) ==
        IF launched.env = None THEN \E v \in named : Under(v, store) = None
        ELSE /\ \A v \in named : Under(v, store) # None
             /\ LET got == Only(launched.env)
                IN  /\ DOMAIN got = DOMAIN want
                    /\ \A k \in DOMAIN got : Some(got[k]) = Under(want[k], store)
  IN  /\ (launched.what = "chat" /\ OneLine(d.agentEnv) /\ OneLine(KernelEnv(d))) =>
           Match(chat, Named({Written(d.agentEnv), Written(KernelEnv(d))}) \cup {d.url, d.prompt}
                         \cup (IF d.key = None THEN {} ELSE {Only(d.key)}))
      /\ (launched.what = "gateway" /\ OneLine(d.gatewayEnv)) =>
           Match(gateway, Named({d.gatewaySecrets, Written(d.gatewayEnv)}))
=============================================================================
