----------------------------- MODULE Data_proofs -----------------------------
(***************************************************************************)
(* What ConfigValues, Workspaces and EventPipe promise, for all values of  *)
(* their constants.                                                        *)
(*                                                                         *)
(* ConfigValues: whatever is edited, an edit changes what it names; a CLI  *)
(* session is launched from what the document said when it was created, a  *)
(* chat session and a gateway from what it says now.  Every environment of *)
(* a document is one that it began with or the text of a request, so that  *)
(* what the parser makes of it is known (ParseAssumption); the snapshot of *)
(* a CLI session is that of the document it was created from (MadeInv).    *)
(*                                                                         *)
(* Workspaces: no half copy is offered as ready, no deleted row comes back *)
(* by a late write, no request takes a running editor away.  A row that    *)
(* came with a copy names the request that made it, and until its row is   *)
(* deleted under it that request alone writes the volume: so a workspace   *)
(* that is whole stays whole, and whoever holds its record and says        *)
(* "ready" says so of a whole one.                                         *)
(*                                                                         *)
(* EventPipe: next_event returns the kernel's events in order, each once,  *)
(* and says "done" only after all of them.  There is always a number k of  *)
(* lines that agent_host has relayed, and a list r of the events it made   *)
(* of them, such that the buffer and the wire of either hop hold exactly   *)
(* the lines that are left, short of what a break took away (PipeInv).     *)
(***************************************************************************)
EXTENDS ConfigValues, EventPipe, Workspaces, SequenceTheorems, TLAPS


----------------------------------------------------------------------------
(* ConfigValues: options, values and environments.                         *)

LEMMA OptionFacts ==
  ASSUME NEW x
  PROVE  /\ Some(x) # None /\ Only(Some(x)) = x /\ IsOption(Some(x)) /\ IsOption(None)
BY DEF Some, None, Only, IsOption

LEMMA NoKeys == DOMAIN <<>> = {}
OBVIOUS

LEMMA LiteralFacts ==
  ASSUME NEW s
  PROVE  /\ IsValue(Lit(s)) /\ ~is_secret(Lit(s)) /\ literal_or_empty(Lit(s)) = s
         /\ Lit(s).lit = Some(s) /\ Lit(s).ref = None
BY OptionFacts DEF Lit, IsValue, is_secret, literal_or_empty

LEMMA SecretFacts ==
  ASSUME NEW s
  PROVE  /\ is_secret(Ref(s)) /\ literal_or_empty(Ref(s)) = Empty /\ (s \in Secrets => IsValue(Ref(s)))
         /\ Ref(s).lit = None /\ Ref(s).ref = Some(s)
BY OptionFacts DEF Ref, IsValue, is_secret, literal_or_empty

LEMMA LiteralIs ==
  ASSUME NEW v, IsValue(v), ~is_secret(v)
  PROVE  v = Lit(Only(v.lit))
BY DEF IsValue, is_secret

LEMMA TextIsEnv ==
  ASSUME NEW lines
  PROVE  /\ IsEnv(Env(None, text_to_env(lines)))
         /\ Env(None, text_to_env(lines)).map = None
         /\ Env(None, text_to_env(lines)).text = text_to_env(lines)
         /\ \/ env_to_text(Env(None, text_to_env(lines))) = lines
            \/ text_to_env(lines) = None /\ env_to_text(Env(None, text_to_env(lines))) = <<>>
<1> DEFINE t == text_to_env(lines)
<1>1. t = None \/ t = Some(lines)
  BY DEF text_to_env
<1>2. IsOption(t) /\ IsOption(None)
  BY <1>1, OptionFacts
<1>3. /\ Env(None, t).map = None /\ Env(None, t).text = t /\ IsEnv(Env(None, t))
  BY <1>2 DEF Env, IsEnv
<1>4. CASE t = None
  BY <1>3, <1>4 DEF env_to_text
<1>5. CASE t = Some(lines)
  BY <1>3, <1>5, OptionFacts DEF env_to_text
<1> QED BY <1>1, <1>3, <1>4, <1>5

LEMMA Merged ==
  ASSUME NEW env, IsEnv(env), NEW lines
  PROVE  /\ IsEnv(merge_env(env, lines))
         /\ merge_env(env, lines) = env \/ merge_env(env, lines) = Env(None, text_to_env(lines))
         /\ lines = env_to_text(env) => merge_env(env, lines) = env
         /\ \/ env_to_text(merge_env(env, lines)) = lines
            \/ text_to_env(lines) = None /\ env_to_text(merge_env(env, lines)) = <<>>
BY TextIsEnv DEF merge_env

LEMMA MergedValue ==
  ASSUME NEW v, IsValue(v), NEW string
  PROVE  /\ IsValue(merge_required_value(v, string))
         /\ string = literal_or_empty(v) => merge_required_value(v, string) = v
         /\ \/ literal_or_empty(merge_required_value(v, string)) = string
            \/ is_secret(v) /\ string = Empty
<1>1. CASE is_secret(v) /\ string = Empty
  BY <1>1 DEF merge_required_value
<1>2. CASE ~(is_secret(v) /\ string = Empty)
  <2>1. merge_required_value(v, string) = Lit(string)
    BY <1>2 DEF merge_required_value
  <2>2. ASSUME string = literal_or_empty(v) PROVE Lit(string) = v
    BY <1>2, <2>2, LiteralIs DEF literal_or_empty
  <2> QED BY <2>1, <2>2, LiteralFacts
<1> QED BY <1>1, <1>2

LEMMA MergedSecrets ==
  ASSUME NEW map, AreValues(map), NEW named,
         NEW incoming, incoming = named ?? Literals(map)
  PROVE  LET new == merge_gateway_secrets(map, incoming)
         IN  /\ AreValues(new)
             /\ \A k \in DOMAIN map : k \notin DOMAIN named => k \in DOMAIN new /\ new[k] = map[k]
             /\ \A k \in DOMAIN named : k \in DOMAIN new /\ new[k] = Lit(named[k])
<1> DEFINE new == merge_gateway_secrets(map, incoming)
           literal == {k \in DOMAIN map : ~is_secret(map[k])}
           refs == {k \in DOMAIN map : is_secret(map[k])}
<1>1. /\ DOMAIN Literals(map) = literal
      /\ \A k \in literal : Literals(map)[k] = Only(map[k].lit) /\ map[k] = Lit(Literals(map)[k])
  BY LiteralIs DEF Literals, AreValues
<1>2. /\ DOMAIN incoming = DOMAIN named \cup literal
      /\ \A k \in DOMAIN named : incoming[k] = named[k]
      /\ \A k \in literal \ DOMAIN named : incoming[k] = Literals(map)[k]
  <2>1. /\ DOMAIN incoming = DOMAIN named \cup DOMAIN Literals(map)
        /\ \A k \in DOMAIN named : incoming[k] = named[k]
        /\ \A k \in DOMAIN Literals(map) \ DOMAIN named : incoming[k] = Literals(map)[k]
    BY DEF ??
  <2> QED BY <2>1, <1>1
<1>3. CASE Literals(map) = incoming
  <2>1. new = map
    BY <1>3 DEF merge_gateway_secrets
  <2>2. \A k \in DOMAIN named : k \in literal /\ map[k] = Lit(named[k])
    BY <1>1, <1>2, <1>3
  <2> QED BY <2>1, <2>2
<1>4. CASE Literals(map) # incoming
  <2> DEFINE a == [k \in DOMAIN incoming |-> Lit(incoming[k])]
             b == [k \in refs |-> map[k]]
  <2>1. new = a ?? b
    BY <1>4 DEF merge_gateway_secrets
  <2>2. /\ DOMAIN new = DOMAIN incoming \cup refs
        /\ new = [k \in DOMAIN new |-> new[k]]
        /\ \A k \in DOMAIN incoming : new[k] = Lit(incoming[k])
        /\ \A k \in refs \ DOMAIN incoming : new[k] = map[k]
    <3>1. DOMAIN a = DOMAIN incoming /\ DOMAIN b = refs
      OBVIOUS
    <3> HIDE DEF a, b
    <3>2. /\ DOMAIN new = DOMAIN a \cup DOMAIN b
          /\ new = [k \in DOMAIN new |-> new[k]]
          /\ \A k \in DOMAIN a : new[k] = a[k]
          /\ \A k \in DOMAIN b \ DOMAIN a : new[k] = b[k]
      BY <2>1 DEF ??
    <3> QED BY <3>1, <3>2 DEF a, b
  <2>3. \A k \in DOMAIN new : IsValue(new[k])
    BY <2>2, LiteralFacts DEF AreValues
  <2>4. \A k \in DOMAIN map : k \notin DOMAIN named => k \in DOMAIN new /\ new[k] = map[k]
    <3> SUFFICES ASSUME NEW k \in DOMAIN map, k \notin DOMAIN named
                 PROVE  k \in DOMAIN new /\ new[k] = map[k]
      OBVIOUS
    <3>1. CASE k \in literal
      BY <3>1, <1>1, <1>2, <2>2
    <3>2. CASE k \in refs
      BY <3>2, <1>2, <2>2
    <3> QED BY <3>1, <3>2
  <2>5. \A k \in DOMAIN named : k \in DOMAIN new /\ new[k] = Lit(named[k])
    BY <1>2, <2>2
  <2> QED BY <2>2, <2>3, <2>4, <2>5 DEF AreValues
<1> QED BY <1>3, <1>4


----------------------------------------------------------------------------
(* ConfigValues: what each route makes of the document.                    *)

LEMMA Fields ==
  ASSUME NEW d, IsDocument(d)
  PROVE  DOMAIN d = {"url", "flavor", "key", "prompt", "agentEnv", "kernelEnv", "cliEnv", "gatewayEnv",
                     "gatewaySecrets"}
BY DEF IsDocument

LEMMA AgentEdited ==
  ASSUME IsDocument(doc), NEW q, IsRequest(q)
  PROVE  LET d == update_agent(q)
         IN  /\ IsDocument(d)
             /\ \A f \in {"url", "flavor", "key", "kernelEnv", "cliEnv", "gatewayEnv", "gatewaySecrets"} : d[f] = doc[f]
             /\ q.prompt = None => d.prompt = doc.prompt
             /\ Shows(q.prompt, literal_or_empty(d.prompt), doc.prompt)
             /\ ShowsEnv(q.env, d.agentEnv, doc.agentEnv)
             /\ \/ d.agentEnv = doc.agentEnv
                \/ q.env # None /\ d.agentEnv = Env(None, text_to_env(Only(q.env)))
<1> DEFINE was == agent_to_record(doc)
           prompt == Given(q.prompt, was.prompt)
           env == Given(q.env, was.env)
           d == update_agent(q)
<1>1. /\ IsValue(doc.prompt) /\ IsEnv(doc.agentEnv) /\ IsOption(q.prompt) /\ IsOption(q.env)
  BY DEF IsDocument, IsRequest
<1>2. was.prompt = literal_or_empty(doc.prompt) /\ was.env = env_to_text(doc.agentEnv)
  BY DEF agent_to_record
<1>3. /\ d = [doc EXCEPT !.prompt = merge_required_value(@, prompt), !.agentEnv = merge_env(@, env)]
  BY DEF update_agent, patch_agent, agent_to_record
<1>4. /\ d.prompt = merge_required_value(doc.prompt, prompt) /\ d.agentEnv = merge_env(doc.agentEnv, env)
      /\ \A f \in {"url", "flavor", "key", "kernelEnv", "cliEnv", "gatewayEnv", "gatewaySecrets"} : d[f] = doc[f]
      /\ DOMAIN d = DOMAIN doc
  BY <1>3, Fields
<1>5. IsValue(d.prompt) /\ IsEnv(d.agentEnv)
  BY <1>1, <1>4, Merged, MergedValue
<1>6. d = [url |-> d.url, flavor |-> d.flavor, key |-> d.key, prompt |-> d.prompt,
           agentEnv |-> d.agentEnv, kernelEnv |-> d.kernelEnv, cliEnv |-> d.cliEnv,
           gatewayEnv |-> d.gatewayEnv, gatewaySecrets |-> d.gatewaySecrets]
  BY <1>3, Fields
<1>7. IsDocument(d)
  <2> HIDE DEF d
  <2> QED BY <1>4, <1>5, <1>6 DEF IsDocument
<1>8. q.prompt = None => d.prompt = doc.prompt
  BY <1>1, <1>2, <1>4, MergedValue DEF Given
<1>9. Shows(q.prompt, literal_or_empty(d.prompt), doc.prompt)
  BY <1>1, <1>2, <1>4, MergedValue DEF Given, Shows
<1>10. ShowsEnv(q.env, d.agentEnv, doc.agentEnv)
  BY <1>1, <1>2, <1>4, Merged DEF Given, ShowsEnv
<1>11. \/ d.agentEnv = doc.agentEnv
       \/ q.env # None /\ d.agentEnv = Env(None, text_to_env(Only(q.env)))
  <2>1. CASE q.env = None
    BY <2>1, <1>1, <1>2, <1>4, Merged DEF Given
  <2>2. CASE q.env # None
    <3>1. env = Only(q.env)
      BY <2>2 DEF Given
    <3> QED BY <2>2, <3>1, <1>1, <1>4, Merged
  <2> QED BY <2>1, <2>2
<1> HIDE DEF d
<1> QED BY <1>4, <1>7, <1>8, <1>9, <1>10, <1>11 DEF d

LEMMA ConnectionEdited ==
  ASSUME IsDocument(doc), NEW q, IsRequest(q)
  PROVE  LET d == update_connection(q)
         IN  /\ IsDocument(d)
             /\ \A f \in {"prompt", "agentEnv", "kernelEnv", "cliEnv", "gatewayEnv", "gatewaySecrets"} : d[f] = doc[f]
             /\ q.url = None => d.url = doc.url
             /\ Shows(q.url, literal_or_empty(d.url), doc.url)
             /\ d.flavor = Given(q.flavor, doc.flavor)
             /\ (q.key = None /\ q.secret = None) =>
                  (d.key = doc.key \/ (doc.key = Some(Lit(Empty)) /\ d.key = None))
             /\ q.secret # None => connection_to_record(d).secret = Only(q.secret)
<1> DEFINE was == connection_to_record(doc)
           url == Given(q.url, was.url)
           flavor == Given(q.flavor, was.flavor)
           asked == apply_connection_api_key([was EXCEPT !.url = url, !.flavor = flavor], q)
           d == update_connection(q)
<1>1. /\ IsValue(doc.url) /\ IsOption(doc.key) /\ (doc.key # None => IsValue(Only(doc.key)))
      /\ IsOption(q.url) /\ IsOption(q.key) /\ IsOption(q.secret)
      /\ q.secret # None => /\ q.key = None /\ IsOption(Only(q.secret))
                            /\ Only(q.secret) # None => Only(Only(q.secret)) \in Secrets
  BY DEF IsDocument, IsRequest
<1>2. /\ was.url = literal_or_empty(doc.url)
      /\ was.key = IF doc.key = None THEN Empty ELSE literal_or_empty(Only(doc.key))
      /\ was.secret = IF doc.key = None THEN None ELSE Only(doc.key).ref
      /\ was.flavor = doc.flavor /\ DOMAIN was = {"url", "flavor", "key", "secret"}
  BY DEF connection_to_record
<1>3. /\ asked.url = url /\ asked.flavor = flavor
      /\ q.secret # None => asked.key = Empty /\ asked.secret = Only(q.secret)
      /\ (q.secret = None /\ q.key # None) => asked.key = Only(q.key) /\ asked.secret = None
      /\ (q.secret = None /\ q.key = None) => asked.key = was.key /\ asked.secret = was.secret
  <2> HIDE DEF was, url, flavor
  <2> QED BY <1>2 DEF apply_connection_api_key
<1>4. d = [doc EXCEPT !.url = merge_required_value(@, asked.url), !.flavor = asked.flavor,
                      !.key = connection_api_key_value(asked)]
  BY DEF update_connection, patch_connection
<1> HIDE DEF asked, was
<1>5. /\ d.url = merge_required_value(doc.url, url) /\ d.key = connection_api_key_value(asked)
      /\ d.flavor = Given(q.flavor, doc.flavor)
      /\ \A f \in {"prompt", "agentEnv", "kernelEnv", "cliEnv", "gatewayEnv", "gatewaySecrets"} : d[f] = doc[f]
      /\ DOMAIN d = DOMAIN doc
  BY <1>2, <1>3, <1>4, Fields
<1>6. /\ asked.secret # None => d.key = Some(Ref(Only(asked.secret)))
      /\ (asked.secret = None /\ asked.key = Empty) => d.key = None
      /\ (asked.secret = None /\ asked.key # Empty) => d.key = Some(Lit(asked.key))
  BY <1>5 DEF connection_api_key_value
<1>7. (q.key = None /\ q.secret = None) =>
        (d.key = doc.key \/ (doc.key = Some(Lit(Empty)) /\ d.key = None))
  <2> SUFFICES ASSUME q.key = None, q.secret = None
               PROVE  d.key = doc.key \/ (doc.key = Some(Lit(Empty)) /\ d.key = None)
    OBVIOUS
  <2>1. CASE doc.key = None
    BY <2>1, <1>2, <1>3, <1>6
  <2>2. CASE doc.key # None
    <3> DEFINE v == Only(doc.key)
    <3>1. IsValue(v) /\ doc.key = Some(v)
      BY <1>1, <2>2 DEF IsOption
    <3>2. asked.secret = v.ref /\ asked.key = literal_or_empty(v)
      BY <1>2, <1>3, <2>2
    <3> HIDE DEF v
    <3>3. CASE is_secret(v)
      <4>1. v = Ref(Only(v.ref)) /\ asked.secret # None
        BY <3>1, <3>2, <3>3, LiteralFacts DEF IsValue, is_secret
      <4> QED BY <4>1, <3>1, <3>2, <1>6
    <3>4. CASE ~is_secret(v)
      <4>1. v = Lit(Only(v.lit)) /\ asked.secret = None /\ asked.key = Only(v.lit)
        BY <3>1, <3>2, <3>4, LiteralIs DEF is_secret, literal_or_empty
      <4> QED BY <4>1, <3>1, <1>6
    <3> QED BY <3>3, <3>4
  <2> QED BY <2>1, <2>2
<1>8. /\ IsOption(d.key) /\ (d.key # None => IsValue(Only(d.key)))
      /\ q.secret # None => connection_to_record(d).secret = Only(q.secret)
  <2>1. connection_to_record(d).secret = IF d.key = None THEN None ELSE Only(d.key).ref
    BY DEF connection_to_record
  <2>2. CASE q.secret # None
    <3>1. CASE Only(q.secret) = None
      <4>1. d.key = None
        BY <2>2, <3>1, <1>3, <1>6
      <4> QED BY <4>1, <3>1, <2>1, OptionFacts
    <3>2. CASE Only(q.secret) # None
      <4> DEFINE s == Only(Only(q.secret))
      <4>1. d.key = Some(Ref(s)) /\ Only(q.secret) = Some(s) /\ s \in Secrets
        BY <2>2, <3>2, <1>1, <1>3, <1>6 DEF IsOption
      <4> HIDE DEF s
      <4>2. d.key # None /\ Only(d.key) = Ref(s) /\ IsOption(d.key)
        BY <4>1, OptionFacts
      <4> QED BY <4>1, <4>2, <2>1, SecretFacts
    <3> QED BY <3>1, <3>2
  <2>3. CASE q.secret = None
    <3>1. CASE q.key # None
      <4>1. d.key = None \/ d.key = Some(Lit(asked.key))
        BY <2>3, <3>1, <1>3, <1>6
      <4> QED BY <4>1, <2>3, OptionFacts, LiteralFacts
    <3>2. CASE q.key = None
      <4>1. d.key = doc.key \/ d.key = None
        BY <2>3, <3>2, <1>7
      <4> QED BY <4>1, <2>3, <1>1, OptionFacts
    <3> QED BY <3>1, <3>2
  <2> QED BY <2>2, <2>3
<1>9. /\ IsValue(d.url) /\ (q.url = None => d.url = doc.url)
      /\ Shows(q.url, literal_or_empty(d.url), doc.url)
  BY <1>1, <1>2, <1>5, MergedValue DEF Given, Shows
<1>10. d = [url |-> d.url, flavor |-> d.flavor, key |-> d.key, prompt |-> d.prompt,
            agentEnv |-> d.agentEnv, kernelEnv |-> d.kernelEnv, cliEnv |-> d.cliEnv,
            gatewayEnv |-> d.gatewayEnv, gatewaySecrets |-> d.gatewaySecrets]
  BY <1>4, Fields
<1> HIDE DEF d
<1>11. IsDocument(d)
  BY <1>5, <1>8, <1>9, <1>10 DEF IsDocument
<1> QED BY <1>5, <1>7, <1>8, <1>9, <1>11 DEF d

LEMMA GatewayEdited ==
  ASSUME IsDocument(doc), NEW q, IsRequest(q)
  PROVE  LET d == update_gateway(q)
         IN  /\ IsDocument(d)
             /\ \A f \in {"url", "flavor", "key", "prompt", "agentEnv", "kernelEnv", "cliEnv"} : d[f] = doc[f]
             /\ ShowsEnv(q.env, d.gatewayEnv, doc.gatewayEnv)
             /\ \A k \in DOMAIN doc.gatewaySecrets :
                  (q.secrets = None \/ k \notin DOMAIN Only(q.secrets))
                    => d.gatewaySecrets[k] = doc.gatewaySecrets[k]
             /\ q.secrets # None => \A k \in DOMAIN Only(q.secrets) :
                  d.gatewaySecrets[k] = Lit(Only(q.secrets)[k])
             /\ \/ d.gatewayEnv = doc.gatewayEnv
                \/ q.env # None /\ d.gatewayEnv = Env(None, text_to_env(Only(q.env)))
<1> DEFINE was == gateway_to_record(doc)
           env == Given(q.env, was.env)
           named == Given(q.secrets, <<>>)
           secrets == named ?? was.secrets
           d == update_gateway(q)
<1>1. /\ IsEnv(doc.gatewayEnv) /\ AreValues(doc.gatewaySecrets) /\ IsOption(q.env)
  BY DEF IsDocument, IsRequest
<1>2. was.env = env_to_text(doc.gatewayEnv) /\ was.secrets = Literals(doc.gatewaySecrets)
  BY DEF gateway_to_record
<1>3. d = [doc EXCEPT !.gatewayEnv = merge_env(@, env), !.gatewaySecrets = merge_gateway_secrets(@, secrets)]
  BY DEF update_gateway, patch_gateway, gateway_to_record
<1> HIDE DEF was, secrets
<1>4. /\ d.gatewayEnv = merge_env(doc.gatewayEnv, env)
      /\ d.gatewaySecrets = merge_gateway_secrets(doc.gatewaySecrets, secrets)
      /\ \A f \in {"url", "flavor", "key", "prompt", "agentEnv", "kernelEnv", "cliEnv"} : d[f] = doc[f]
      /\ DOMAIN d = DOMAIN doc
  BY <1>3, Fields
<1>5. d = [url |-> d.url, flavor |-> d.flavor, key |-> d.key, prompt |-> d.prompt,
           agentEnv |-> d.agentEnv, kernelEnv |-> d.kernelEnv, cliEnv |-> d.cliEnv,
           gatewayEnv |-> d.gatewayEnv, gatewaySecrets |-> d.gatewaySecrets]
  BY <1>3, Fields
<1> HIDE DEF d
<1>6. /\ AreValues(d.gatewaySecrets)
      /\ \A k \in DOMAIN doc.gatewaySecrets : k \notin DOMAIN named =>
           d.gatewaySecrets[k] = doc.gatewaySecrets[k]
      /\ \A k \in DOMAIN named : d.gatewaySecrets[k] = Lit(named[k])
  <2>1. secrets = named ?? Literals(doc.gatewaySecrets)
    BY <1>2 DEF secrets
  <2> HIDE DEF named
  <2> QED BY <2>1, <1>1, <1>4, MergedSecrets
<1>7. /\ (q.secrets = None => DOMAIN named = {})
      /\ (q.secrets # None => named = Only(q.secrets))
  BY NoKeys DEF Given
<1>8. /\ IsEnv(d.gatewayEnv) /\ ShowsEnv(q.env, d.gatewayEnv, doc.gatewayEnv)
  BY <1>1, <1>2, <1>4, Merged DEF Given, ShowsEnv
<1>9. \/ d.gatewayEnv = doc.gatewayEnv
      \/ q.env # None /\ d.gatewayEnv = Env(None, text_to_env(Only(q.env)))
  <2>1. CASE q.env = None
    BY <2>1, <1>1, <1>2, <1>4, Merged DEF Given
  <2>2. CASE q.env # None
    <3>1. env = Only(q.env)
      BY <2>2 DEF Given
    <3> QED BY <2>2, <3>1, <1>1, <1>4, Merged
  <2> QED BY <2>1, <2>2
<1>10. IsDocument(d)
  BY <1>4, <1>5, <1>6, <1>8 DEF IsDocument
<1> HIDE DEF named
<1> QED BY <1>4, <1>6, <1>7, <1>8, <1>9, <1>10 DEF d

LEMMA ConfigEdited ==
  ASSUME NEW config, IsOption(config), config # None => IsEnv(Only(config)), NEW lines
  PROVE  LET new == upsert_kernel_config(config, lines)
         IN  /\ IsOption(new) /\ new # None /\ IsEnv(Only(new))
             /\ new = config \/ new = Some(Env(None, text_to_env(lines)))
<1> DEFINE env == IF config = None THEN Env(None, text_to_env(lines)) ELSE merge_env(Only(config), lines)
           new == upsert_kernel_config(config, lines)
<1>1. new = Some(env)
  BY DEF upsert_kernel_config
<1>2. IsEnv(env)
  BY TextIsEnv, Merged
<1>3. Some(env) = config \/ env = Env(None, text_to_env(lines))
  BY DEF merge_env, IsOption
<1> HIDE DEF env
<1> QED BY <1>1, <1>2, <1>3, OptionFacts

LEMMA KernelEdited ==
  ASSUME IsDocument(doc), NEW q, IsRequest(q), q.what \in {"kernel", "cli"},
         NEW slot, slot = IF q.what = "kernel" THEN "kernelEnv" ELSE "cliEnv"
  PROVE  LET d == Edited(q)
         IN  /\ IsDocument(d)
             /\ \A f \in DOMAIN doc \ {slot} : d[f] = doc[f]
             /\ DOMAIN d = DOMAIN doc
             /\ \/ d[slot] = doc[slot]
                \/ q.env # None /\ d[slot] = Some(Env(None, text_to_env(Only(q.env))))
<1> DEFINE d == Edited(q)
           new == upsert_kernel_config(doc[slot], Only(q.env))
<1>1. /\ IsOption(doc.kernelEnv) /\ (doc.kernelEnv # None => IsEnv(Only(doc.kernelEnv)))
      /\ IsOption(doc.cliEnv) /\ (doc.cliEnv # None => IsEnv(Only(doc.cliEnv)))
      /\ q.env # None
  BY DEF IsDocument, IsRequest
<1>2. d = [doc EXCEPT ![slot] = new]
  BY DEF Edited
<1>3. /\ IsOption(new) /\ new # None /\ IsEnv(Only(new))
      /\ new = doc[slot] \/ new = Some(Env(None, text_to_env(Only(q.env))))
  BY <1>1, ConfigEdited
<1> HIDE DEF new
<1>4. /\ d[slot] = new /\ DOMAIN d = DOMAIN doc
      /\ \A f \in DOMAIN doc \ {slot} : d[f] = doc[f]
      /\ d = [f \in DOMAIN doc |-> d[f]]
  BY <1>2, Fields
<1>5. d = [url |-> d.url, flavor |-> d.flavor, key |-> d.key, prompt |-> d.prompt,
           agentEnv |-> d.agentEnv, kernelEnv |-> d.kernelEnv, cliEnv |-> d.cliEnv,
           gatewayEnv |-> d.gatewayEnv, gatewaySecrets |-> d.gatewaySecrets]
  BY <1>4, Fields
<1> HIDE DEF d
<1>6. IsDocument(d)
  <2>1. /\ d.url = doc.url /\ d.flavor = doc.flavor /\ d.key = doc.key /\ d.prompt = doc.prompt
        /\ d.agentEnv = doc.agentEnv /\ d.gatewayEnv = doc.gatewayEnv
        /\ d.gatewaySecrets = doc.gatewaySecrets
        /\ d.kernelEnv \in {doc.kernelEnv, new} /\ d.cliEnv \in {doc.cliEnv, new}
    BY <1>4, Fields
  <2> QED BY <2>1, <1>3, <1>5 DEF IsDocument
<1> QED BY <1>1, <1>3, <1>4, <1>6 DEF d


----------------------------------------------------------------------------
(* ConfigValues: edits.                                                    *)

\* an environment that the documents began with, or the text of a request
EnvOK(e) == IsEnv(e) /\ (e \in Envs \/ (e.map = None /\ (e.text # None => Only(e.text) \in EnvTexts)))
DocOK(d) == /\ IsDocument(d) /\ EnvOK(d.agentEnv) /\ EnvOK(d.gatewayEnv)
            /\ d.kernelEnv # None => EnvOK(Only(d.kernelEnv))
            /\ d.cliEnv # None => EnvOK(Only(d.cliEnv))
\* the document, and the one before the last edit
DocInv == DocOK(doc) /\ DocOK(before)

LEMMA RangeOf ==
  ASSUME NEW o, IsOption(o), o # None
  PROVE  Only(o) \in Range(o)
<1>1. o = <<Only(o)>>
  BY DEF IsOption, Some
<1>2. 1 \in DOMAIN o
  BY <1>1
<1> QED BY <1>2 DEF Range, Only

LEMMA TextOK ==
  ASSUME NEW q \in Requests, q.env # None
  PROVE  EnvOK(Env(None, text_to_env(Only(q.env))))
<1> DEFINE lines == Only(q.env)
<1>1. lines \in EnvTexts
  <2>1. lines \in Range(q.env)
    BY RequestsAssumption, RangeOf DEF IsRequest
  <2> QED BY <2>1 DEF EnvTexts
<1>2. text_to_env(lines) = None \/ text_to_env(lines) = Some(lines)
  BY DEF text_to_env
<1> HIDE DEF lines
<1> QED BY <1>1, <1>2, TextIsEnv, OptionFacts DEF EnvOK, lines

LEMMA EditIs ==
  ASSUME DocOK(doc), NEW q \in Requests
  PROVE  LET d == Edited(q)
             fields == [agent |-> {"prompt", "agentEnv"}, connection |-> {"url", "flavor", "key"},
                        gateway |-> {"gatewayEnv", "gatewaySecrets"}, kernel |-> {"kernelEnv"},
                        cli |-> {"cliEnv"}]
         IN  /\ DocOK(d)
             /\ \A r \in Resources \ {q.what} :
                  \A f \in fields[r] : d[f] = doc[f]
             /\ q.what = "agent" => d = update_agent(q)
             /\ q.what = "connection" => d = update_connection(q)
             /\ q.what = "gateway" => d = update_gateway(q)
<1> DEFINE d == Edited(q)
           fields == [agent |-> {"prompt", "agentEnv"}, connection |-> {"url", "flavor", "key"},
                      gateway |-> {"gatewayEnv", "gatewaySecrets"}, kernel |-> {"kernelEnv"},
                      cli |-> {"cliEnv"}]
<1>6. /\ EnvOK(doc.agentEnv) /\ EnvOK(doc.gatewayEnv)
      /\ doc.kernelEnv # None => EnvOK(Only(doc.kernelEnv))
      /\ doc.cliEnv # None => EnvOK(Only(doc.cliEnv))
  BY DEF DocOK
<1>1. /\ IsRequest(q) /\ IsDocument(doc)
      /\ q.what \in Resources
  BY RequestsAssumption DEF DocOK, IsRequest
<1>2. CASE q.what = "agent"
  <2>1. d = update_agent(q)
    BY <1>2 DEF Edited
  <2>2. IsDocument(d)
    BY <1>1, <1>2, <2>1, AgentEdited
  <2>3. \A r \in Resources \ {"agent"} :
          \A f \in fields[r] : d[f] = doc[f]
    <3>1. \A f \in {"url", "flavor", "key", "kernelEnv", "cliEnv", "gatewayEnv", "gatewaySecrets"} : d[f] = doc[f]
      BY <1>1, <1>2, <2>1, AgentEdited
    <3> HIDE DEF d
    <3> QED BY <3>1 DEF Resources
  <2>4. DocOK(d)
    <3>1. /\ EnvOK(d.agentEnv)
          /\ d.gatewayEnv = doc.gatewayEnv /\ d.kernelEnv = doc.kernelEnv /\ d.cliEnv = doc.cliEnv
      BY <1>1, <1>2, <2>1, AgentEdited, TextOK, <1>6
    <3> HIDE DEF d
    <3> QED BY <2>2, <3>1, <1>6 DEF DocOK
  <2> QED BY <1>2, <2>1, <2>3, <2>4
<1>3. CASE q.what = "connection"
  <2>1. d = update_connection(q)
    BY <1>3 DEF Edited
  <2>2. IsDocument(d)
    BY <1>1, <1>3, <2>1, ConnectionEdited
  <2>3. \A r \in Resources \ {"connection"} :
          \A f \in fields[r] : d[f] = doc[f]
    <3>1. \A f \in {"prompt", "agentEnv", "kernelEnv", "cliEnv", "gatewayEnv", "gatewaySecrets"} : d[f] = doc[f]
      BY <1>1, <1>3, <2>1, ConnectionEdited
    <3> HIDE DEF d
    <3> QED BY <3>1 DEF Resources
  <2>4. DocOK(d)
    <3>1. /\ d.kernelEnv = doc.kernelEnv /\ d.cliEnv = doc.cliEnv
          /\ d.agentEnv = doc.agentEnv /\ d.gatewayEnv = doc.gatewayEnv
      BY <1>1, <1>3, <2>1, ConnectionEdited
    <3> HIDE DEF d
    <3> QED BY <2>2, <3>1, <1>6 DEF DocOK
  <2> QED BY <1>3, <2>1, <2>3, <2>4
<1>4. CASE q.what = "gateway"
  <2>1. d = update_gateway(q)
    BY <1>4 DEF Edited
  <2>2. IsDocument(d)
    BY <1>1, <1>4, <2>1, GatewayEdited
  <2>3. \A r \in Resources \ {"gateway"} :
          \A f \in fields[r] : d[f] = doc[f]
    <3>1. \A f \in {"url", "flavor", "key", "prompt", "agentEnv", "kernelEnv", "cliEnv"} : d[f] = doc[f]
      BY <1>1, <1>4, <2>1, GatewayEdited
    <3> HIDE DEF d
    <3> QED BY <3>1 DEF Resources
  <2>4. DocOK(d)
    <3>1. /\ EnvOK(d.gatewayEnv)
          /\ d.agentEnv = doc.agentEnv /\ d.kernelEnv = doc.kernelEnv /\ d.cliEnv = doc.cliEnv
      BY <1>1, <1>4, <2>1, GatewayEdited, TextOK, <1>6
    <3> HIDE DEF d
    <3> QED BY <2>2, <3>1, <1>6 DEF DocOK
  <2> QED BY <1>4, <2>1, <2>3, <2>4
<1>5. ASSUME q.what \in {"kernel", "cli"},
             NEW slot, slot = IF q.what = "kernel" THEN "kernelEnv" ELSE "cliEnv"
      PROVE  /\ DocOK(d)
             /\ \A r \in Resources \ {q.what} : \A f \in fields[r] : d[f] = doc[f]
  <2>1. /\ IsDocument(d) /\ DOMAIN d = DOMAIN doc
        /\ \A f \in DOMAIN doc \ {slot} : d[f] = doc[f]
        /\ \/ d[slot] = doc[slot]
           \/ q.env # None /\ d[slot] = Some(Env(None, text_to_env(Only(q.env))))
    BY <1>1, <1>5, KernelEdited
  <2> HIDE DEF d
  <2>2. \A r \in Resources \ {q.what} : \A f \in fields[r] : d[f] = doc[f]
    BY <2>1, <1>1, <1>5, Fields DEF Resources
  <2>3. d[slot] # None => EnvOK(Only(d[slot]))
    BY <2>1, <1>5, <1>6, TextOK, OptionFacts
  <2>4. DocOK(d)
    BY <2>1, <2>3, <1>1, <1>5, <1>6, Fields DEF DocOK
  <2> QED BY <2>2, <2>4
<1>7. q.what \in {"kernel", "cli"} =>
        DocOK(d) /\ \A r \in Resources \ {q.what} : \A f \in fields[r] : d[f] = doc[f]
  <2> HIDE DEF d, fields
  <2> QED BY <1>5
<1> HIDE DEF d
<1> QED BY <1>1, <1>2, <1>3, <1>4, <1>7 DEF Resources, d

LEMMA EditStep ==
  ASSUME DocOK(doc), NEW q \in Requests, Edit(q)
  PROVE  EditChangesOnlyIt'
<1>1. doc' = Edited(q) /\ before' = doc /\ edit' = q /\ IsRequest(q) /\ IsDocument(doc)
  BY RequestsAssumption DEF Edit, DocOK
<1>2. \A r \in Resources \ {q.what} : plan(doc, Edited(q))[r] = "no-op"
  <2> DEFINE d == Edited(q)
             fields == [agent |-> {"prompt", "agentEnv"}, connection |-> {"url", "flavor", "key"},
                        gateway |-> {"gatewayEnv", "gatewaySecrets"}, kernel |-> {"kernelEnv"},
                        cli |-> {"cliEnv"}]
  <2>1. \A r \in Resources \ {q.what} :
          \A f \in fields[r] : d[f] = doc[f]
    BY EditIs
  <2> HIDE DEF d
  <2>2. \A r \in DOMAIN fields : (\A f \in fields[r] : d[f] = doc[f]) => plan(doc, d)[r] = "no-op"
    BY DEF plan
  <2> QED BY <2>1, <2>2 DEF d, Resources
<1>3. ASSUME q.what = "agent"
      PROVE  /\ q.prompt = None => doc'.prompt = doc.prompt
             /\ Shows(q.prompt, literal_or_empty(doc'.prompt), doc.prompt)
             /\ ShowsEnv(q.env, doc'.agentEnv, doc.agentEnv)
  BY <1>1, <1>3, EditIs, AgentEdited
<1>4. ASSUME q.what = "connection"
      PROVE  /\ q.url = None => doc'.url = doc.url
             /\ Shows(q.url, literal_or_empty(doc'.url), doc.url)
             /\ doc'.flavor = Given(q.flavor, doc.flavor)
             /\ (q.key = None /\ q.secret = None) =>
                  (doc'.key = doc.key \/ (doc.key = Some(Lit(Empty)) /\ doc'.key = None))
             /\ q.secret # None => connection_to_record(doc').secret = Only(q.secret)
  BY <1>1, <1>4, EditIs, ConnectionEdited
<1>5. ASSUME q.what = "gateway"
      PROVE  /\ ShowsEnv(q.env, doc'.gatewayEnv, doc.gatewayEnv)
             /\ \A k \in DOMAIN doc.gatewaySecrets :
                  (q.secrets = None \/ k \notin DOMAIN Only(q.secrets))
                    => doc'.gatewaySecrets[k] = doc.gatewaySecrets[k]
             /\ q.secrets # None => \A k \in DOMAIN Only(q.secrets) :
                  doc'.gatewaySecrets[k] = Lit(Only(q.secrets)[k])
  BY <1>1, <1>5, EditIs, GatewayEdited
<1> QED BY <1>1, <1>2, <1>3, <1>4, <1>5 DEF EditChangesOnlyIt

LEMMA DocInit ==
  ValuesInit => DocInv /\ EditChangesOnlyIt
<1> SUFFICES ASSUME ValuesInit PROVE DocInv /\ EditChangesOnlyIt
  OBVIOUS
<1>1. PICK first \in Documents : ValuesBegin(first)
  BY DEF ValuesInit
<1>2. doc = first /\ before = first /\ edit = NoEdit
  BY <1>1 DEF ValuesBegin
<1>3. IsDocument(first)
  BY DocumentsAssumption
<1>4. /\ first.agentEnv \in Envs /\ first.gatewayEnv \in Envs
      /\ first.kernelEnv # None => Only(first.kernelEnv) \in Envs
      /\ first.cliEnv # None => Only(first.cliEnv) \in Envs
  BY <1>3, RangeOf DEF Envs, IsDocument
<1>5. DocOK(first)
  BY <1>3, <1>4 DEF DocOK, EnvOK, IsDocument
<1> QED BY <1>2, <1>5 DEF DocInv, EditChangesOnlyIt, NoEdit

LEMMA DocStep ==
  DocInv /\ EditChangesOnlyIt /\ [ValuesNext]_valueVars => (DocInv /\ EditChangesOnlyIt)'
<1> SUFFICES ASSUME DocInv, EditChangesOnlyIt, [ValuesNext]_valueVars
             PROVE  (DocInv /\ EditChangesOnlyIt)'
  OBVIOUS
<1>1. CASE UNCHANGED <<doc, before, edit>>
  BY <1>1 DEF DocInv, EditChangesOnlyIt
<1>2. ASSUME NEW q \in Requests, Edit(q) PROVE (DocInv /\ EditChangesOnlyIt)'
  BY <1>2, EditStep, EditIs DEF DocInv, Edit
<1>3. CASE UNCHANGED valueVars
  BY <1>1, <1>3 DEF valueVars
<1> QED BY <1>1, <1>2, <1>3
        DEF ValuesNext, SetSecret, CreateCli, LaunchCli, StartChat, StartGateway, Launched

\* Whatever is edited, in whatever order: the routes of api.rs merge a record back into the
\* document so that only what the request names changes (adapter.rs: merge_env,
\* merge_required_value, merge_gateway_secrets).
THEOREM EditsChangeNothingElse == ValuesSpec => []EditChangesOnlyIt
<1> QED BY DocInit, DocStep, PTL DEF ValuesSpec


----------------------------------------------------------------------------
(* ConfigValues: what an environment writes, and where its values come from *)

LEMMA ValueUnder ==
  ASSUME NEW v, IsValue(v), NEW field
  PROVE  resolve_launch_value(launch_value_source(v, field, TRUE)) = Under(v, values)
<1>1. CASE is_secret(v)
  <2>1. launch_value_source(v, field, TRUE) = Source(None, v.ref, None)
    BY <1>1 DEF launch_value_source
  <2>2. Source(None, v.ref, None).lit = None /\ Source(None, v.ref, None).ref = v.ref
    BY DEF Source
  <2> QED BY <1>1, <2>1, <2>2 DEF resolve_launch_value, Under, is_secret
<1>2. CASE ~is_secret(v)
  <2>1. launch_value_source(v, field, TRUE) = Source(v.lit, None, None)
    BY <1>2 DEF launch_value_source
  <2>2. Source(v.lit, None, None).lit = v.lit /\ v.lit # None
    BY <1>2 DEF Source, IsValue, is_secret
  <2> QED BY <1>2, <2>1, <2>2 DEF resolve_launch_value, Under
<1> QED BY <1>1, <1>2

LEMMA KeyUnder ==
  ASSUME NEW v
  PROVE  LET s == launch_value_source(v, "key", FALSE)
         IN  /\ s.lit = None
             /\ is_secret(v) => resolve_launch_value(s) = Under(v, values)
             /\ ~is_secret(v) => resolve_launch_value(s) =
                  IF doc.key = None THEN None ELSE Under(Only(doc.key), values)
<1> DEFINE s == launch_value_source(v, "key", FALSE)
<1>1. CASE is_secret(v)
  <2>1. s = Source(None, v.ref, None)
    BY <1>1 DEF launch_value_source
  <2>2. Source(None, v.ref, None).lit = None /\ Source(None, v.ref, None).ref = v.ref
    BY DEF Source
  <2> QED BY <1>1, <2>1, <2>2 DEF resolve_launch_value, Under, is_secret
<1>2. CASE ~is_secret(v)
  <2>1. s = Source(None, None, Some("key"))
    BY <1>2 DEF launch_value_source
  <2> HIDE DEF s
  <2>2. /\ s.lit = None /\ s.ref = None /\ s.field = Some("key")
    BY <2>1 DEF Source
  <2>3. Only(s.field) = "key"
    BY <2>2, OptionFacts
  <2>4. resolve_launch_value(s) = IF doc.key = None THEN None ELSE resolve_one(Only(doc.key))
    BY <2>2, <2>3 DEF resolve_launch_value
  <2> QED BY <1>2, <2>2, <2>4 DEF resolve_one, Under, s
<1> QED BY <1>1, <1>2

LEMMA UnderIsOption ==
  ASSUME NEW v, IsValue(v), NEW store, \A s \in Secrets : IsOption(store[s])
  PROVE  IsOption(Under(v, store))
<1>1. CASE is_secret(v)
  BY <1>1, LiteralFacts DEF IsValue, Under, is_secret
<1>2. CASE ~is_secret(v)
  BY <1>2, LiteralIs, LiteralFacts, OptionFacts DEF Under
<1> QED BY <1>1, <1>2

LEMMA EnvText ==
  ASSUME NEW env, EnvOK(env), env.map = None
  PROVE  LET t == IF env.text = None THEN <<>> ELSE Only(env.text)
         IN  t \in EnvTexts /\ parse_env_vars(t) = Strings(t)
<1> DEFINE t == IF env.text = None THEN <<>> ELSE Only(env.text)
<1>1. t \in EnvTexts
  <2>1. CASE env.text = None
    BY <2>1 DEF EnvTexts
  <2>2. CASE env.text # None /\ env \in Envs
    <3>1. Only(env.text) \in Range(env.text)
      BY <2>2, RangeOf DEF EnvOK, IsEnv
    <3>2. Only(env.text) \in UNION {Range(e.text) : e \in Envs}
      BY <2>2, <3>1
    <3> QED BY <2>2, <3>2 DEF EnvTexts
  <2>3. CASE env.text # None /\ env \notin Envs
    BY <2>3 DEF EnvOK
  <2> QED BY <2>1, <2>2, <2>3
<1> QED BY <1>1, ParseAssumption

LEMMA NothingSaid == DOMAIN Strings(<<>>) = {}
<1>1. {<<>>[i].key : i \in DOMAIN <<>>} = {}
  BY NoKeys
<1> QED BY <1>1 DEF Strings

\* what an environment writes, in words that need no case for map and text
LEMMA WrittenIs ==
  ASSUME NEW env, EnvOK(env)
  PROVE  /\ AreValues(Written(env))
         /\ env.map # None => Written(env) = Only(env.map)
         /\ env.map = None =>
              LET t == IF env.text = None THEN <<>> ELSE Only(env.text)
              IN  /\ DOMAIN Written(env) = DOMAIN parse_env_vars(t)
                  /\ \A k \in DOMAIN Written(env) : Written(env)[k] = Lit(parse_env_vars(t)[k])
<1>1. CASE env.map # None
  BY <1>1 DEF Written, EnvOK, IsEnv
<1>2. CASE env.map = None
  <2> DEFINE t == IF env.text = None THEN <<>> ELSE Only(env.text)
             w == Written(env)
  <2>1. Strings(t) = parse_env_vars(t)
    BY <1>2, EnvText
  <2> HIDE DEF t
  <2>2. w = [k \in DOMAIN Strings(t) |-> Lit(Strings(t)[k])]
    BY <1>2 DEF Written, t
  <2>3. /\ DOMAIN w = DOMAIN parse_env_vars(t) /\ w = [k \in DOMAIN w |-> w[k]]
        /\ \A k \in DOMAIN w : w[k] = Lit(parse_env_vars(t)[k])
    BY <2>1, <2>2
  <2> HIDE DEF w
  <2>4. AreValues(w)
    BY <2>3, LiteralFacts DEF AreValues
  <2> QED BY <1>2, <2>3, <2>4 DEF t, w
<1> QED BY <1>1, <1>2

LEMMA SourcesAre ==
  ASSUME NEW env, EnvOK(env)
  PROVE  config_env_sources(env) =
           [k \in DOMAIN Written(env) |-> launch_value_source(Written(env)[k], "env", TRUE)]
<1> DEFINE text == IF env.text = None THEN <<>> ELSE parse_env_vars(Only(env.text))
           map == IF env.map = None THEN <<>> ELSE Only(env.map)
           a == [k \in DOMAIN map |-> launch_value_source(map[k], "env", TRUE)]
           b == [k \in DOMAIN text |-> Source(Some(text[k]), None, None)]
           w == Written(env)
<1>1. config_env_sources(env) = a ?? b
  BY DEF config_env_sources
<1>2. CASE env.map # None
  <2>1. env.text = None
    BY <1>2 DEF EnvOK, IsEnv
  <2>2. DOMAIN b = {}
    BY <2>1, NoKeys
  <2>3. w = map
    BY <1>2, WrittenIs
  <2>4. DOMAIN a = DOMAIN w /\ \A k \in DOMAIN w : a[k] = launch_value_source(w[k], "env", TRUE)
    BY <2>3
  <2> HIDE DEF a, b, w
  <2> QED BY <1>1, <2>2, <2>4 DEF ??, w
<1>3. CASE env.map = None
  <2>1. DOMAIN a = {}
    BY <1>3, NoKeys
  <2>2. /\ DOMAIN w = DOMAIN text
        /\ \A k \in DOMAIN w : w[k] = Lit(text[k])
    <3>1. CASE env.text = None
      BY <1>3, <3>1, WrittenIs, EnvText, NothingSaid, NoKeys
    <3>2. CASE env.text # None
      BY <1>3, <3>2, WrittenIs
    <3> QED BY <3>1, <3>2
  <2> HIDE DEF text, w
  <2>3. \A k \in DOMAIN w : b[k] = launch_value_source(w[k], "env", TRUE)
    <3> SUFFICES ASSUME NEW k \in DOMAIN w PROVE b[k] = launch_value_source(w[k], "env", TRUE)
      OBVIOUS
    <3>1. w[k] = Lit(text[k]) /\ b[k] = Source(Some(text[k]), None, None)
      BY <2>2
    <3> QED BY <3>1, LiteralFacts DEF launch_value_source
  <2>4. DOMAIN b = DOMAIN w
    BY <2>2
  <2> HIDE DEF a, b
  <2> QED BY <1>1, <2>1, <2>3, <2>4 DEF ??, w
<1> QED BY <1>2, <1>3


\* the snapshot that a CLI session of a document gets
LaunchSnapshot(d) ==
  LET env == config_env_sources(d.agentEnv) ?? config_env_sources(CliEnv(d))
      var(name, key) == IF key \in DOMAIN env THEN One(name, env[key]) ELSE <<>>
  IN  One("CONNECTION_URL", launch_value_source(d.url, "url", TRUE))
        ?? One("CONNECTION_API_FLAVOR", Source(Some(d.flavor), None, None))
        ?? (IF d.key = None THEN <<>>
            ELSE One("CONNECTION_API_KEY", launch_value_source(Only(d.key), "key", FALSE)))
        ?? (IF d.prompt = Lit(Empty) THEN <<>>
            ELSE One("KERNEL_SYSTEM_PROMPT", launch_value_source(d.prompt, "prompt", TRUE)))
        ?? var("COPILOT_MODEL", "COPILOT_MODEL") ?? var("COPILOT_MODEL", "KERNEL_ACP_MODEL_NAME")

LEMMA SnapshotNow == cli_launch_snapshot = LaunchSnapshot(doc)
BY DEF cli_launch_snapshot, LaunchSnapshot

LEMMA KernelEnvOK ==
  ASSUME NEW d, DocOK(d)
  PROVE  EnvOK(KernelEnv(d)) /\ EnvOK(CliEnv(d)) /\ EnvOK(d.agentEnv) /\ EnvOK(d.gatewayEnv)
<1>1. EnvOK(Unset)
  BY OptionFacts DEF EnvOK, Unset, Env, IsEnv
<1> QED BY <1>1 DEF DocOK, KernelEnv, CliEnv

\* what an agent's environment writes, over that of copilot-cli
EnvOf(d) == Written(d.agentEnv) ?? Written(CliEnv(d))
\* the variable of an environment that names the model, if one does
ModelOf(d) == IF "COPILOT_MODEL" \in DOMAIN EnvOf(d) THEN <<"COPILOT_MODEL">>
              ELSE IF "KERNEL_ACP_MODEL_NAME" \in DOMAIN EnvOf(d) THEN <<"KERNEL_ACP_MODEL_NAME">> ELSE <<>>

LEMMA SourcesOver ==
  ASSUME NEW d, DocOK(d)
  PROVE  LET env == config_env_sources(d.agentEnv) ?? config_env_sources(CliEnv(d))
         IN  /\ AreValues(EnvOf(d)) /\ DOMAIN env = DOMAIN EnvOf(d)
             /\ \A k \in DOMAIN env : env[k] = launch_value_source(EnvOf(d)[k], "env", TRUE)
<1> DEFINE a == Written(d.agentEnv)
           b == Written(CliEnv(d))
           sa == config_env_sources(d.agentEnv)
           sb == config_env_sources(CliEnv(d))
<1>1. AreValues(a) /\ AreValues(b)
  BY KernelEnvOK, WrittenIs
<1>2. /\ sa = [k \in DOMAIN a |-> launch_value_source(a[k], "env", TRUE)]
      /\ sb = [k \in DOMAIN b |-> launch_value_source(b[k], "env", TRUE)]
  BY KernelEnvOK, SourcesAre
<1>3. EnvOf(d) = a ?? b
  BY DEF EnvOf
<1> HIDE DEF a, b, sa, sb
<1>4. /\ AreValues(EnvOf(d)) /\ DOMAIN EnvOf(d) = DOMAIN a \cup DOMAIN b
      /\ \A k \in DOMAIN a : EnvOf(d)[k] = a[k]
      /\ \A k \in DOMAIN b \ DOMAIN a : EnvOf(d)[k] = b[k]
  BY <1>1, <1>3 DEF ??, AreValues
<1>5. /\ DOMAIN sa = DOMAIN a /\ DOMAIN sb = DOMAIN b
      /\ \A k \in DOMAIN a : sa[k] = launch_value_source(a[k], "env", TRUE)
      /\ \A k \in DOMAIN b : sb[k] = launch_value_source(b[k], "env", TRUE)
  BY <1>2
<1>6. /\ DOMAIN (sa ?? sb) = DOMAIN a \cup DOMAIN b
      /\ \A k \in DOMAIN a : (sa ?? sb)[k] = sa[k]
      /\ \A k \in DOMAIN b \ DOMAIN a : (sa ?? sb)[k] = sb[k]
  BY <1>5 DEF ??
<1>7. \A k \in DOMAIN a \cup DOMAIN b : (sa ?? sb)[k] = launch_value_source(EnvOf(d)[k], "env", TRUE)
  BY <1>4, <1>5, <1>6
<1> QED BY <1>4, <1>6, <1>7 DEF sa, sb

LEMMA SnapshotHas ==
  ASSUME NEW d, DocOK(d)
  PROVE  LET s == LaunchSnapshot(d)
             model == ModelOf(d)
         IN  /\ DOMAIN s = {"CONNECTION_URL", "CONNECTION_API_FLAVOR"}
                  \cup (IF d.key = None THEN {} ELSE {"CONNECTION_API_KEY"})
                  \cup (IF d.prompt = Lit(Empty) THEN {} ELSE {"KERNEL_SYSTEM_PROMPT"})
                  \cup (IF model = <<>> THEN {} ELSE {"COPILOT_MODEL"})
             /\ s["CONNECTION_URL"] = launch_value_source(d.url, "url", TRUE)
             /\ s["CONNECTION_API_FLAVOR"] = Source(Some(d.flavor), None, None)
             /\ d.key # None => s["CONNECTION_API_KEY"] = launch_value_source(Only(d.key), "key", FALSE)
             /\ d.prompt # Lit(Empty) => s["KERNEL_SYSTEM_PROMPT"] = launch_value_source(d.prompt, "prompt", TRUE)
             /\ model # <<>> =>
                  /\ model[1] \in DOMAIN EnvOf(d)
                  /\ s["COPILOT_MODEL"] = launch_value_source(EnvOf(d)[model[1]], "env", TRUE)
<1> DEFINE env == config_env_sources(d.agentEnv) ?? config_env_sources(CliEnv(d))
           U == One("CONNECTION_URL", launch_value_source(d.url, "url", TRUE))
           F == One("CONNECTION_API_FLAVOR", Source(Some(d.flavor), None, None))
           K == IF d.key = None THEN <<>>
                ELSE One("CONNECTION_API_KEY", launch_value_source(Only(d.key), "key", FALSE))
           P == IF d.prompt = Lit(Empty) THEN <<>>
                ELSE One("KERNEL_SYSTEM_PROMPT", launch_value_source(d.prompt, "prompt", TRUE))
           var(key) == IF key \in DOMAIN env THEN One("COPILOT_MODEL", env[key]) ELSE <<>>
           C == var("COPILOT_MODEL")
           A == var("KERNEL_ACP_MODEL_NAME")
           model == ModelOf(d)
           s == LaunchSnapshot(d)
<1>1. s = U ?? F ?? K ?? P ?? C ?? A
  BY DEF LaunchSnapshot
<1>2. /\ DOMAIN env = DOMAIN EnvOf(d)
      /\ \A k \in DOMAIN env : env[k] = launch_value_source(EnvOf(d)[k], "env", TRUE)
  BY SourcesOver
<1>3. /\ DOMAIN U = {"CONNECTION_URL"} /\ U["CONNECTION_URL"] = launch_value_source(d.url, "url", TRUE)
      /\ DOMAIN F = {"CONNECTION_API_FLAVOR"} /\ F["CONNECTION_API_FLAVOR"] = Source(Some(d.flavor), None, None)
      /\ DOMAIN K = IF d.key = None THEN {} ELSE {"CONNECTION_API_KEY"}
      /\ d.key # None => K["CONNECTION_API_KEY"] = launch_value_source(Only(d.key), "key", FALSE)
      /\ DOMAIN P = IF d.prompt = Lit(Empty) THEN {} ELSE {"KERNEL_SYSTEM_PROMPT"}
      /\ d.prompt # Lit(Empty) => P["KERNEL_SYSTEM_PROMPT"] = launch_value_source(d.prompt, "prompt", TRUE)
  BY NoKeys DEF One
<1> HIDE DEF env
<1>4. /\ DOMAIN C = IF "COPILOT_MODEL" \in DOMAIN env THEN {"COPILOT_MODEL"} ELSE {}
      /\ "COPILOT_MODEL" \in DOMAIN env => C["COPILOT_MODEL"] = env["COPILOT_MODEL"]
      /\ DOMAIN A = IF "KERNEL_ACP_MODEL_NAME" \in DOMAIN env THEN {"COPILOT_MODEL"} ELSE {}
      /\ "KERNEL_ACP_MODEL_NAME" \in DOMAIN env => A["COPILOT_MODEL"] = env["KERNEL_ACP_MODEL_NAME"]
  BY NoKeys DEF One
<1> HIDE DEF U, F, K, P, C, A, s
<1>5. /\ DOMAIN s = DOMAIN U \cup DOMAIN F \cup DOMAIN K \cup DOMAIN P \cup DOMAIN C \cup DOMAIN A
      /\ \A k \in DOMAIN U : s[k] = U[k]
      /\ \A k \in DOMAIN F \ DOMAIN U : s[k] = F[k]
      /\ \A k \in DOMAIN K \ (DOMAIN U \cup DOMAIN F) : s[k] = K[k]
      /\ \A k \in DOMAIN P \ (DOMAIN U \cup DOMAIN F \cup DOMAIN K) : s[k] = P[k]
      /\ \A k \in DOMAIN C \ (DOMAIN U \cup DOMAIN F \cup DOMAIN K \cup DOMAIN P) : s[k] = C[k]
      /\ \A k \in DOMAIN A \ (DOMAIN U \cup DOMAIN F \cup DOMAIN K \cup DOMAIN P \cup DOMAIN C) : s[k] = A[k]
  BY <1>1 DEF ??
<1>6. /\ model = <<>> => DOMAIN C = {} /\ DOMAIN A = {}
      /\ model # <<>> => /\ DOMAIN C \cup DOMAIN A = {"COPILOT_MODEL"}
                         /\ model[1] \in DOMAIN EnvOf(d)
                         /\ s["COPILOT_MODEL"] = env[model[1]]
  <2>1. CASE "COPILOT_MODEL" \in DOMAIN env
    <3>1. model = <<"COPILOT_MODEL">>
      BY <1>2, <2>1 DEF ModelOf
    <3>2. model # <<>> /\ model[1] = "COPILOT_MODEL"
      BY <3>1
    <3>3. DOMAIN C = {"COPILOT_MODEL"} /\ s["COPILOT_MODEL"] = env["COPILOT_MODEL"]
      BY <1>3, <1>4, <1>5, <2>1
    <3> QED BY <3>2, <3>3, <1>2, <1>4, <2>1
  <2>2. CASE "COPILOT_MODEL" \notin DOMAIN env /\ "KERNEL_ACP_MODEL_NAME" \in DOMAIN env
    <3>1. model = <<"KERNEL_ACP_MODEL_NAME">>
      BY <1>2, <2>2 DEF ModelOf
    <3>2. model # <<>> /\ model[1] = "KERNEL_ACP_MODEL_NAME"
      BY <3>1
    <3>3. DOMAIN C = {} /\ DOMAIN A = {"COPILOT_MODEL"} /\ s["COPILOT_MODEL"] = env["KERNEL_ACP_MODEL_NAME"]
      BY <1>3, <1>4, <1>5, <2>2
    <3> QED BY <3>2, <3>3, <1>2, <1>4, <2>2
  <2>3. CASE "COPILOT_MODEL" \notin DOMAIN env /\ "KERNEL_ACP_MODEL_NAME" \notin DOMAIN env
    <3>1. model = <<>>
      BY <1>2, <2>3 DEF ModelOf
    <3> QED BY <3>1, <1>4, <2>3
  <2> QED BY <2>1, <2>2, <2>3
<1> HIDE DEF model
<1>7. DOMAIN s = {"CONNECTION_URL", "CONNECTION_API_FLAVOR"}
                  \cup (IF d.key = None THEN {} ELSE {"CONNECTION_API_KEY"})
                  \cup (IF d.prompt = Lit(Empty) THEN {} ELSE {"KERNEL_SYSTEM_PROMPT"})
                  \cup (IF model = <<>> THEN {} ELSE {"COPILOT_MODEL"})
  <2>1. DOMAIN C \cup DOMAIN A = IF model = <<>> THEN {} ELSE {"COPILOT_MODEL"}
    BY <1>6
  <2> QED BY <2>1, <1>3, <1>5
<1>8. /\ s["CONNECTION_URL"] = launch_value_source(d.url, "url", TRUE)
      /\ s["CONNECTION_API_FLAVOR"] = Source(Some(d.flavor), None, None)
      /\ d.key # None => s["CONNECTION_API_KEY"] = launch_value_source(Only(d.key), "key", FALSE)
      /\ d.prompt # Lit(Empty) => s["KERNEL_SYSTEM_PROMPT"] = launch_value_source(d.prompt, "prompt", TRUE)
  BY <1>3, <1>5
<1>9. model # <<>> => s["COPILOT_MODEL"] = launch_value_source(EnvOf(d)[model[1]], "env", TRUE)
  BY <1>2, <1>6
<1> QED BY <1>6, <1>7, <1>8, <1>9 DEF s, model


----------------------------------------------------------------------------
(* ConfigValues: launches.                                                 *)

\* secrets have values or none, and a CLI session the snapshot of the document it was made of
MadeInv ==
  /\ values = [s \in Secrets |-> values[s]] /\ \A s \in Secrets : IsOption(values[s])
  /\ snapshot # None => DocOK(Only(made)) /\ snapshot = Some(LaunchSnapshot(Only(made)))
  /\ launched.what = "cli" => snapshot # None

\* no variable of the service's own is one of the document's
LEMMA OwnVars ==
  ASSUME NEW recovery \in BOOLEAN
  PROVE  DOMAIN CliVars(recovery) \subseteq
           {"KERNEL_SESSION_ID", "AGENTSPACE_SKILLS_API", "AGENTSPACE_CLIENT_SERVICE_URL",
            "AGENTSPACE_AGENT_ID", "AGENTSPACE_RUNTIME_RECOVERY"}
BY NoKeys DEF CliVars, ServiceVars, insert_agentspace_api_env, One, ??

LEMMA CliLaunch ==
  ASSUME DocInv, MadeInv, snapshot # None, NEW recovery \in BOOLEAN,
         Launched("cli", recovery, cli_runtime_launch(recovery))
  PROVE  LaunchIsFrozen'
<1> DEFINE d == Only(made)
           s == Only(snapshot)
           R(k) == resolve_launch_value(s[k])
           model == ModelOf(d)
           key == IF is_secret(Only(d.key)) THEN d.key ELSE doc.key
           own == CliVars(recovery)
           launch == cli_runtime_launch(recovery)
           wants == {<<"CONNECTION_URL", Under(d.url, values)>>, <<"CONNECTION_API_FLAVOR", Some(d.flavor)>>}
                   \cup (IF d.key = None THEN {} ELSE
                        {<<"CONNECTION_API_KEY", IF key = None THEN None ELSE Under(Only(key), values)>>})
                   \cup (IF d.prompt = Lit(Empty) THEN {} ELSE
                        {<<"KERNEL_SYSTEM_PROMPT", Under(d.prompt, values)>>})
                   \cup (IF model = <<>> THEN {} ELSE
                        {<<"COPILOT_MODEL", Under(EnvOf(d)[model[1]], values)>>})
<1>1. /\ snapshot # None /\ DocOK(d) /\ snapshot = Some(LaunchSnapshot(d))
      /\ \A x \in Secrets : IsOption(values[x])
  BY DEF MadeInv
<1>2. s = LaunchSnapshot(d)
  BY <1>1, OptionFacts
<1>3. /\ launched' = [what |-> "cli", from |-> Some(doc), with |-> values, recovery |-> recovery, env |-> launch]
      /\ UNCHANGED <<doc, values, made, snapshot, before, edit, steps>>
  BY DEF Launched
<1>4. /\ IsValue(d.url) /\ IsValue(d.prompt) /\ IsOption(d.key) /\ (d.key # None => IsValue(Only(d.key)))
      /\ IsOption(doc.key) /\ (doc.key # None => IsValue(Only(doc.key)))
      /\ AreValues(EnvOf(d))
  BY <1>1, SourcesOver DEF DocOK, IsDocument, DocInv
<1> HIDE DEF d, s
<1>5. /\ DOMAIN s = {"CONNECTION_URL", "CONNECTION_API_FLAVOR"}
                  \cup (IF d.key = None THEN {} ELSE {"CONNECTION_API_KEY"})
                  \cup (IF d.prompt = Lit(Empty) THEN {} ELSE {"KERNEL_SYSTEM_PROMPT"})
                  \cup (IF model = <<>> THEN {} ELSE {"COPILOT_MODEL"})
      /\ s["CONNECTION_URL"] = launch_value_source(d.url, "url", TRUE)
      /\ s["CONNECTION_API_FLAVOR"] = Source(Some(d.flavor), None, None)
      /\ d.key # None => s["CONNECTION_API_KEY"] = launch_value_source(Only(d.key), "key", FALSE)
      /\ d.prompt # Lit(Empty) => s["KERNEL_SYSTEM_PROMPT"] = launch_value_source(d.prompt, "prompt", TRUE)
      /\ model # <<>> => /\ model[1] \in DOMAIN EnvOf(d)
                         /\ s["COPILOT_MODEL"] = launch_value_source(EnvOf(d)[model[1]], "env", TRUE)
  BY <1>1, <1>2, SnapshotHas
<1> HIDE DEF model
<1>6. R("CONNECTION_URL") = Under(d.url, values) /\ R("CONNECTION_API_FLAVOR") = Some(d.flavor)
  <2>1. Source(Some(d.flavor), None, None).lit = Some(d.flavor)
    BY DEF Source
  <2>2. R("CONNECTION_URL") = Under(d.url, values)
    BY <1>4, <1>5, ValueUnder
  <2>3. R("CONNECTION_API_FLAVOR") = Some(d.flavor)
    <3>1. Some(d.flavor) # None
      BY OptionFacts
    <3> QED BY <3>1, <2>1, <1>5 DEF resolve_launch_value
  <2> QED BY <2>2, <2>3
<1>7. d.key # None => R("CONNECTION_API_KEY") = IF key = None THEN None ELSE Under(Only(key), values)
  BY <1>5, KeyUnder
<1>8. d.prompt # Lit(Empty) => R("KERNEL_SYSTEM_PROMPT") = Under(d.prompt, values)
  BY <1>4, <1>5, ValueUnder
<1>9. model # <<>> => R("COPILOT_MODEL") = Under(EnvOf(d)[model[1]], values)
  BY <1>4, <1>5, ValueUnder DEF AreValues
<1>10. \A k \in DOMAIN s : IsOption(R(k))
  <2>1. IsOption(R("CONNECTION_URL")) /\ IsOption(R("CONNECTION_API_FLAVOR"))
    BY <1>1, <1>4, <1>6, UnderIsOption, OptionFacts
  <2>2. d.key # None => IsOption(R("CONNECTION_API_KEY"))
    <3>1. CASE key = None
      BY <3>1, <1>7, OptionFacts
    <3>2. CASE d.key # None /\ key # None
      <4>1. IsValue(Only(key))
        BY <3>2, <1>4
      <4> QED BY <4>1, <3>2, <1>1, <1>7, UnderIsOption
    <3> QED BY <3>1, <3>2
  <2>3. d.prompt # Lit(Empty) => IsOption(R("KERNEL_SYSTEM_PROMPT"))
    BY <1>1, <1>4, <1>8, UnderIsOption
  <2>4. model # <<>> => IsOption(R("COPILOT_MODEL"))
    BY <1>1, <1>4, <1>5, <1>9, UnderIsOption DEF AreValues
  <2> HIDE DEF R
  <2> QED BY <2>1, <2>2, <2>3, <2>4, <1>5
<1> HIDE DEF R, key
<1>11. wants = {<<k, R(k)>> : k \in DOMAIN s}
  <2>1. {<<k, R(k)>> : k \in DOMAIN s} =
          {<<"CONNECTION_URL", R("CONNECTION_URL")>>, <<"CONNECTION_API_FLAVOR", R("CONNECTION_API_FLAVOR")>>}
            \cup (IF d.key = None THEN {} ELSE {<<"CONNECTION_API_KEY", R("CONNECTION_API_KEY")>>})
            \cup (IF d.prompt = Lit(Empty) THEN {} ELSE {<<"KERNEL_SYSTEM_PROMPT", R("KERNEL_SYSTEM_PROMPT")>>})
            \cup (IF model = <<>> THEN {} ELSE {<<"COPILOT_MODEL", R("COPILOT_MODEL")>>})
    BY <1>5
  <2> QED BY <2>1, <1>6, <1>7, <1>8, <1>9
<1>12. launch = IF \E k \in DOMAIN s : R(k) = None THEN None
                ELSE Some([k \in DOMAIN s |-> Only(R(k))] ?? own)
  BY DEF cli_runtime_launch, R, s
<1>17. DOMAIN own \cap DOMAIN s = {}
  BY <1>5, OwnVars
<1> HIDE DEF wants, launch, own
<1>13. IF launch = None THEN \E w \in wants : w[2] = None
       ELSE wants \cup {<<k, Some(own[k])>> : k \in DOMAIN own} =
              {<<k, Some(Only(launch)[k])>> : k \in DOMAIN Only(launch)}
  <2>1. CASE \E k \in DOMAIN s : R(k) = None
    <3>1. PICK k \in DOMAIN s : R(k) = None
      BY <2>1
    <3>2. <<k, R(k)>> \in wants /\ <<k, R(k)>>[2] = None
      BY <3>1, <1>11
    <3>3. launch = None
      BY <1>12, <2>1
    <3> QED BY <3>2, <3>3
  <2>2. CASE ~\E k \in DOMAIN s : R(k) = None
    <3> DEFINE e == [k \in DOMAIN s |-> Only(R(k))]
               f == e ?? own
    <3>1. launch = Some(f)
      BY <1>12, <2>2
    <3>2. launch # None /\ Only(launch) = f
      BY <3>1, OptionFacts
    <3>3. DOMAIN e = DOMAIN s /\ \A k \in DOMAIN s : Some(e[k]) = R(k)
      BY <1>10, <2>2 DEF IsOption
    <3> HIDE DEF e
    <3>4. /\ DOMAIN f = DOMAIN s \cup DOMAIN own
          /\ \A k \in DOMAIN s : f[k] = e[k]
          /\ \A k \in DOMAIN own : f[k] = own[k]
      BY <3>3, <1>17 DEF ??
    <3> HIDE DEF f
    <3>5. {<<k, R(k)>> : k \in DOMAIN s} \cup {<<k, Some(own[k])>> : k \in DOMAIN own}
            = {<<k, Some(f[k])>> : k \in DOMAIN f}
      BY <3>3, <3>4
    <3> QED BY <3>2, <3>5, <1>11
  <2> QED BY <2>1, <2>2
<1>14. \A k \in DOMAIN s : k = "CONNECTION_API_KEY" => s[k].lit = None
  BY <1>5, KeyUnder
<1>15. /\ launched'.from = Some(doc) /\ launched'.with = values /\ launched'.env = launch
       /\ launched'.recovery = recovery
  BY <1>3
<1>16. Only(launched'.from).key = doc.key
  BY <1>15, OptionFacts
<1> QED BY <1>3, <1>13, <1>14, <1>15, <1>16 
        DEF LaunchIsFrozen, wants, key, model, ModelOf, EnvOf, d, s, own


\* the strings f are what the values w are worth now
Resolves(f, w) == DOMAIN f = DOMAIN w /\ \A k \in DOMAIN w : Some(f[k]) = Under(w[k], values)

LEMMA OverResolves ==
  ASSUME NEW f, NEW w, Resolves(f, w), NEW g, NEW x, Resolves(g, x)
  PROVE  Resolves(f ?? g, w ?? x)
BY DEF Resolves, ??

LEMMA OverAssoc ==
  ASSUME NEW f, NEW g, NEW h
  PROVE  f ?? (g ?? h) = (f ?? g) ?? h
BY DEF ??

\* a string that is not the document's is worth what it says
LEMMA FixedResolves ==
  ASSUME NEW texts
  PROVE  Resolves(texts, Fixed(texts))
BY LiteralFacts DEF Resolves, Fixed, Under

LEMMA ResolvedIs ==
  ASSUME NEW env, EnvOK(env), OneLine(env), MadeInv
  PROVE  /\ Missing(env) <=> \E k \in DOMAIN Written(env) : Under(Written(env)[k], values) = None
         /\ ~Missing(env) => Resolves(resolve_env(env), Written(env))
<1> DEFINE map == IF env.map = None THEN <<>> ELSE Only(env.map)
           known == {k \in DOMAIN map : resolve_one(map[k]) # None}
           a == [k \in known |-> Only(resolve_one(map[k]))]
           b == parse_env_vars(env_to_text(env))
           w == Written(env)
<1>1. resolve_env(env) = a ?? b
  BY DEF resolve_env
<1>2. \A v : resolve_one(v) = Under(v, values)
  BY DEF resolve_one, Under
<1>3. AreValues(w) /\ \A k \in DOMAIN w : IsOption(Under(w[k], values))
  BY WrittenIs, UnderIsOption DEF AreValues, MadeInv
<1>4. CASE env.map # None
  <2>1. env \in Envs /\ map = Only(env.map) /\ w = map
    BY <1>4, WrittenIs DEF EnvOK
  <2>2. DOMAIN b \subseteq {k \in DOMAIN map : ~is_secret(map[k])}
    BY <1>4, <2>1, ParseAssumption
  <2>3. Missing(env) <=> \E k \in DOMAIN w : Under(w[k], values) = None
    BY <1>2, <1>4, <2>1 DEF Missing
  <2> HIDE DEF map, b, w
  <2>4. \A k \in DOMAIN map : ~is_secret(map[k]) => Under(map[k], values) # None
    BY <1>3, <2>1, LiteralIs, OptionFacts, LiteralFacts DEF AreValues, Under
  <2>5. ASSUME ~Missing(env) PROVE Resolves(a ?? b, w)
    <3>1. known = DOMAIN w /\ DOMAIN b \subseteq DOMAIN w
      BY <2>1, <2>2, <2>3, <2>5, <1>2
    <3>2. DOMAIN a = DOMAIN w
      BY <3>1
    <3>3. \A k \in DOMAIN w : Some(a[k]) = Under(w[k], values)
      BY <3>1, <2>1, <2>3, <2>5, <1>2, <1>3 DEF IsOption
    <3> HIDE DEF a
    <3> QED BY <3>1, <3>2, <3>3 DEF Resolves, ??
  <2> QED BY <1>1, <2>3, <2>5 DEF w, b, map
<1>5. CASE env.map = None
  <2> DEFINE t == IF env.text = None THEN <<>> ELSE Only(env.text)
  <2>1. env_to_text(env) = t
    BY <1>5 DEF env_to_text
  <2>2. DOMAIN w = DOMAIN b /\ \A k \in DOMAIN w : w[k] = Lit(b[k])
    BY <1>5, <2>1, WrittenIs
  <2>3. DOMAIN a = {}
    BY <1>5, NoKeys
  <2>4. ~Missing(env)
    BY <1>5 DEF Missing
  <2> HIDE DEF a, b, w
  <2>5. \A k \in DOMAIN w : Under(w[k], values) = Some(b[k])
    BY <2>2, LiteralFacts DEF Under
  <2>6. \A k \in DOMAIN w : Under(w[k], values) # None
    BY <2>5, OptionFacts
  <2>7. Resolves(a ?? b, w)
    BY <2>2, <2>3, <2>5 DEF Resolves, ??
  <2> QED BY <1>1, <2>4, <2>6, <2>7 DEF w, a, b
<1> QED BY <1>4, <1>5

LEMMA Single ==
  ASSUME NEW name, NEW v, IsOption(Under(v, values)), Under(v, values) # None
  PROVE  Resolves(Var(name, Under(v, values)), One(name, v))
BY DEF Resolves, Var, One, IsOption

LEMMA Absent == Resolves(<<>>, <<>>)
BY NoKeys DEF Resolves

LEMMA ChatLaunch ==
  ASSUME DocInv, MadeInv, NEW recovery \in BOOLEAN, Launched("chat", recovery, session_env(recovery))
  PROVE  StartedAsWritten'
<1> DEFINE agent == Written(doc.agentEnv)
           kernel == Written(KernelEnv(doc))
           prompt == IF Under(doc.prompt, values) \in {None, Some(Empty)} THEN <<>>
                     ELSE One("KERNEL_SYSTEM_PROMPT", doc.prompt)
           key == IF doc.key = None THEN <<>> ELSE One("CONNECTION_API_KEY", Only(doc.key))
           url == One("CONNECTION_URL", doc.url)
           flavor == One("CONNECTION_API_FLAVOR", Lit(doc.flavor))
           own == Fixed(ServiceVars(recovery))
           chat == own ?? prompt ?? agent ?? url ?? flavor ?? key ?? kernel
           named == (UNION {{m[k] : k \in DOMAIN m} : m \in {agent, kernel}}) \cup {doc.url, doc.prompt}
                      \cup (IF doc.key = None THEN {} ELSE {Only(doc.key)})
           env == session_env(recovery)
<1>1. launched' = [what |-> "chat", from |-> Some(doc), with |-> values, recovery |-> recovery, env |-> env]
  BY DEF Launched
<1>2. /\ launched'.what = "chat" /\ launched'.with = values /\ launched'.env = env
      /\ launched'.recovery = recovery
      /\ launched'.from = Some(doc)
  BY <1>1
<1>3. Only(launched'.from) = doc
  BY <1>2, OptionFacts
<1>4. /\ IsValue(doc.url) /\ IsValue(doc.prompt) /\ (doc.key # None => IsValue(Only(doc.key)))
      /\ EnvOK(doc.agentEnv) /\ EnvOK(KernelEnv(doc)) /\ \A s \in Secrets : IsOption(values[s])
  BY KernelEnvOK DEF DocInv, DocOK, IsDocument, MadeInv
<1>5. /\ IsOption(Under(doc.url, values)) /\ IsOption(Under(doc.prompt, values))
      /\ doc.key # None => IsOption(Under(Only(doc.key), values))
  BY <1>4, UnderIsOption
<1>6. ASSUME OneLine(doc.agentEnv), OneLine(KernelEnv(doc))
      PROVE  IF env = None THEN \E v \in named : Under(v, values) = None
             ELSE /\ \A v \in named : Under(v, values) # None
                  /\ Resolves(Only(env), chat)
  <2> DEFINE o == Under(doc.prompt, values)
             p == IF Only(o) = Empty THEN <<>> ELSE Var("KERNEL_SYSTEM_PROMPT", o)
             ok == IF doc.key = None THEN None ELSE Under(Only(doc.key), values)
             sv == ServiceVars(recovery)
             cu == Var("CONNECTION_URL", Under(doc.url, values))
             cf == One("CONNECTION_API_FLAVOR", doc.flavor)
             ck == Var("CONNECTION_API_KEY", ok)
             lost == Under(doc.url, values) = None \/ (doc.key # None /\ ok = None)
             ra == resolve_env(doc.agentEnv)
             rk == resolve_env(KernelEnv(doc))
             missing == Missing(KernelEnv(doc)) \/ Missing(doc.agentEnv) \/ o = None \/ lost
  <2>1. \A v : resolve_one(v) = Under(v, values)
    BY DEF resolve_one, Under
  <2>2. resolve_connection.env = cu ?? cf ?? ck /\ (resolve_connection.missing <=> lost)
    BY <2>1 DEF resolve_connection
  <2>3. resolve_agent_system_prompt = o
    BY <2>1 DEF resolve_agent_system_prompt
  <2>4. env = IF missing THEN None ELSE Some(sv ?? p ?? ra ?? (cu ?? cf ?? ck) ?? rk)
    BY <2>2, <2>3 DEF session_env, Overlay
  <2>5. missing <=> \E v \in named : Under(v, values) = None
    <3>1. /\ Missing(doc.agentEnv) <=> \E k \in DOMAIN agent : Under(agent[k], values) = None
          /\ Missing(KernelEnv(doc)) <=> \E k \in DOMAIN kernel : Under(kernel[k], values) = None
      BY <1>4, <1>6, ResolvedIs
    <3> HIDE DEF agent, kernel
    <3>2. lost <=> \E v \in {doc.url} \cup (IF doc.key = None THEN {} ELSE {Only(doc.key)}) : Under(v, values) = None
      OBVIOUS
    <3> HIDE DEF lost
    <3> QED BY <3>1, <3>2
  <2>6. ASSUME ~missing PROVE Resolves(sv ?? p ?? ra ?? (cu ?? cf ?? ck) ?? rk, chat)
    <3>1. Resolves(ra, agent) /\ Resolves(rk, kernel)
      BY <1>4, <1>6, <2>6, ResolvedIs
    <3>2. Resolves(cu, url)
      BY <2>6, <1>5, Single
    <3>3. Resolves(ck, key)
      <4>1. CASE doc.key = None
        <5>1. ck = <<>> /\ key = <<>>
          BY <4>1 DEF Var
        <5> QED BY <5>1, Absent
      <4>2. CASE doc.key # None
        BY <4>2, <2>6, <1>5, Single
      <4> QED BY <4>1, <4>2
    <3>4. Resolves(p, prompt)
      <4>1. o = Some(Only(o)) /\ o # None
        BY <2>6, <1>5 DEF IsOption
      <4>2. CASE Only(o) = Empty
        <5>1. p = <<>> /\ prompt = <<>>
          BY <4>1, <4>2
        <5> QED BY <5>1, Absent
      <4>3. CASE Only(o) # Empty
        <5>1. o # Some(Empty)
          BY <4>3, OptionFacts
        <5>2. prompt = One("KERNEL_SYSTEM_PROMPT", doc.prompt) /\ p = Var("KERNEL_SYSTEM_PROMPT", o)
          BY <4>1, <4>3, <5>1
        <5> QED BY <5>2, <4>1, <1>5, Single
      <4> QED BY <4>2, <4>3
    <3>5. Resolves(sv, own) /\ Resolves(cf, flavor)
      <4>1. Under(Lit(doc.flavor), values) = Some(doc.flavor)
        BY LiteralFacts DEF Under
      <4> QED BY <4>1, FixedResolves DEF Resolves, One
    <3> HIDE DEF sv, p, ra, cu, cf, ck, rk, own, prompt, agent, url, flavor, key, kernel
    <3>6. Resolves(sv ?? p ?? ra, own ?? prompt ?? agent)
      BY <3>1, <3>4, <3>5, OverResolves
    <3>7. Resolves(cu ?? cf ?? ck, url ?? flavor ?? key)
      BY <3>2, <3>3, <3>5, OverResolves
    <3>8. Resolves(sv ?? p ?? ra ?? (cu ?? cf ?? ck) ?? rk,
                   (own ?? prompt ?? agent) ?? (url ?? flavor ?? key) ?? kernel)
      BY <3>1, <3>6, <3>7, OverResolves
    <3>9. (own ?? prompt ?? agent) ?? (url ?? flavor ?? key) = own ?? prompt ?? agent ?? url ?? flavor ?? key
      BY OverAssoc
    <3> QED BY <3>8, <3>9
  <2> HIDE DEF missing, sv, p, ra, cu, cf, ck, rk, chat, named
  <2>7. CASE missing
    <3>1. env = None
      BY <2>4, <2>7
    <3> QED BY <3>1, <2>5, <2>7
  <2>8. CASE ~missing
    <3>1. env # None /\ Only(env) = sv ?? p ?? ra ?? (cu ?? cf ?? ck) ?? rk
      BY <2>4, <2>8, OptionFacts
    <3> QED BY <3>1, <2>5, <2>6, <2>8
  <2> QED BY <2>7, <2>8
<1> QED BY <1>2, <1>3, <1>6 DEF StartedAsWritten, Resolves

LEMMA GatewayLaunch ==
  ASSUME DocInv, MadeInv, StartGateway
  PROVE  StartedAsWritten'
<1> DEFINE secrets == doc.gatewaySecrets
           flat == Written(doc.gatewayEnv)
           want == secrets ?? flat
           named == UNION {{m[k] : k \in DOMAIN m} : m \in {secrets, flat}}
           env == resolve_gateway_env
<1>1. launched' = [what |-> "gateway", from |-> Some(doc), with |-> values, recovery |-> FALSE, env |-> env]
  BY DEF StartGateway, Launched
<1>2. /\ launched'.what = "gateway" /\ launched'.with = values /\ launched'.env = env
      /\ launched'.from = Some(doc)
  BY <1>1
<1>3. Only(launched'.from) = doc
  BY <1>2, OptionFacts
<1>4. /\ AreValues(secrets) /\ EnvOK(doc.gatewayEnv) /\ \A s \in Secrets : IsOption(values[s])
  BY DEF DocInv, DocOK, IsDocument, MadeInv
<1>5. \A k \in DOMAIN secrets : IsOption(Under(secrets[k], values))
  BY <1>4, UnderIsOption DEF AreValues
<1>6. ASSUME OneLine(doc.gatewayEnv)
      PROVE  IF env = None THEN \E v \in named : Under(v, values) = None
             ELSE /\ \A v \in named : Under(v, values) # None
                  /\ Resolves(Only(env), want)
  <2> DEFINE a == [k \in DOMAIN secrets |-> Only(Under(secrets[k], values))]
             r == resolve_env(doc.gatewayEnv)
             lost == \E k \in DOMAIN secrets : Under(secrets[k], values) = None
  <2>1. \A v : resolve_one(v) = Under(v, values)
    BY DEF resolve_one, Under
  <2>2. Missing(Env(Some(secrets), None)) <=> lost
    <3>1. Env(Some(secrets), None).map # None /\ Only(Env(Some(secrets), None).map) = secrets
      BY OptionFacts DEF Env
    <3> QED BY <3>1, <2>1 DEF Missing
  <2>3. env = IF Missing(doc.gatewayEnv) \/ lost THEN None ELSE Some(a ?? r)
    BY <2>1, <2>2 DEF resolve_gateway_env
  <2>4. Missing(doc.gatewayEnv) <=> \E k \in DOMAIN flat : Under(flat[k], values) = None
    BY <1>4, <1>6, ResolvedIs
  <2>5. Missing(doc.gatewayEnv) \/ lost <=> \E v \in named : Under(v, values) = None
    <3> HIDE DEF secrets, flat
    <3> QED BY <2>4
  <2>6. ASSUME ~Missing(doc.gatewayEnv), ~lost PROVE Resolves(a ?? r, want)
    <3>1. Resolves(r, flat)
      BY <2>6, <1>4, <1>6, ResolvedIs
    <3>2. Resolves(a, secrets)
      BY <2>6, <1>5 DEF Resolves, IsOption
    <3> HIDE DEF a, r, secrets, flat
    <3> QED BY <3>1, <3>2 DEF Resolves, ??
  <2> HIDE DEF lost, a, r, want, named
  <2>7. CASE Missing(doc.gatewayEnv) \/ lost
    BY <2>3, <2>5, <2>7
  <2>8. CASE ~(Missing(doc.gatewayEnv) \/ lost)
    <3>1. env # None /\ Only(env) = a ?? r
      BY <2>3, <2>8, OptionFacts
    <3> QED BY <3>1, <2>5, <2>6, <2>8
  <2> QED BY <2>7, <2>8
<1> QED BY <1>2, <1>3, <1>6 DEF StartedAsWritten, Resolves

ValuesInv == DocInv /\ MadeInv /\ EditChangesOnlyIt /\ LaunchIsFrozen /\ StartedAsWritten

LEMMA ValuesInvInit == ValuesInit => ValuesInv
<1> SUFFICES ASSUME ValuesInit PROVE ValuesInv
  OBVIOUS
<1>1. /\ values = [s \in Secrets |-> Some(Str("v"))] /\ snapshot = None /\ launched.what = "nothing"
  BY DEF ValuesInit, ValuesBegin, NotLaunched
<1>2. MadeInv
  BY <1>1, OptionFacts DEF MadeInv
<1> QED BY <1>1, <1>2, DocInit DEF ValuesInv, LaunchIsFrozen, StartedAsWritten

LEMMA ValuesInvStep == ValuesInv /\ [ValuesNext]_valueVars => ValuesInv'
<1> SUFFICES ASSUME ValuesInv, [ValuesNext]_valueVars PROVE ValuesInv'
  OBVIOUS
<1>1. DocInv' /\ EditChangesOnlyIt'
  BY DocStep DEF ValuesInv
<1>2. ASSUME launched'.what = "nothing", UNCHANGED <<made, snapshot>>,
             values' = [s \in Secrets |-> values'[s]], \A s \in Secrets : IsOption(values'[s])
      PROVE  ValuesInv'
  BY <1>1, <1>2 DEF ValuesInv, MadeInv, LaunchIsFrozen, StartedAsWritten
<1>3. ASSUME NEW q \in Requests, Edit(q) PROVE ValuesInv'
  BY <1>2, <1>3 DEF Edit, ValuesInv, MadeInv, NotLaunched
<1>4. ASSUME NEW s \in Secrets, SetSecret(s) PROVE ValuesInv'
  <2>1. PICK v \in {None, Some(Str("w"))} : values' = [values EXCEPT ![s] = v]
    BY <1>4 DEF SetSecret
  <2>2. IsOption(v)
    BY <2>1, OptionFacts
  <2>3. values' = [x \in Secrets |-> values'[x]] /\ \A x \in Secrets : IsOption(values'[x])
    BY <2>1, <2>2 DEF ValuesInv, MadeInv
  <2> QED BY <1>2, <1>4, <2>3 DEF SetSecret, NotLaunched
<1>5. CASE CreateCli
  <2>1. /\ snapshot = None /\ snapshot' = Some(LaunchSnapshot(doc)) /\ made' = Some(doc)
        /\ UNCHANGED <<doc, values, launched, before, edit, steps>>
    BY <1>5, SnapshotNow DEF CreateCli
  <2>2. Only(made') = doc /\ launched.what # "cli" /\ DocOK(doc)
    BY <2>1, OptionFacts DEF ValuesInv, MadeInv, DocInv
  <2>3. MadeInv'
    BY <2>1, <2>2, OptionFacts DEF ValuesInv, MadeInv
  <2>4. LaunchIsFrozen' /\ StartedAsWritten'
    BY <2>1, <2>2 DEF ValuesInv, LaunchIsFrozen, StartedAsWritten
  <2> QED BY <1>1, <2>3, <2>4 DEF ValuesInv
<1>6. CASE LaunchCli
  <2>1. LaunchIsFrozen'
    BY <1>6, CliLaunch DEF ValuesInv, LaunchCli
  <2>2. MadeInv' /\ launched'.what = "cli"
    BY <1>6 DEF LaunchCli, Launched, ValuesInv, MadeInv
  <2> QED BY <1>1, <2>1, <2>2 DEF ValuesInv, StartedAsWritten
<1>7. CASE StartChat
  <2>1. MadeInv' /\ launched'.what = "chat"
    BY <1>7 DEF StartChat, Launched, ValuesInv, MadeInv
  <2> QED BY <1>1, <1>7, <2>1, ChatLaunch DEF ValuesInv, LaunchIsFrozen, StartChat
<1>8. CASE StartGateway
  <2>1. MadeInv' /\ launched'.what = "gateway"
    BY <1>8 DEF StartGateway, Launched, ValuesInv, MadeInv
  <2> QED BY <1>1, <1>8, <2>1, GatewayLaunch DEF ValuesInv, LaunchIsFrozen
<1>9. CASE UNCHANGED valueVars
  BY <1>1, <1>9 DEF valueVars, ValuesInv, MadeInv, LaunchIsFrozen, StartedAsWritten
<1> QED BY <1>3, <1>4, <1>5, <1>6, <1>7, <1>8, <1>9 DEF ValuesNext

\* A CLI session is launched with what the document said when create_cli_session took the
\* snapshot, whatever was edited and whichever secrets were set or cleared since, and with
\* the variables that runtime_launch and session_env add of their own.
THEOREM LaunchesStayFrozen == ValuesSpec => []LaunchIsFrozen
<1>1. ValuesInv => LaunchIsFrozen
  BY DEF ValuesInv
<1> QED BY <1>1, ValuesInvInit, ValuesInvStep, PTL DEF ValuesSpec

\* session_env and resolve_gateway_env overlay their sources so that every variable of a
\* chat session or a gateway that is not the service's own is as the document writes it now,
\* and the service's own are what it inserts over them.
THEOREM StartsAreAsWritten == ValuesSpec => []StartedAsWritten
<1>1. ValuesInv => StartedAsWritten
  BY DEF ValuesInv
<1> QED BY <1>1, ValuesInvInit, ValuesInvStep, PTL DEF ValuesSpec

----------------------------------------------------------------------------
(* The invariant.                                                          *)

\* a request that is about to write the volume of its workspace, or a container that does
Active(c) == copier[c].state = "running" \/ req[c].pc = "ask"

\* a save or clone between its insertion and its last write
Busy(c) ==
  \/ copier[c].state = "running"
  \/ req[c].op \in {"save", "clone"} /\ req[c].pc \in {"ask", "copying", "write"}

\* where the requests are, and what they have then
StageInv ==
  \A c \in Clients :
    /\ req[c].pc \in {"insert", "ask", "copying"} => req[c].op \in {"save", "clone"}
    /\ req[c].pc = "write" => req[c].op \in {"save", "clone", "rename"}
    /\ req[c].pc \notin {"idle", "over"} => req[c].w \in Ids
    /\ req[c].op = "save" => req[c].src = Nobody /\ Always \subseteq req[c].exclude
    /\ req[c].op = "clone" => req[c].src # Nobody
    /\ copier[c].state # "none" =>
         /\ req[c].op \in {"save", "clone"} /\ req[c].pc \in {"copying", "write", "over"}
         /\ req[c].w \in Ids /\ volume[req[c].w] \in Trees
         /\ req[c].src \in Ids => volume[req[c].src] \in Trees

\* nothing AgentSpace put into a session is ever in the volume of a workspace
CleanInv == \A w \in Ids : volume[w] \in Trees => \A e \in Entries : volume[w][e] # "owned"

\* a save or clone that has inserted its row: it keeps its workspace from then on
Started(q) == q.op \in {"save", "clone"} /\ q.pc \in {"ask", "copying", "write", "over"}

\* a row that came with a copy names its request, and that request alone works on the workspace
OwnerInv ==
  \A w \in Ids :
    /\ rows[w] # NoRow /\ rows[w].copied =>
         rows[w].by \in Clients /\ req[rows[w].by].w = w /\ Started(req[rows[w].by])
    /\ \A c \in Clients :
         w \notin torn /\ req[c].w = w /\ Busy(c)
           => rows[w] # NoRow /\ rows[w].copied /\ rows[w].by = c

\* what a user left and a save has come past is in the volume, what it excludes never is
CopiedSoFar(c) ==
  \A e \in Entries :
    /\ e \notin copier[c].rest /\ Scratch[e] = "user" /\ (e \in Managed \/ e \notin req[c].exclude)
         => volume[req[c].w][e] = "user"
    /\ e \in req[c].exclude \ Managed => volume[req[c].w][e] = "nothing"
CopyInv ==
  \A c \in Clients :
    copier[c].state = "running" /\ req[c].op = "save" /\ req[c].w \notin torn => CopiedSoFar(c)

\* what ReadyIsWhole says of a workspace that is ready
Whole(w) ==
  /\ copier[rows[w].by].state = "done"
  /\ \A d \in Clients : req[d].w = w => copier[d].state # "running"
  /\ req[rows[w].by].op = "save" => SnapshotOf(volume[w], req[rows[w].by].exclude)
WholeInv == \A w \in Ids : w \notin torn /\ Ready(w) /\ rows[w].copied => Whole(w)

\* a request that holds the record of a workspace tells the truth about it
HeldInv ==
  \A c \in Clients :
    req[c].pc = "write" /\ req[c].w \notin torn =>
      /\ rows[req[c].w] # NoRow
      /\ req[c].status = "ready" /\ rows[req[c].w].copied => Whole(req[c].w)

\* the lock of an editor, and what its holder has seen
EditorInv ==
  \A c \in Clients :
    /\ req[c].pc \in {"inspect", "remove", "create", "start"} => locks[req[c].w] = c
    /\ req[c].pc = "remove" => editor[req[c].w] # "running"

IndInv == TypeOK /\ StageInv /\ CleanInv /\ OwnerInv /\ CopyInv /\ WholeInv /\ HeldInv /\ EditorInv


----------------------------------------------------------------------------
(* Steps that replace the record of one request.                           *)

Requested == [op : Ops \cup {"none"}, w : Ids \cup {Nobody}, src : Origins, exclude : SUBSET Entries,
              pc : Pcs, status : Statuses]

\* what a record that replaces the one of c must have
Follows(c, r) ==
  /\ r.pc \in {"insert", "ask", "copying"} => r.op \in {"save", "clone"}
  /\ r.pc = "write" => r.op \in {"save", "clone", "rename"}
  /\ r.pc \notin {"idle", "over"} => r.w \in Ids
  /\ r.op = "save" => r.src = Nobody /\ Always \subseteq r.exclude
  /\ r.op = "clone" => r.src # Nobody
  /\ Started(req[c]) =>
       /\ Started(r) /\ r.op = req[c].op /\ r.w = req[c].w /\ r.src = req[c].src /\ r.exclude = req[c].exclude
       /\ copier[c].state # "none" => r.pc \in {"copying", "write", "over"}

\* Putting a record at c changes the request of c only.
LEMMA ReqAt ==
  ASSUME NEW F, NEW G, NEW c \in Clients, NEW r,
         DOMAIN F = Clients, G = [F EXCEPT ![c] = r]
  PROVE  G[c] = r /\ \A d \in Clients : d # c => G[d] = F[d]
OBVIOUS

\* A request whose container exists has inserted its row.
LEMMA CopierStarted ==
  ASSUME StageInv, NEW c \in Clients, copier[c].state # "none"
  PROVE  Started(req[c])
BY DEF StageInv, Started

\* What a request's new record leaves of the invariant when no volume and no container changes.
LEMMA ReqStep ==
  ASSUME IndInv, NEW c \in Clients, NEW r \in Requested, req' = [req EXCEPT ![c] = r],
         Follows(c, r), volume' = volume, copier' = copier, torn \subseteq torn'
  PROVE  /\ StageInv' /\ CleanInv' /\ CopyInv'
         /\ \A w \in Ids : rows[w] # NoRow /\ rows[w].copied /\ Whole(w) /\ rows'[w].by = rows[w].by
                            => Whole(w)'
<1>1. req'[c] = r /\ \A d \in Clients : d # c => req'[d] = req[d]
  BY ReqAt, Zenon DEF IndInv, TypeOK
<1>2. \A d \in Clients : copier[d].state # "none" =>
        /\ req'[d].op = req[d].op /\ req'[d].w = req[d].w /\ req'[d].src = req[d].src
        /\ req'[d].exclude = req[d].exclude
  BY <1>1, CopierStarted DEF IndInv, Follows
<1>3. StageInv'
  <2> SUFFICES ASSUME NEW d \in Clients
               PROVE  (/\ req[d].pc \in {"insert", "ask", "copying"} => req[d].op \in {"save", "clone"}
                       /\ req[d].pc = "write" => req[d].op \in {"save", "clone", "rename"}
                       /\ req[d].pc \notin {"idle", "over"} => req[d].w \in Ids
                       /\ req[d].op = "save" => req[d].src = Nobody /\ Always \subseteq req[d].exclude
                       /\ req[d].op = "clone" => req[d].src # Nobody
                       /\ copier[d].state # "none" =>
                            /\ req[d].op \in {"save", "clone"} /\ req[d].pc \in {"copying", "write", "over"}
                            /\ req[d].w \in Ids /\ volume[req[d].w] \in Trees
                            /\ req[d].src \in Ids => volume[req[d].src] \in Trees)'
    BY DEF StageInv
  <2>1. CASE d # c
    BY <1>1, <2>1 DEF IndInv, StageInv
  <2>2. CASE d = c
    <3>1. copier[c].state # "none" => Started(req[c])
      BY CopierStarted DEF IndInv
    <3> QED
      BY <1>1, <2>2, <3>1 DEF IndInv, StageInv, Follows
  <2> QED
    BY <2>1, <2>2
<1>4. CleanInv'
  BY DEF IndInv, CleanInv
<1>5. CopyInv'
  <2> SUFFICES ASSUME NEW d \in Clients, copier[d].state = "running", req'[d].op = "save",
                      req'[d].w \notin torn'
               PROVE  CopiedSoFar(d)'
    BY DEF CopyInv
  <2>1. req'[d].op = req[d].op /\ req'[d].w = req[d].w /\ req'[d].exclude = req[d].exclude
    BY <1>2
  <2>2. CopiedSoFar(d)
    BY <2>1 DEF IndInv, CopyInv
  <2> QED
    BY <2>1, <2>2 DEF CopiedSoFar
<1>6. ASSUME NEW w \in Ids, rows[w] # NoRow, rows[w].copied, Whole(w), rows'[w].by = rows[w].by
      PROVE  Whole(w)'
  <2>1. rows[w].by \in Clients
    BY <1>6 DEF IndInv, OwnerInv
  <2>2. copier[rows[w].by].state = "done"
    BY <1>6 DEF Whole
  <2>3. req'[rows[w].by].op = req[rows[w].by].op /\ req'[rows[w].by].exclude = req[rows[w].by].exclude
    BY <1>2, <2>1, <2>2
  <2>4. \A d \in Clients : req'[d].w = w => copier[d].state # "running"
    BY <1>2, <1>6 DEF Whole
  <2> QED
    BY <1>6, <2>2, <2>3, <2>4 DEF Whole, SnapshotOf
<1> QED
  BY <1>3, <1>4, <1>5, <1>6

\* the parts of the invariant that speak of rows and volumes
DataInv == StageInv /\ CleanInv /\ OwnerInv /\ CopyInv /\ WholeInv /\ HeldInv

\* The rows stay as well: what remains is what the new record itself claims.
LEMMA QuietStep ==
  ASSUME IndInv, NEW c \in Clients, NEW r \in Requested, req' = [req EXCEPT ![c] = r],
         Follows(c, r), volume' = volume, copier' = copier, torn' = torn, rows' = rows,
         r.op \in {"save", "clone"} /\ r.pc \in {"ask", "copying", "write"} => Busy(c) /\ Started(req[c]),
         r.pc = "write" /\ r.w \notin torn =>
           rows[r.w] # NoRow /\ (r.status = "ready" /\ rows[r.w].copied => Whole(r.w))
  PROVE  DataInv'
<1>1. req'[c] = r /\ \A d \in Clients : d # c => req'[d] = req[d]
  BY ReqAt, Zenon DEF IndInv, TypeOK
<1>2. /\ StageInv' /\ CleanInv' /\ CopyInv'
      /\ \A w \in Ids : rows[w] # NoRow /\ rows[w].copied /\ Whole(w) => Whole(w)'
  BY ReqStep
<1>3. OwnerInv'
  <2> SUFFICES ASSUME NEW w \in Ids
               PROVE  /\ rows[w] # NoRow /\ rows[w].copied =>
                           rows[w].by \in Clients /\ req'[rows[w].by].w = w /\ Started(req'[rows[w].by])
                      /\ \A d \in Clients : w \notin torn /\ req'[d].w = w /\ Busy(d)'
                           => rows[w] # NoRow /\ rows[w].copied /\ rows[w].by = d
    BY DEF OwnerInv, Started
  <2>1. rows[w] # NoRow /\ rows[w].copied =>
          rows[w].by \in Clients /\ req[rows[w].by].w = w /\ Started(req[rows[w].by])
    BY DEF IndInv, OwnerInv
  <2>2. Started(req[c]) => Started(r) /\ r.w = req[c].w
    BY DEF Follows
  <2>3. ASSUME NEW d \in Clients, w \notin torn, req'[d].w = w, Busy(d)'
        PROVE  req[d].w = w /\ Busy(d)
    <3>1. CASE d # c
      BY <1>1, <2>3, <3>1 DEF Busy
    <3>2. CASE d = c
      <4>1. copier[c].state = "running" => Started(req[c]) /\ Busy(c)
        BY CopierStarted DEF IndInv, Busy
      <4>2. copier[c].state = "running" \/ (r.op \in {"save", "clone"} /\ r.pc \in {"ask", "copying", "write"})
        BY <1>1, <2>3, <3>2 DEF Busy
      <4> QED
        BY <1>1, <2>2, <2>3, <3>2, <4>1, <4>2
    <3> QED
      BY <3>1, <3>2
  <2>4. rows[w] # NoRow /\ rows[w].copied =>
          req'[rows[w].by].w = w /\ Started(req'[rows[w].by])
    BY <1>1, <2>1, <2>2
  <2> QED
    BY <2>1, <2>3, <2>4 DEF IndInv, OwnerInv
<1>4. WholeInv'
  <2> SUFFICES ASSUME NEW w \in Ids, w \notin torn, Ready(w), rows[w].copied
               PROVE  Whole(w)'
    BY DEF WholeInv, Ready
  <2> QED
    BY <1>2 DEF IndInv, WholeInv, Ready
<1>5. HeldInv'
  <2> SUFFICES ASSUME NEW d \in Clients, req'[d].pc = "write", req'[d].w \notin torn
               PROVE  /\ rows[req'[d].w] # NoRow
                      /\ req'[d].status = "ready" /\ rows[req'[d].w].copied => (Whole(req[d].w))'
    BY DEF HeldInv
  <2>1. req'[d].w \in Ids
    BY <1>2 DEF StageInv
  <2>2. /\ rows[req'[d].w] # NoRow
        /\ req'[d].status = "ready" /\ rows[req'[d].w].copied => Whole(req'[d].w)
    BY <1>1 DEF IndInv, HeldInv
  <2>3. ASSUME NEW w \in Ids, w = req'[d].w, Whole(w)'
        PROVE  (Whole(req[d].w))'
    BY <2>3 DEF Whole
  <2> QED
    BY <1>2, <2>1, <2>2, <2>3
<1> QED
  BY <1>2, <1>3, <1>4, <1>5 DEF DataInv

\* The requests stay well typed.
LEMMA ReqTyped ==
  ASSUME TypeOK, NEW c \in Clients, NEW r \in Requested, req' = [req EXCEPT ![c] = r]
  PROVE  req' \in [Clients -> Requested]
BY DEF TypeOK, Requested

\* A request that leaves the editor's handler alone, or leaves it and frees its locks.
LEMMA EditorStep ==
  ASSUME IndInv, NEW c \in Clients, NEW r \in Requested, req' = [req EXCEPT ![c] = r],
         r.pc \notin {"inspect", "remove", "create", "start"},
         editor' = editor, locks' = locks \/ Unlock(c)
  PROVE  EditorInv'
<1>1. req'[c] = r /\ \A d \in Clients : d # c => req'[d] = req[d]
  BY ReqAt, Zenon DEF IndInv, TypeOK
<1> SUFFICES ASSUME NEW d \in Clients, d # c, req[d].pc \in {"inspect", "remove", "create", "start"}
             PROVE  locks'[req[d].w] = d /\ (req[d].pc = "remove" => editor[req[d].w] # "running")
  BY <1>1 DEF EditorInv
<1>2. req[d].w \in Ids
  BY DEF IndInv, StageInv
<1>3. locks[req[d].w] = d /\ (req[d].pc = "remove" => editor[req[d].w] # "running")
  BY DEF IndInv, EditorInv
<1> QED
  BY <1>2, <1>3 DEF Unlock

\* What a handler leaves behind when it is gone.
LEMMA FinishStep ==
  ASSUME IndInv, NEW c \in Clients, Finish(c)
  PROVE  \E r \in Requested : /\ req' = [req EXCEPT ![c] = r] /\ r.pc = "over" /\ Follows(c, r)
                             /\ req' \in [Clients -> Requested]
<1>1. req[c] \in Requested
  BY DEF IndInv, TypeOK, Requested
<1>2. ASSUME req[c].op \in {"save", "clone"}
      PROVE  \E r \in Requested : /\ req' = [req EXCEPT ![c] = r] /\ r.pc = "over" /\ Follows(c, r)
                                 /\ req' \in [Clients -> Requested]
  <2> DEFINE r == [req[c] EXCEPT !.pc = "over", !.status = "failed"]
  <2>1. r \in Requested
    BY <1>1 DEF Requested, Pcs, Statuses
  <2>2. req' = [req EXCEPT ![c] = r]
    BY <1>2 DEF Finish, IndInv, TypeOK
  <2>3. Follows(c, r)
    BY <1>1, <1>2 DEF Follows, Started, IndInv, StageInv, Requested
  <2>4. req' \in [Clients -> Requested]
    BY <2>1, <2>2, ReqTyped DEF IndInv
  <2>5. r.pc = "over"
    BY <1>1 DEF Requested
  <2> QED
    BY <2>1, <2>2, <2>3, <2>4, <2>5
<1>3. ASSUME req[c].op \notin {"save", "clone"}
      PROVE  \E r \in Requested : /\ req' = [req EXCEPT ![c] = r] /\ r.pc = "over" /\ Follows(c, r)
                                 /\ req' \in [Clients -> Requested]
  <2> DEFINE r == [NoRequest EXCEPT !.pc = "over", !.status = "failed"]
  <2>1. r \in Requested /\ r.op = "none" /\ r.pc = "over"
    <3>1. NoRequest \in Requested /\ NoRequest.op = "none"
      BY DEF NoRequest, Requested, Pcs, Statuses, Origins
    <3> QED
      BY <3>1 DEF Requested, Pcs, Statuses
  <2>2. req' = [req EXCEPT ![c] = r]
    BY <1>3, Zenon DEF Finish
  <2> HIDE DEF r
  <2>3. Follows(c, r)
    BY <1>1, <1>3, <2>1 DEF Follows, Started
  <2>4. req' \in [Clients -> Requested]
    BY <2>1, <2>2, ReqTyped DEF IndInv
  <2> QED
    BY <2>1, <2>2, <2>3, <2>4
<1> QED
  BY <1>2, <1>3

\* A handler that ends without a word to the store.
LEMMA FinishQuiet ==
  ASSUME IndInv, NEW c \in Clients, Finish(c),
         volume' = volume, copier' = copier, torn' = torn, rows' = rows
  PROVE  DataInv' /\ req' \in [Clients -> Requested]
<1>1. PICK r \in Requested : /\ req' = [req EXCEPT ![c] = r] /\ r.pc = "over" /\ Follows(c, r)
                            /\ req' \in [Clients -> Requested]
  BY FinishStep
<1> QED
  BY <1>1, QuietStep

LEMMA FinishEditor ==
  ASSUME IndInv, NEW c \in Clients, Finish(c), editor' = editor, locks' = locks \/ Unlock(c)
  PROVE  EditorInv'
<1>1. PICK r \in Requested : /\ req' = [req EXCEPT ![c] = r] /\ r.pc = "over" /\ Follows(c, r)
  BY FinishStep
<1> QED
  BY <1>1, EditorStep

\* The first step of a request.
LEMMA BeginStep ==
  ASSUME IndInv, NEW c \in Clients, NEW op, NEW w \in Ids, NEW src \in Origins,
         NEW exclude \in SUBSET Entries, NEW pc \in Pcs,
         BeginCopy(c, op, w, src, exclude, pc), pc \in {"insert", "read", "lock"},
         pc = "insert" => op \in {"save", "clone"},
         op = "save" => src = Nobody /\ Always \subseteq exclude, op = "clone" => src # Nobody,
         volume' = volume, copier' = copier, torn' = torn, rows' = rows,
         editor' = editor, locks' = locks
  PROVE  DataInv' /\ EditorInv' /\ req' \in [Clients -> Requested]
<1> DEFINE r == [op |-> op, w |-> w, src |-> src, exclude |-> exclude, pc |-> pc, status |-> "failed"]
<1>1. r \in Requested /\ req' = [req EXCEPT ![c] = r] /\ req[c].pc = "idle"
  BY DEF BeginCopy, Requested, Statuses
<1>2. Follows(c, r)
  BY <1>1 DEF Follows, Started
<1>3. req' \in [Clients -> Requested]
  BY <1>1, ReqTyped DEF IndInv
<1> HIDE DEF r
<1>4. DataInv'
  <2>1. r.pc \notin {"ask", "copying", "write"}
    BY DEF r
  <2> QED
    BY <1>1, <1>2, <2>1, QuietStep
<1>5. EditorInv'
  <2>1. r.pc \notin {"inspect", "remove", "create", "start"}
    BY DEF r
  <2> QED
    BY <1>1, <2>1, EditorStep
<1> QED
  BY <1>3, <1>4, <1>5

\* A handler that goes on, its record otherwise the same.
LEMMA MoveStep ==
  ASSUME IndInv, NEW c \in Clients, NEW pc \in Pcs, Move(c, pc),
         req[c].pc \in {"lock", "inspect", "remove", "create"},
         pc \in {"inspect", "remove", "create", "start"},
         volume' = volume, copier' = copier, torn' = torn, rows' = rows
  PROVE  /\ DataInv' /\ req' \in [Clients -> Requested]
         /\ req'[c].pc = pc /\ req'[c].w = req[c].w /\ req[c].w \in Ids
         /\ \A d \in Clients : d # c => req'[d] = req[d]
<1> DEFINE r == [req[c] EXCEPT !.pc = pc]
<1>1. req[c] \in Requested /\ req[c].w \in Ids /\ req[c].op = r.op /\ r.w = req[c].w /\ r.src = req[c].src
      /\ r.exclude = req[c].exclude /\ r.pc = pc
  BY DEF IndInv, TypeOK, Requested, StageInv
<1>2. r \in Requested /\ req' = [req EXCEPT ![c] = r]
  BY <1>1 DEF Move, Requested, IndInv, TypeOK
<1> HIDE DEF r
<1>3. Follows(c, r)
  BY <1>1 DEF Follows, Started, IndInv, StageInv
<1>4. DataInv'
  BY <1>1, <1>2, <1>3, QuietStep
<1>5. req' \in [Clients -> Requested]
  BY <1>2, ReqTyped DEF IndInv
<1>6. req'[c] = r /\ \A d \in Clients : d # c => req'[d] = req[d]
  BY <1>2, ReqAt, Zenon DEF IndInv, TypeOK
<1> QED
  BY <1>1, <1>4, <1>5, <1>6

----------------------------------------------------------------------------
(* The requests that only read and answer, and the editor.                 *)

LEMMA delete_workspaceKeeps ==
  ASSUME IndInv, NEW c \in Clients, NEW w \in Ids, delete_workspace(c, w) PROVE IndInv'
<1>1. DataInv' /\ EditorInv' /\ req' \in [Clients -> Requested]
  <2> USE DEF delete_workspace
  <2>1. BeginCopy(c, "delete", w, Nobody, {}, "read") /\ Nobody \in Origins /\ "read" \in Pcs
    BY DEF Begin, Origins, Pcs
  <2> QED
    BY <2>1, BeginStep
<1> QED
  BY <1>1 DEF IndInv, DataInv, TypeOK, Requested, delete_workspace

LEMMA validate_workspace_mountsKeeps ==
  ASSUME IndInv, NEW c \in Clients, NEW w \in Ids, validate_workspace_mounts(c, w) PROVE IndInv'
<1>1. DataInv' /\ EditorInv' /\ req' \in [Clients -> Requested]
  <2> USE DEF validate_workspace_mounts
  <2>1. BeginCopy(c, "mount", w, Nobody, {}, "read") /\ Nobody \in Origins /\ "read" \in Pcs
    BY DEF Begin, Origins, Pcs
  <2> QED
    BY <2>1, BeginStep
<1> QED
  BY <1>1 DEF IndInv, DataInv, TypeOK, Requested, validate_workspace_mounts

LEMMA clone_workspaceKeeps ==
  ASSUME IndInv, NEW c \in Clients, NEW w \in Ids, NEW src \in Ids, clone_workspace(c, w, src) PROVE IndInv'
<1>1. DataInv' /\ EditorInv' /\ req' \in [Clients -> Requested]
  <2> USE DEF clone_workspace
  <2>1. /\ BeginCopy(c, "clone", w, src, {}, "insert") /\ src \in Origins /\ "insert" \in Pcs
        /\ src # Nobody
    BY WorkspacesAssumption DEF Origins, Pcs
  <2> QED
    BY <2>1, BeginStep
<1> QED
  BY <1>1 DEF IndInv, DataInv, TypeOK, Requested, clone_workspace

LEMMA save_session_workspaceKeeps ==
  ASSUME IndInv, NEW c \in Clients, NEW w \in Ids, save_session_workspace(c, w) PROVE IndInv'
<1>1. DataInv' /\ EditorInv' /\ req' \in [Clients -> Requested]
  <2> USE DEF save_session_workspace
  <2>1. PICK exclude \in session_workspace_exclude_paths :
               BeginCopy(c, "save", w, Nobody, exclude, "insert")
    OBVIOUS
  <2>2. Nobody \in Origins /\ "insert" \in Pcs
    BY DEF Origins, Pcs
  <2>3. exclude \in SUBSET Entries /\ Always \subseteq exclude
    BY <2>1, WorkspacesAssumption DEF session_workspace_exclude_paths
  <2> QED
    BY <2>1, <2>2, <2>3, BeginStep
<1> QED
  BY <1>1 DEF IndInv, DataInv, TypeOK, Requested, save_session_workspace

LEMMA open_workspace_vscodeKeeps ==
  ASSUME IndInv, NEW c \in Clients, NEW w \in Ids, open_workspace_vscode(c, w) PROVE IndInv'
<1>1. DataInv' /\ EditorInv' /\ req' \in [Clients -> Requested]
  <2> USE DEF open_workspace_vscode
  <2>1. BeginCopy(c, "open", w, Nobody, {}, "lock") /\ Nobody \in Origins /\ "lock" \in Pcs
    BY DEF Begin, Origins, Pcs
  <2> QED
    BY <2>1, BeginStep
<1> QED
  BY <1>1 DEF IndInv, DataInv, TypeOK, Requested, open_workspace_vscode

LEMMA WriteMountsKeeps ==
  ASSUME IndInv, NEW c \in Clients, WriteMounts(c) PROVE IndInv'
<1>1. req[c].w \in Ids
  BY DEF WriteMounts, IndInv, StageInv
<1>2. DataInv' /\ req' \in [Clients -> Requested]
  BY FinishQuiet DEF WriteMounts
<1>3. EditorInv'
  BY FinishEditor DEF WriteMounts
<1> QED
  BY <1>1, <1>2, <1>3 DEF IndInv, DataInv, TypeOK, Requested, WriteMounts

\* Freeing its locks leaves a table of locks.
LEMMA UnlockTyped ==
  ASSUME TypeOK, NEW c \in Clients, Unlock(c)
  PROVE  locks' \in [Ids -> Clients \cup {Nobody}]
BY DEF TypeOK, Unlock

LEMMA HangUpKeeps ==
  ASSUME IndInv, NEW c \in Clients, HangUp(c) PROVE IndInv'
<1>1. locks' \in [Ids -> Clients \cup {Nobody}]
  BY UnlockTyped DEF HangUp, IndInv
<1>2. DataInv' /\ req' \in [Clients -> Requested]
  BY FinishQuiet DEF HangUp
<1>3. EditorInv'
  BY FinishEditor DEF HangUp
<1>4. faults' \in 0..MaxFaults
  BY WorkspacesAssumption DEF HangUp, Fault, IndInv, TypeOK
<1> QED
  BY <1>1, <1>2, <1>3, <1>4 DEF IndInv, DataInv, TypeOK, Requested, HangUp

LEMMA EditorExitsKeeps ==
  ASSUME IndInv, NEW w \in Ids, EditorExits(w) PROVE IndInv'
<1>1. DataInv'
  BY DEF EditorExits, IndInv, DataInv, StageInv, CleanInv, OwnerInv, CopyInv, WholeInv, HeldInv,
         Whole, Busy, CopiedSoFar, Ready
<1>2. EditorInv'
  <2>1. \A x \in Ids : editor[x] # "running" => editor'[x] # "running"
    BY DEF EditorExits, IndInv, TypeOK
  <2>2. \A d \in Clients : req[d].pc = "remove" => req[d].w \in Ids
    BY DEF IndInv, StageInv
  <2> QED
    BY <2>1, <2>2 DEF EditorExits, IndInv, EditorInv
<1>3. faults' \in 0..MaxFaults
  BY WorkspacesAssumption DEF EditorExits, Fault, IndInv, TypeOK
<1> QED
  BY <1>1, <1>2, <1>3 DEF IndInv, DataInv, TypeOK, EditorExits

LEMMA LockEditorKeeps ==
  ASSUME IndInv, NEW c \in Clients, LockEditor(c) PROVE IndInv'
<1> USE DEF LockEditor
<1>1. CASE volume[req[c].w] = NoVolume
  <2>1. DataInv' /\ req' \in [Clients -> Requested]
    BY <1>1, FinishQuiet
  <2>2. EditorInv'
    BY <1>1, FinishEditor
  <2> QED
    BY <1>1, <2>1, <2>2 DEF IndInv, DataInv, TypeOK, Requested
<1>2. CASE volume[req[c].w] # NoVolume
  <2>1. /\ DataInv' /\ req' \in [Clients -> Requested]
        /\ req'[c].pc = "inspect" /\ req'[c].w = req[c].w /\ req[c].w \in Ids
        /\ \A d \in Clients : d # c => req'[d] = req[d]
    <3>1. "inspect" \in Pcs /\ Move(c, "inspect")
      BY <1>2 DEF Pcs
    <3> QED
      BY <3>1, MoveStep
  <2>2. EditorInv'
    <3>1. locks[req[c].w] = Nobody /\ locks' = [locks EXCEPT ![req[c].w] = c] /\ editor' = editor
      BY <1>2
    <3>2. \A d \in Clients : d # Nobody
      BY WorkspacesAssumption
    <3>3. \A d \in Clients : req[d].pc \in {"inspect", "remove", "create", "start"} => req[d].w \in Ids
      BY DEF IndInv, StageInv
    <3> QED
      BY <2>1, <3>1, <3>2, <3>3 DEF IndInv, EditorInv, TypeOK
  <2> QED
    BY <1>2, <2>1, <2>2 DEF IndInv, DataInv, TypeOK, Requested
<1> QED
  BY <1>1, <1>2

LEMMA InspectEditorKeeps ==
  ASSUME IndInv, NEW c \in Clients, InspectEditor(c) PROVE IndInv'
<1> USE DEF InspectEditor
<1>1. CASE editor[req[c].w] = "running"
  <2>1. DataInv' /\ req' \in [Clients -> Requested]
    BY <1>1, FinishQuiet
  <2>2. EditorInv'
    BY <1>1, FinishEditor
  <2>3. locks' \in [Ids -> Clients \cup {Nobody}]
    BY <1>1, UnlockTyped DEF IndInv
  <2> QED
    BY <1>1, <2>1, <2>2, <2>3 DEF IndInv, DataInv, TypeOK, Requested
<1>2. CASE editor[req[c].w] # "running"
  <2>1. /\ DataInv' /\ req' \in [Clients -> Requested]
        /\ req'[c].pc = "remove" /\ req'[c].w = req[c].w /\ req[c].w \in Ids
        /\ \A d \in Clients : d # c => req'[d] = req[d]
    <3>1. "remove" \in Pcs /\ Move(c, "remove")
      BY <1>2 DEF Pcs
    <3> QED
      BY <3>1, MoveStep
  <2>2. EditorInv'
    BY <1>2, <2>1 DEF IndInv, EditorInv
  <2> QED
    BY <1>2, <2>1, <2>2 DEF IndInv, DataInv, TypeOK, Requested
<1> QED
  BY <1>1, <1>2

LEMMA RemoveEditorKeeps ==
  ASSUME IndInv, NEW c \in Clients, RemoveEditor(c) PROVE IndInv'
<1> USE DEF RemoveEditor
<1>1. /\ DataInv' /\ req' \in [Clients -> Requested]
      /\ req'[c].pc = "create" /\ req'[c].w = req[c].w /\ req[c].w \in Ids
      /\ \A d \in Clients : d # c => req'[d] = req[d]
  <2>1. "create" \in Pcs /\ Move(c, "create")
    BY DEF Pcs
  <2> QED
    BY <2>1, MoveStep
<1>2. EditorInv'
  <2>1. \A x \in Ids : editor[x] # "running" => editor'[x] # "running"
    BY DEF IndInv, TypeOK
  <2>2. \A d \in Clients : req[d].pc = "remove" => req[d].w \in Ids
    BY DEF IndInv, StageInv
  <2> QED
    BY <1>1, <2>1, <2>2 DEF IndInv, EditorInv
<1> QED
  BY <1>1, <1>2 DEF IndInv, DataInv, TypeOK, Requested

LEMMA CreateEditorKeeps ==
  ASSUME IndInv, NEW c \in Clients, CreateEditor(c) PROVE IndInv'
<1> USE DEF CreateEditor
<1>1. CASE editor[req[c].w] # "none"
  <2>1. DataInv' /\ req' \in [Clients -> Requested]
    BY <1>1, FinishQuiet
  <2>2. EditorInv'
    BY <1>1, FinishEditor
  <2>3. locks' \in [Ids -> Clients \cup {Nobody}]
    BY <1>1, UnlockTyped DEF IndInv
  <2> QED
    BY <1>1, <2>1, <2>2, <2>3 DEF IndInv, DataInv, TypeOK, Requested
<1>2. CASE editor[req[c].w] = "none"
  <2>1. /\ DataInv' /\ req' \in [Clients -> Requested]
        /\ req'[c].pc = "start" /\ req'[c].w = req[c].w /\ req[c].w \in Ids
        /\ \A d \in Clients : d # c => req'[d] = req[d]
    <3>1. "start" \in Pcs /\ Move(c, "start")
      BY <1>2 DEF Pcs
    <3> QED
      BY <3>1, MoveStep
  <2>2. EditorInv'
    <3>1. \A x \in Ids : editor[x] # "running" => editor'[x] # "running"
      BY <1>2 DEF IndInv, TypeOK
    <3>2. \A d \in Clients : req[d].pc = "remove" => req[d].w \in Ids
      BY DEF IndInv, StageInv
    <3>3. locks' = locks
      BY <1>2
    <3> QED
      BY <2>1, <3>1, <3>2, <3>3 DEF IndInv, EditorInv
  <2> QED
    BY <1>2, <2>1, <2>2 DEF IndInv, DataInv, TypeOK, Requested
<1> QED
  BY <1>1, <1>2

\* No other request is past its inspection: the one that starts the editor holds its lock.
LEMMA StartEditorKeeps ==
  ASSUME IndInv, NEW c \in Clients, StartEditor(c) PROVE IndInv'
<1> USE DEF StartEditor
<1>1. DataInv' /\ req' \in [Clients -> Requested]
  BY FinishQuiet
<1>2. locks' \in [Ids -> Clients \cup {Nobody}]
  BY UnlockTyped DEF IndInv
<1>3. PICK r \in Requested : req' = [req EXCEPT ![c] = r] /\ r.pc = "over"
  BY FinishStep
<1>4. req'[c] = r /\ \A d \in Clients : d # c => req'[d] = req[d]
  BY <1>3, ReqAt, Zenon DEF IndInv, TypeOK
<1>5. EditorInv'
  <2> SUFFICES ASSUME NEW d \in Clients, d # c, req[d].pc \in {"inspect", "remove", "create", "start"}
               PROVE  locks'[req[d].w] = d /\ (req[d].pc = "remove" => editor'[req[d].w] # "running")
    BY <1>3, <1>4 DEF EditorInv
  <2>1. req[d].w \in Ids /\ req[c].w \in Ids
    BY DEF IndInv, StageInv
  <2>2. locks[req[d].w] = d /\ locks[req[c].w] = c
    BY DEF IndInv, EditorInv
  <2>3. editor'[req[d].w] = editor[req[d].w]
    BY <2>1, <2>2 DEF IndInv, TypeOK
  <2> QED
    BY <2>1, <2>2, <2>3 DEF Unlock, IndInv, EditorInv
<1> QED
  BY <1>1, <1>2, <1>5 DEF IndInv, DataInv, TypeOK, Requested

----------------------------------------------------------------------------
(* The rows.                                                                *)

\* The record c holds when it goes on to write the row back.
LEMMA HoldStep ==
  ASSUME IndInv, NEW c \in Clients, NEW pc \in Pcs, NEW s \in Statuses, Hold(c, pc, s),
         req[c].pc \in {"ask", "copying"}, pc = "write"
  PROVE  \E r \in Requested :
           /\ req' = [req EXCEPT ![c] = r] /\ r.pc = pc /\ r.status = s /\ Follows(c, r)
           /\ r.op = req[c].op /\ r.w = req[c].w /\ r.src = req[c].src /\ r.exclude = req[c].exclude
           /\ r.op \in {"save", "clone"} /\ r.w \in Ids /\ Busy(c) /\ Started(req[c])
           /\ req' \in [Clients -> Requested]
<1> DEFINE r == [req[c] EXCEPT !.pc = pc, !.status = s]
<1>1. req[c] \in Requested
  BY DEF IndInv, TypeOK, Requested
<1>2. r \in Requested /\ r.pc = pc /\ r.status = s /\ r.op = req[c].op /\ r.w = req[c].w /\ r.src = req[c].src
      /\ r.exclude = req[c].exclude
  BY <1>1 DEF Requested
<1>3. req' = [req EXCEPT ![c] = r]
  BY <1>1 DEF Hold, IndInv, TypeOK, Requested
<1> HIDE DEF r
<1>4. r.op \in {"save", "clone"} /\ r.w \in Ids /\ Busy(c) /\ Started(req[c])
  BY <1>2 DEF IndInv, StageInv, Busy, Started
<1>5. Follows(c, r)
  BY <1>2, <1>4 DEF Follows, Started, IndInv, StageInv
<1>6. req' \in [Clients -> Requested]
  BY <1>2, <1>3, ReqTyped DEF IndInv
<1> QED
  BY <1>2, <1>3, <1>4, <1>5, <1>6

\* What a rename holds is what the row said.
LEMMA update_workspaceKeeps ==
  ASSUME IndInv, NEW c \in Clients, NEW w \in Ids, update_workspace(c, w) PROVE IndInv'
<1> DEFINE r == [op |-> "rename", w |-> w, src |-> Nobody, exclude |-> {}, pc |-> "write",
                 status |-> rows[w].status]
<1> USE DEF update_workspace
<1>1. rows[w] \in Row /\ rows[w] # NoRow
  BY DEF IndInv, TypeOK
<1>2. r \in Requested /\ req' = [req EXCEPT ![c] = r] /\ req[c].pc = "idle"
  BY <1>1 DEF Requested, Row, Origins, Pcs
<1>3. r.op = "rename" /\ r.w = w /\ r.pc = "write" /\ r.status = rows[w].status
  OBVIOUS
<1> HIDE DEF r
<1>4. Follows(c, r)
  BY <1>2, <1>3 DEF Follows, Started
<1>5. w \notin torn /\ rows[w].status = "ready" /\ rows[w].copied => Whole(w)
  BY <1>1 DEF IndInv, WholeInv, Ready
<1>6. DataInv'
  BY <1>1, <1>2, <1>3, <1>4, <1>5, QuietStep
<1>7. EditorInv'
  BY <1>2, <1>3, EditorStep
<1>8. req' \in [Clients -> Requested]
  BY <1>2, ReqTyped DEF IndInv
<1> QED
  BY <1>6, <1>7, <1>8 DEF IndInv, DataInv, TypeOK, Requested

\* agent_host is given up on: the record says failed.
LEMMA CopyTimesOutKeeps ==
  ASSUME IndInv, NEW c \in Clients, CopyTimesOut(c) PROVE IndInv'
<1> USE DEF CopyTimesOut
<1>1. "write" \in Pcs /\ "failed" \in Statuses
  BY DEF Pcs, Statuses
<1>2. PICK r \in Requested :
           /\ req' = [req EXCEPT ![c] = r] /\ r.pc = "write" /\ r.status = "failed" /\ Follows(c, r)
           /\ r.op = req[c].op /\ r.w = req[c].w /\ r.src = req[c].src /\ r.exclude = req[c].exclude
           /\ r.op \in {"save", "clone"} /\ r.w \in Ids /\ Busy(c) /\ Started(req[c])
           /\ req' \in [Clients -> Requested]
  BY <1>1, HoldStep
<1>3. r.w \notin torn => rows[r.w] # NoRow
  BY <1>2 DEF IndInv, OwnerInv
<1>4. DataInv'
  BY <1>2, <1>3, QuietStep
<1>5. EditorInv'
  BY <1>2, EditorStep
<1>6. faults' \in 0..MaxFaults
  BY WorkspacesAssumption DEF Fault, IndInv, TypeOK
<1> QED
  BY <1>2, <1>4, <1>5, <1>6 DEF IndInv, DataInv, TypeOK, Requested

\* the three parts of the invariant about rows, one workspace or one request at a time
OwnedAt(w) ==
  /\ rows[w] # NoRow /\ rows[w].copied =>
       rows[w].by \in Clients /\ req[rows[w].by].w = w /\ Started(req[rows[w].by])
  /\ \A c \in Clients :
       w \notin torn /\ req[c].w = w /\ Busy(c) => rows[w] # NoRow /\ rows[w].copied /\ rows[w].by = c
WholeAt(w) == w \notin torn /\ Ready(w) /\ rows[w].copied => Whole(w)
HeldAt(c) ==
  req[c].pc = "write" /\ req[c].w \notin torn =>
    /\ rows[req[c].w] # NoRow
    /\ req[c].status = "ready" /\ rows[req[c].w].copied => Whole(req[c].w)

LEMMA PartsBefore ==
  ASSUME IndInv
  PROVE  /\ \A w \in Ids : OwnedAt(w) /\ WholeAt(w)
         /\ \A c \in Clients : HeldAt(c)
BY DEF IndInv, OwnerInv, WholeInv, HeldInv, OwnedAt, WholeAt, HeldAt

LEMMA PartsAfter ==
  ASSUME \A w \in Ids : OwnedAt(w)' /\ WholeAt(w)', \A c \in Clients : HeldAt(c)'
  PROVE  OwnerInv' /\ WholeInv' /\ HeldInv'
BY DEF OwnerInv, WholeInv, HeldInv, OwnedAt, WholeAt, HeldAt

\* The row of w changes, no volume and no container does: the other workspaces are as before.
LEMMA RowsElsewhere ==
  ASSUME IndInv, NEW c \in Clients, NEW r \in Requested, req' = [req EXCEPT ![c] = r],
         Follows(c, r), volume' = volume, copier' = copier, torn \subseteq torn',
         NEW w \in Ids, \A x \in Ids : x # w => rows'[x] = rows[x] /\ (x \in torn' <=> x \in torn),
         r.pc \in {"ask", "copying", "write"} => r.w = w
  PROVE  /\ \A x \in Ids : x # w => OwnedAt(x)' /\ WholeAt(x)'
         /\ \A d \in Clients : req'[d].w # w => HeldAt(d)'
<1>1. req'[c] = r /\ \A d \in Clients : d # c => req'[d] = req[d]
  BY ReqAt, Zenon DEF IndInv, TypeOK
<1>2. /\ StageInv'
      /\ \A x \in Ids : rows[x] # NoRow /\ rows[x].copied /\ Whole(x) /\ rows'[x].by = rows[x].by => Whole(x)'
  BY ReqStep
<1>3. ASSUME NEW x \in Ids, x # w
      PROVE  OwnedAt(x)' /\ WholeAt(x)'
  <2>1. OwnedAt(x) /\ WholeAt(x) /\ rows'[x] = rows[x] /\ (x \in torn' <=> x \in torn)
    BY <1>3, PartsBefore
  <2>2. Started(req[c]) => Started(r) /\ r.w = req[c].w
    BY DEF Follows
  <2>3. ASSUME NEW d \in Clients, req'[d].w = x, Busy(d)'
        PROVE  req[d].w = x /\ Busy(d)
    <3>1. CASE d # c
      BY <1>1, <2>3, <3>1 DEF Busy
    <3>2. CASE d = c
      <4>1. copier[c].state = "running" => Started(req[c]) /\ Busy(c)
        BY CopierStarted DEF IndInv, Busy
      <4>2. copier[c].state = "running"
        BY <1>1, <1>3, <2>3, <3>2 DEF Busy
      <4> QED
        BY <1>1, <2>2, <2>3, <3>2, <4>1, <4>2
    <3> QED
      BY <3>1, <3>2
  <2>4. rows[x] # NoRow /\ rows[x].copied =>
          rows[x].by \in Clients /\ req'[rows[x].by].w = x /\ Started(req'[rows[x].by])
    BY <1>1, <2>1, <2>2 DEF OwnedAt
  <2>5. OwnedAt(x)'
    BY <2>1, <2>3, <2>4 DEF OwnedAt, Started
  <2>6. WholeAt(x)'
    BY <1>2, <2>1 DEF WholeAt, Ready
  <2> QED
    BY <2>5, <2>6
<1>4. ASSUME NEW d \in Clients, req'[d].w # w
      PROVE  HeldAt(d)'
  <2> SUFFICES ASSUME req'[d].pc = "write", req'[d].w \notin torn'
               PROVE  /\ rows'[req'[d].w] # NoRow
                      /\ req'[d].status = "ready" /\ rows'[req'[d].w].copied => (Whole(req[d].w))'
    BY DEF HeldAt
  <2>1. d # c /\ req'[d] = req[d] /\ req[d].w \in Ids
    BY <1>1, <1>2, <1>4 DEF StageInv
  <2>2. HeldAt(d) /\ rows'[req[d].w] = rows[req[d].w] /\ req[d].w \notin torn
    BY <1>4, <2>1, PartsBefore
  <2>3. PICK x \in Ids : x = req[d].w
    BY <2>1
  <2>4. req[d].status = "ready" /\ rows[x].copied => Whole(x)'
    BY <1>2, <2>1, <2>2, <2>3 DEF HeldAt
  <2>5. Whole(x)' => (Whole(req[d].w))'
    BY <2>1, <2>3 DEF Whole
  <2> QED
    BY <2>1, <2>2, <2>3, <2>4, <2>5 DEF HeldAt
<1> QED
  BY <1>3, <1>4

\* What the actions on rows show about the row they change gives the invariant.
LEMMA RowsStep ==
  ASSUME IndInv, NEW c \in Clients, NEW r \in Requested, req' = [req EXCEPT ![c] = r],
         Follows(c, r), volume' = volume, copier' = copier, torn \subseteq torn',
         NEW w \in Ids, \A x \in Ids : x # w => rows'[x] = rows[x] /\ (x \in torn' <=> x \in torn),
         r.pc \in {"ask", "copying", "write"} => r.w = w,
         OwnedAt(w)', WholeAt(w)', \A d \in Clients : req'[d].w = w => HeldAt(d)'
  PROVE  DataInv'
<1>1. /\ \A x \in Ids : x # w => OwnedAt(x)' /\ WholeAt(x)'
      /\ \A d \in Clients : req'[d].w # w => HeldAt(d)'
  BY RowsElsewhere
<1>2. StageInv' /\ CleanInv' /\ CopyInv'
  BY ReqStep
<1>3. \A x \in Ids : OwnedAt(x)' /\ WholeAt(x)'
  BY <1>1
<1>4. \A d \in Clients : HeldAt(d)'
  BY <1>1
<1>5. OwnerInv' /\ WholeInv' /\ HeldInv'
  BY <1>3, <1>4, PartsAfter
<1> QED
  BY <1>2, <1>5 DEF DataInv

\* Where no row is, nobody is at work, unless the row was deleted under him.
LEMMA NobodyAtWork ==
  ASSUME IndInv, NEW w \in Ids, rows[w] = NoRow, w \notin torn, NEW d \in Clients, req[d].w = w
  PROVE  ~Busy(d) /\ req[d].pc # "write"
BY PartsBefore DEF OwnedAt, HeldAt

LEMMA create_workspaceKeeps ==
  ASSUME IndInv, NEW c \in Clients, NEW w \in Ids, create_workspace(c, w) PROVE IndInv'
<1> USE DEF create_workspace
<1>1. PICK r \in Requested : /\ req' = [req EXCEPT ![c] = r] /\ r.pc = "over" /\ Follows(c, r)
                            /\ req' \in [Clients -> Requested]
  BY FinishStep
<1>2. req'[c] = r /\ \A d \in Clients : d # c => req'[d] = req[d]
  BY <1>1, ReqAt, Zenon DEF IndInv, TypeOK
<1> DEFINE fresh == [status |-> "ready", by |-> c, copied |-> FALSE]
<1>3. rows[w] = NoRow /\ rows' = [rows EXCEPT ![w] = fresh] /\ torn' = torn /\ volume' = volume /\ copier' = copier
  BY DEF Insert
<1>4. fresh \in Row
  BY Zenon DEF Row, Statuses
<1>5. rows' \in [Ids -> {NoRow} \cup Row] /\ rows'[w] = fresh /\ \A x \in Ids : x # w => rows'[x] = rows[x]
  BY <1>3, <1>4 DEF IndInv, TypeOK
<1>6. rows'[w] # NoRow
  BY <1>4, <1>5, WorkspacesAssumption
<1>7. ~rows'[w].copied
  BY <1>5
<1>8. ASSUME NEW d \in Clients, w \notin torn, req'[d].w = w
      PROVE  ~Busy(d)' /\ req'[d].pc # "write"
  <2>1. CASE d # c
    BY <1>2, <1>3, <1>8, <2>1, NobodyAtWork DEF Busy
  <2>2. CASE d = c
    <3>1. copier[c].state = "none"
      BY DEF IndInv, StageInv
    <3> QED
      BY <1>1, <1>2, <1>3, <2>2, <3>1 DEF Busy
  <2> QED
    BY <2>1, <2>2
<1>9. OwnedAt(w)' /\ WholeAt(w)' /\ \A d \in Clients : req'[d].w = w => HeldAt(d)'
  BY <1>3, <1>7, <1>8 DEF OwnedAt, WholeAt, HeldAt
<1> HIDE DEF create_workspace, fresh
<1>10. DataInv'
  BY <1>1, <1>3, <1>5, <1>9, RowsStep
<1>11. EditorInv'
  BY FinishEditor DEF create_workspace
<1> QED
  BY <1>1, <1>5, <1>10, <1>11 DEF IndInv, DataInv, TypeOK, Requested, create_workspace

LEMMA DeleteRowKeeps ==
  ASSUME IndInv, NEW c \in Clients, DeleteRow(c) PROVE IndInv'
<1> USE DEF DeleteRow
<1>1. PICK r \in Requested : /\ req' = [req EXCEPT ![c] = r] /\ r.pc = "over" /\ Follows(c, r)
                            /\ req' \in [Clients -> Requested]
  BY FinishStep
<1>2. req'[c] = r /\ \A d \in Clients : d # c => req'[d] = req[d]
  BY <1>1, ReqAt, Zenon DEF IndInv, TypeOK
<1>3. req[c].w \in Ids
  BY DEF IndInv, StageInv
<1>4. PICK w \in Ids : w = req[c].w
  BY <1>3
<1>5. /\ rows' = [rows EXCEPT ![w] = NoRow] /\ volume' = volume /\ copier' = copier
      /\ torn' = IF Unfinished(w) THEN torn \cup {w} ELSE torn
  BY <1>4
<1>6. rows' \in [Ids -> {NoRow} \cup Row] /\ rows'[w] = NoRow /\ \A x \in Ids : x # w => rows'[x] = rows[x]
  BY <1>5 DEF IndInv, TypeOK
<1>7. torn' \subseteq Ids /\ torn \subseteq torn' /\ \A x \in Ids : x # w => (x \in torn' <=> x \in torn)
  BY <1>5 DEF IndInv, TypeOK
<1>8. ASSUME NEW d \in Clients, w \notin torn', req'[d].w = w
      PROVE  ~Busy(d)' /\ req'[d].pc # "write"
  <2>1. ~Unfinished(w)
    BY <1>5, <1>8
  <2>2. CASE d # c
    <3>1. copier[d].state # "running"
          /\ ~(req[d].op \in {"save", "clone", "rename"} /\ req[d].pc \notin {"idle", "insert", "over"})
      BY <1>2, <1>8, <2>1, <2>2 DEF Unfinished
    <3>2. req[d].pc = "write" => req[d].op \in {"save", "clone", "rename"}
      BY DEF IndInv, StageInv
    <3> QED
      BY <1>2, <1>5, <2>2, <3>1, <3>2 DEF Busy
  <2>3. CASE d = c
    <3>1. copier[c].state = "none"
      BY DEF IndInv, StageInv
    <3> QED
      BY <1>1, <1>2, <1>5, <2>3, <3>1 DEF Busy
  <2> QED
    BY <2>2, <2>3
<1>9. OwnedAt(w)' /\ WholeAt(w)' /\ \A d \in Clients : req'[d].w = w => HeldAt(d)'
  BY <1>6, <1>8 DEF OwnedAt, WholeAt, HeldAt, Ready
<1> HIDE DEF DeleteRow
<1>10. DataInv'
  BY <1>1, <1>5, <1>6, <1>7, <1>9, RowsStep
<1>11. EditorInv'
  BY FinishEditor DEF DeleteRow
<1> QED
  BY <1>1, <1>6, <1>7, <1>10, <1>11 DEF IndInv, DataInv, TypeOK, Requested, DeleteRow

\* The save or clone owns the row from here on.
LEMMA InsertCreatingKeeps ==
  ASSUME IndInv, NEW c \in Clients, InsertCreating(c) PROVE IndInv'
<1> USE DEF InsertCreating
<1>1. CASE Finish(c) /\ UNCHANGED rows
  <2>1. DataInv' /\ req' \in [Clients -> Requested]
    BY <1>1, FinishQuiet
  <2>2. EditorInv'
    BY <1>1, FinishEditor
  <2> QED
    BY <1>1, <2>1, <2>2 DEF IndInv, DataInv, TypeOK, Requested
<1>2. CASE Insert(c, req[c].w, "creating", TRUE) /\ Move(c, "ask")
  <2> DEFINE r == [req[c] EXCEPT !.pc = "ask"]
             fresh == [status |-> "creating", by |-> c, copied |-> TRUE]
  <2>1. req[c] \in Requested /\ req[c].w \in Ids /\ req[c].op \in {"save", "clone"}
    BY DEF IndInv, TypeOK, Requested, StageInv
  <2>2. r \in Requested /\ r.pc = "ask" /\ r.op = req[c].op /\ r.w = req[c].w /\ r.src = req[c].src
        /\ r.exclude = req[c].exclude
    BY <2>1 DEF Requested, Pcs
  <2>3. req' = [req EXCEPT ![c] = r]
    BY <1>2 DEF Move, IndInv, TypeOK
  <2>4. PICK w \in Ids : w = req[c].w
    BY <2>1
  <2>5. rows[w] = NoRow /\ rows' = [rows EXCEPT ![w] = fresh] /\ torn' = torn /\ volume' = volume /\ copier' = copier
    BY <1>2, <2>4 DEF Insert
  <2>6. fresh \in Row
    BY Zenon DEF Row, Statuses
  <2>7. rows' \in [Ids -> {NoRow} \cup Row] /\ rows'[w] = fresh /\ \A x \in Ids : x # w => rows'[x] = rows[x]
    BY <2>5, <2>6 DEF IndInv, TypeOK
  <2>8. rows'[w] # NoRow
    BY <2>6, <2>7, WorkspacesAssumption
  <2>9. rows'[w].copied /\ rows'[w].by = c /\ rows'[w].status = "creating"
    BY <2>7
  <2> HIDE DEF r, fresh
  <2>10. req'[c] = r /\ \A d \in Clients : d # c => req'[d] = req[d]
    BY <2>3, ReqAt, Zenon DEF IndInv, TypeOK
  <2>11. Follows(c, r)
    BY <2>1, <2>2 DEF Follows, Started, IndInv, StageInv
  <2>12. ASSUME NEW d \in Clients, d # c, w \notin torn, req'[d].w = w
         PROVE  ~Busy(d)' /\ req'[d].pc # "write"
    BY <2>5, <2>10, <2>12, NobodyAtWork DEF Busy
  <2>13. OwnedAt(w)'
    BY <2>1, <2>2, <2>4, <2>5, <2>8, <2>9, <2>10, <2>12 DEF OwnedAt, Started
  <2>14. WholeAt(w)'
    BY <2>9 DEF WholeAt, Ready
  <2>15. \A d \in Clients : req'[d].w = w => HeldAt(d)'
    BY <2>2, <2>5, <2>10, <2>12 DEF HeldAt
  <2>16. DataInv'
    <3>1. volume' = volume /\ copier' = copier /\ torn \subseteq torn' /\ torn' = torn
      BY <2>5
    <3> HIDE DEF InsertCreating
    <3> QED
      BY <2>2, <2>3, <2>4, <2>7, <2>11, <2>13, <2>14, <2>15, <3>1, RowsStep
  <2>17. EditorInv'
    BY <2>2, <2>3, EditorStep
  <2>18. req' \in [Clients -> Requested]
    BY <2>2, <2>3, ReqTyped DEF IndInv
  <2> QED
    BY <2>7, <2>16, <2>17, <2>18 DEF IndInv, DataInv, TypeOK, Requested
<1> QED
  BY <1>1, <1>2

\* The handler writes what it holds, which is true of the row.
LEMMA WriteRowKeeps ==
  ASSUME IndInv, NEW c \in Clients, WriteRow(c) PROVE IndInv'
<1> USE DEF WriteRow
<1>1. CASE UNCHANGED rows /\ Fault
  <2>1. DataInv' /\ req' \in [Clients -> Requested]
    BY <1>1, FinishQuiet
  <2>2. EditorInv'
    BY <1>1, FinishEditor
  <2>3. faults' \in 0..MaxFaults
    BY <1>1, WorkspacesAssumption DEF Fault, IndInv, TypeOK
  <2> QED
    BY <1>1, <2>1, <2>2, <2>3 DEF IndInv, DataInv, TypeOK, Requested
<1>2. CASE update(c, req[c].w, req[c].status) /\ UNCHANGED faults
  <2>1. PICK r \in Requested : /\ req' = [req EXCEPT ![c] = r] /\ r.pc = "over" /\ Follows(c, r)
                              /\ req' \in [Clients -> Requested]
    BY FinishStep
  <2>2. req'[c] = r /\ \A d \in Clients : d # c => req'[d] = req[d]
    BY <2>1, ReqAt, Zenon DEF IndInv, TypeOK
  <2>3. req[c].w \in Ids /\ req[c].status \in Statuses
    BY DEF IndInv, StageInv, TypeOK
  <2>4. PICK w \in Ids : w = req[c].w
    BY <2>3
  <2>5. volume' = volume /\ copier' = copier /\ torn' = torn
    OBVIOUS
  <2>6. /\ rows' \in [Ids -> {NoRow} \cup Row] /\ \A x \in Ids : x # w => rows'[x] = rows[x]
        /\ rows[w] = NoRow => rows'[w] = NoRow
        /\ rows[w] # NoRow => rows'[w] = [rows[w] EXCEPT !.status = req[c].status]
    BY <1>2, <2>3, <2>4 DEF update, IndInv, TypeOK, Row
  <2>7. rows[w] # NoRow => /\ rows'[w] # NoRow /\ rows'[w].by = rows[w].by
                           /\ rows'[w].status = req[c].status /\ rows'[w].copied = rows[w].copied
    <3> SUFFICES ASSUME rows[w] # NoRow
                 PROVE  /\ rows'[w] # NoRow /\ rows'[w].by = rows[w].by
                        /\ rows'[w].status = req[c].status /\ rows'[w].copied = rows[w].copied
      OBVIOUS
    <3>1. rows[w] \in Row
      BY DEF IndInv, TypeOK
    <3>2. rows'[w] \in Row
      BY <2>3, <2>6, <3>1 DEF Row
    <3>3. rows'[w] # NoRow
      BY <3>2, WorkspacesAssumption
    <3> QED
      BY <2>6, <3>1, <3>3 DEF Row
  <2>8. ASSUME NEW d \in Clients, req'[d].w = w, Busy(d)'
        PROVE  req[d].w = w /\ Busy(d)
    <3>1. CASE d # c
      BY <2>2, <2>5, <2>8, <3>1 DEF Busy
    <3>2. CASE d = c
      <4>1. copier[c].state = "running"
        BY <2>1, <2>2, <2>5, <2>8, <3>2 DEF Busy
      <4> QED
        BY <2>4, <3>2, <4>1 DEF Busy
    <3> QED
      BY <3>1, <3>2
  <2>9. Started(req[c]) => Started(r) /\ r.w = req[c].w
    BY <2>1 DEF Follows
  <2>10. OwnedAt(w)'
    <3>1. OwnedAt(w)
      BY PartsBefore
    <3>2. rows[w] # NoRow /\ rows[w].copied =>
            rows[w].by \in Clients /\ req'[rows[w].by].w = w /\ Started(req'[rows[w].by])
      BY <2>2, <2>9, <3>1 DEF OwnedAt
    <3> QED
      BY <2>5, <2>6, <2>7, <2>8, <3>1, <3>2 DEF OwnedAt, Started
  <2>11. \A x \in Ids : rows[x] # NoRow /\ rows[x].copied /\ Whole(x) /\ rows'[x].by = rows[x].by => Whole(x)'
    BY <2>1, <2>5, ReqStep
  <2>12. WholeAt(w)'
    <3>1. HeldAt(c)
      BY PartsBefore
    <3>2. w \notin torn /\ rows[w] # NoRow /\ req[c].status = "ready" /\ rows[w].copied => Whole(w)
      BY <2>4, <3>1 DEF HeldAt
    <3> QED
      BY <2>5, <2>6, <2>7, <2>11, <3>2 DEF WholeAt, Ready
  <2>13. ASSUME NEW d \in Clients, req'[d].w = w
         PROVE  HeldAt(d)'
    <3> SUFFICES ASSUME req'[d].pc = "write", w \notin torn
                 PROVE  rows'[w] # NoRow /\ (req'[d].status = "ready" /\ rows'[w].copied => Whole(w)')
      BY <2>5, <2>13 DEF HeldAt, Whole
    <3>1. d # c /\ req'[d] = req[d] /\ HeldAt(d)
      BY <2>1, <2>2, PartsBefore
    <3> QED
      BY <2>7, <2>11, <2>13, <3>1 DEF HeldAt
  <2> HIDE DEF WriteRow
  <2>14. DataInv'
    <3>1. torn \subseteq torn'
      BY <2>5
    <3> QED
      BY <2>1, <2>5, <2>6, <2>10, <2>12, <2>13, <3>1, RowsStep
  <2>15. EditorInv'
    BY FinishEditor DEF WriteRow
  <2> QED
    BY <1>2, <2>1, <2>6, <2>14, <2>15 DEF IndInv, DataInv, TypeOK, Requested, WriteRow
<1> QED
  BY <1>1, <1>2

----------------------------------------------------------------------------
(* The volumes and the containers that copy.                               *)

\* A session finds a volume or makes an empty one: what a copy wrote is a volume already.
LEMMA workspace_volume_mountKeeps ==
  ASSUME IndInv, NEW c \in Clients, NEW w \in Ids, workspace_volume_mount(c, w) PROVE IndInv'
<1> USE DEF workspace_volume_mount
<1>1. PICK r \in Requested : /\ req' = [req EXCEPT ![c] = r] /\ r.pc = "over" /\ Follows(c, r)
                            /\ req' \in [Clients -> Requested]
  BY FinishStep
<1>2. req'[c] = r /\ \A d \in Clients : d # c => req'[d] = req[d]
  BY <1>1, ReqAt, Zenon DEF IndInv, TypeOK
<1>3. req[c].pc = "idle" /\ rows' = rows /\ copier' = copier /\ torn' = torn
  OBVIOUS
<1>4. EmptyVolume \in Trees /\ \A e \in Entries : EmptyVolume[e] = "nothing"
  BY DEF EmptyVolume, Trees, Contents
<1>5. /\ volume' \in [Ids -> {NoVolume} \cup Trees]
      /\ \A x \in Ids : volume[x] \in Trees => volume'[x] = volume[x]
      /\ \A x \in Ids : volume'[x] = volume[x] \/ volume'[x] = EmptyVolume
  BY <1>4, WorkspacesAssumption DEF IndInv, TypeOK
<1>6. copier[c].state = "none" /\ ~Started(req[c])
  BY <1>3 DEF IndInv, StageInv, Started
<1> HIDE DEF workspace_volume_mount
<1>7. StageInv'
  <2> SUFFICES ASSUME NEW d \in Clients
               PROVE  (/\ req[d].pc \in {"insert", "ask", "copying"} => req[d].op \in {"save", "clone"}
                       /\ req[d].pc = "write" => req[d].op \in {"save", "clone", "rename"}
                       /\ req[d].pc \notin {"idle", "over"} => req[d].w \in Ids
                       /\ req[d].op = "save" => req[d].src = Nobody /\ Always \subseteq req[d].exclude
                       /\ req[d].op = "clone" => req[d].src # Nobody
                       /\ copier[d].state # "none" =>
                            /\ req[d].op \in {"save", "clone"} /\ req[d].pc \in {"copying", "write", "over"}
                            /\ req[d].w \in Ids /\ volume[req[d].w] \in Trees
                            /\ req[d].src \in Ids => volume[req[d].src] \in Trees)'
    BY DEF StageInv
  <2>1. CASE d # c
    BY <1>2, <1>3, <1>5, <2>1 DEF IndInv, StageInv
  <2>2. CASE d = c
    BY <1>1, <1>2, <1>3, <1>6, <2>2 DEF Follows
  <2> QED
    BY <2>1, <2>2
<1>8. CleanInv'
  <2>1. \A x \in Ids : volume'[x] = volume[x] => (volume'[x] \in Trees => \A e \in Entries : volume'[x][e] # "owned")
    BY DEF IndInv, CleanInv
  <2>2. \A x \in Ids : volume'[x] = EmptyVolume => \A e \in Entries : volume'[x][e] # "owned"
    BY <1>4
  <2> QED
    BY <1>5, <2>1, <2>2 DEF CleanInv
<1>9. CopyInv'
  <2> SUFFICES ASSUME NEW d \in Clients, copier[d].state = "running", req'[d].op = "save",
                      req'[d].w \notin torn
               PROVE  CopiedSoFar(d)'
    BY <1>3 DEF CopyInv
  <2>1. d # c /\ req'[d] = req[d] /\ req[d].w \in Ids /\ volume[req[d].w] \in Trees
    BY <1>2, <1>6 DEF IndInv, StageInv
  <2>2. CopiedSoFar(d)
    BY <2>1 DEF IndInv, CopyInv
  <2> QED
    BY <1>3, <1>5, <2>1, <2>2 DEF CopiedSoFar
<1>10. ASSUME NEW x \in Ids, rows[x] # NoRow, rows[x].copied, Whole(x)
       PROVE  Whole(x)'
  <2>1. OwnedAt(x)
    BY PartsBefore
  <2>2. rows[x].by \in Clients /\ req[rows[x].by].w = x /\ rows[x].by # c /\ req'[rows[x].by] = req[rows[x].by]
    BY <1>2, <1>6, <1>10, <2>1 DEF OwnedAt
  <2>3. copier[rows[x].by].state = "done"
    BY <1>10 DEF Whole
  <2>4. volume[x] \in Trees
    BY <2>2, <2>3 DEF IndInv, StageInv
  <2>5. \A d \in Clients : req'[d].w = x => copier[d].state # "running"
    BY <1>2, <1>6, <1>10 DEF Whole
  <2> QED
    BY <1>3, <1>5, <1>10, <2>2, <2>3, <2>4, <2>5 DEF Whole, SnapshotOf
<1>11. ASSUME NEW x \in Ids
       PROVE  OwnedAt(x)' /\ WholeAt(x)'
  <2>1. OwnedAt(x) /\ WholeAt(x)
    BY PartsBefore
  <2>2. \A d \in Clients : Busy(d)' => d # c /\ Busy(d)
    BY <1>1, <1>2, <1>3, <1>6 DEF Busy
  <2>3. rows[x] # NoRow /\ rows[x].copied =>
            rows[x].by \in Clients /\ req'[rows[x].by].w = x /\ Started(req'[rows[x].by])
    BY <1>2, <1>6, <2>1 DEF OwnedAt
  <2>4. OwnedAt(x)'
    BY <1>2, <1>3, <2>1, <2>2, <2>3 DEF OwnedAt, Started
  <2>5. WholeAt(x)'
    BY <1>3, <1>10, <2>1 DEF WholeAt, Ready
  <2> QED
    BY <2>4, <2>5
<1>12. ASSUME NEW d \in Clients
       PROVE  HeldAt(d)'
  <2> SUFFICES ASSUME req'[d].pc = "write", req'[d].w \notin torn
               PROVE  /\ rows[req'[d].w] # NoRow
                      /\ req'[d].status = "ready" /\ rows[req'[d].w].copied => (Whole(req[d].w))'
    BY <1>3 DEF HeldAt
  <2>1. d # c /\ req'[d] = req[d] /\ HeldAt(d)
    BY <1>1, <1>2, PartsBefore
  <2>2. req[d].w \in Ids
    BY <2>1 DEF IndInv, StageInv
  <2>3. PICK x \in Ids : x = req[d].w
    BY <2>2
  <2>4. Whole(x)' => (Whole(req[d].w))'
    BY <2>1, <2>3 DEF Whole
  <2> QED
    BY <1>10, <2>1, <2>3, <2>4 DEF HeldAt
<1>13. OwnerInv' /\ WholeInv' /\ HeldInv'
  BY <1>11, <1>12, PartsAfter
<1>14. EditorInv'
  BY FinishEditor DEF workspace_volume_mount
<1> QED
  BY <1>1, <1>5, <1>7, <1>8, <1>9, <1>13, <1>14 DEF IndInv, TypeOK, Requested, workspace_volume_mount

\* While c works on its workspace, nobody else does and the workspace is not offered.
LEMMA WorkerAlone ==
  ASSUME IndInv, NEW c \in Clients, Active(c)
  PROVE  /\ req[c].w \in Ids /\ Busy(c) /\ Started(req[c])
         /\ \A d \in Clients : d # c /\ Busy(d) /\ req[d].w = req[c].w => req[c].w \in torn
         /\ \A x \in Ids : rows[x] # NoRow /\ rows[x].copied /\ Whole(x) /\ (x = req[c].w => x \notin torn)
              => x # req[c].w /\ rows[x].by # c
<1>1. req[c].w \in Ids /\ Busy(c) /\ Started(req[c])
  BY DEF Active, Busy, Started, IndInv, StageInv
<1>2. OwnedAt(req[c].w)
  BY <1>1, PartsBefore
<1>3. \A d \in Clients : d # c /\ Busy(d) /\ req[d].w = req[c].w => req[c].w \in torn
  BY <1>1, <1>2 DEF OwnedAt
<1>4. copier[c].state # "done"
  BY DEF Active, IndInv, StageInv
<1>5. ASSUME NEW x \in Ids, rows[x] # NoRow, rows[x].copied, Whole(x), x = req[c].w => x \notin torn
      PROVE  x # req[c].w /\ rows[x].by # c
  <2>1. rows[x].by # c
    BY <1>4, <1>5 DEF Whole
  <2> QED
    BY <1>1, <1>2, <1>5, <2>1 DEF OwnedAt
<1> QED
  BY <1>1, <1>3, <1>5

\* The rows stay and only the container of c and the volume it writes change: what is left to
\* show is the stage of c, how far its copy is, and that what c holds then is true.
LEMMA CopierStep ==
  ASSUME IndInv, NEW c \in Clients, Active(c), NEW k, copier' = [copier EXCEPT ![c] = k],
         k.state # "none",
         NEW r \in Requested, req' = [req EXCEPT ![c] = r], Follows(c, r),
         rows' = rows, torn' = torn,
         volume' \in [Ids -> {NoVolume} \cup Trees],
         \A x \in Ids : (x # req[c].w \/ k.state # "running") => volume'[x] = volume[x],
         \A x \in Ids : volume[x] \in Trees => volume'[x] \in Trees,
         volume'[req[c].w] \in Trees, req[c].src \in Ids => volume'[req[c].src] \in Trees,
         CleanInv', r.pc \in {"copying", "write", "over"},
         k.state = "running" /\ r.op = "save" /\ r.w \notin torn => CopiedSoFar(c)',
         r.pc = "write" /\ r.w \notin torn /\ r.status = "ready" /\ rows[r.w].copied => (Whole(req[c].w))'
  PROVE  DataInv'
<1>1. req'[c] = r /\ \A d \in Clients : d # c => req'[d] = req[d]
  BY ReqAt, Zenon DEF IndInv, TypeOK
<1>2. copier'[c] = k /\ \A d \in Clients : d # c => copier'[d] = copier[d]
  BY ReqAt, Zenon DEF IndInv, TypeOK
<1>3. /\ req[c].w \in Ids /\ Busy(c) /\ Started(req[c])
      /\ \A d \in Clients : d # c /\ Busy(d) /\ req[d].w = req[c].w => req[c].w \in torn
      /\ \A x \in Ids : rows[x] # NoRow /\ rows[x].copied /\ Whole(x) /\ (x = req[c].w => x \notin torn)
              => x # req[c].w /\ rows[x].by # c
  BY WorkerAlone
<1>4. r.w = req[c].w /\ r.op = req[c].op /\ r.src = req[c].src /\ r.exclude = req[c].exclude /\ Started(r)
  BY <1>3 DEF Follows
<1>5. StageInv'
  <2> SUFFICES ASSUME NEW d \in Clients
               PROVE  (/\ req[d].pc \in {"insert", "ask", "copying"} => req[d].op \in {"save", "clone"}
                       /\ req[d].pc = "write" => req[d].op \in {"save", "clone", "rename"}
                       /\ req[d].pc \notin {"idle", "over"} => req[d].w \in Ids
                       /\ req[d].op = "save" => req[d].src = Nobody /\ Always \subseteq req[d].exclude
                       /\ req[d].op = "clone" => req[d].src # Nobody
                       /\ copier[d].state # "none" =>
                            /\ req[d].op \in {"save", "clone"} /\ req[d].pc \in {"copying", "write", "over"}
                            /\ req[d].w \in Ids /\ volume[req[d].w] \in Trees
                            /\ req[d].src \in Ids => volume[req[d].src] \in Trees)'
    BY DEF StageInv
  <2>1. CASE d # c
    BY <1>1, <1>2, <2>1 DEF IndInv, StageInv
  <2>2. CASE d = c
    BY <1>1, <1>2, <1>3, <1>4, <2>2 DEF Follows, Started
  <2> QED
    BY <2>1, <2>2
<1>6. CopyInv'
  <2> SUFFICES ASSUME NEW d \in Clients, copier'[d].state = "running", req'[d].op = "save",
                      req'[d].w \notin torn
               PROVE  CopiedSoFar(d)'
    BY DEF CopyInv
  <2>1. CASE d = c
    BY <1>1, <1>2, <2>1
  <2>2. CASE d # c
    <3>1. req'[d] = req[d] /\ copier'[d] = copier[d] /\ Busy(d)
      BY <1>1, <1>2, <2>2 DEF Busy
    <3>2. req[d].w # req[c].w /\ req[d].w \in Ids
      BY <1>3, <2>2, <3>1 DEF IndInv, StageInv
    <3>3. CopiedSoFar(d) /\ volume'[req[d].w] = volume[req[d].w]
      BY <3>1, <3>2 DEF IndInv, CopyInv
    <3> QED
      BY <3>1, <3>3 DEF CopiedSoFar
  <2> QED
    BY <2>1, <2>2
<1>7. ASSUME NEW x \in Ids, rows[x] # NoRow, rows[x].copied, Whole(x), x \notin torn
      PROVE  Whole(x)'
  <2>1. x # req[c].w /\ rows[x].by # c /\ rows[x].by \in Clients
    BY <1>3, <1>7, PartsBefore DEF OwnedAt
  <2>2. req'[rows[x].by] = req[rows[x].by] /\ copier'[rows[x].by] = copier[rows[x].by] /\ volume'[x] = volume[x]
    BY <1>1, <1>2, <2>1
  <2>3. \A d \in Clients : req'[d].w = x => copier'[d].state # "running"
    BY <1>1, <1>2, <1>4, <1>7, <2>1 DEF Whole
  <2> QED
    BY <1>7, <2>2, <2>3 DEF Whole, SnapshotOf
<1>8. ASSUME NEW x \in Ids
      PROVE  OwnedAt(x)' /\ WholeAt(x)'
  <2>1. OwnedAt(x) /\ WholeAt(x)
    BY PartsBefore
  <2>2. \A d \in Clients : Busy(d)' => Busy(d) /\ req'[d].w = req[d].w
    BY <1>1, <1>2, <1>3, <1>4 DEF Busy
  <2>3. rows[x] # NoRow /\ rows[x].copied =>
            rows[x].by \in Clients /\ req'[rows[x].by].w = x /\ Started(req'[rows[x].by])
    BY <1>1, <1>4, <2>1 DEF OwnedAt
  <2>4. OwnedAt(x)'
    BY <2>1, <2>2, <2>3 DEF OwnedAt, Started
  <2>5. WholeAt(x)'
    BY <1>7, <2>1 DEF WholeAt, Ready
  <2> QED
    BY <2>4, <2>5
<1>9. ASSUME NEW d \in Clients
      PROVE  HeldAt(d)'
  <2> SUFFICES ASSUME req'[d].pc = "write", req'[d].w \notin torn
               PROVE  /\ rows[req'[d].w] # NoRow
                      /\ req'[d].status = "ready" /\ rows[req'[d].w].copied => (Whole(req[d].w))'
    BY DEF HeldAt
  <2>1. CASE d = c
    <3>1. rows[r.w] # NoRow
      BY <1>1, <1>3, <1>4, <2>1, PartsBefore DEF OwnedAt
    <3> QED
      BY <1>1, <2>1, <3>1
  <2>2. CASE d # c
    <3>1. req'[d] = req[d] /\ HeldAt(d) /\ req[d].w \in Ids
      BY <1>1, <1>5, <2>2, PartsBefore DEF StageInv
    <3>2. PICK x \in Ids : x = req[d].w
      BY <3>1
    <3>3. Whole(x)' => (Whole(req[d].w))'
      BY <3>1, <3>2 DEF Whole
    <3> QED
      BY <1>7, <3>1, <3>2, <3>3 DEF HeldAt
  <2> QED
    BY <2>1, <2>2
<1>10. OwnerInv' /\ WholeInv' /\ HeldInv'
  BY <1>8, <1>9, PartsAfter
<1> QED
  BY <1>5, <1>6, <1>10 DEF DataInv

\* A container that still works does not work for a record that says "ready".
LEMMA RunningNotReady ==
  ASSUME IndInv, NEW c \in Clients, copier[c].state = "running"
  PROVE  ~(req[c].pc = "write" /\ req[c].w \notin torn /\ req[c].status = "ready" /\ rows[req[c].w].copied)
<1> SUFFICES ASSUME req[c].pc = "write", req[c].w \notin torn, req[c].status = "ready", rows[req[c].w].copied
             PROVE  FALSE
  OBVIOUS
<1>1. HeldAt(c) /\ Active(c)
  BY PartsBefore DEF Active
<1>2. rows[req[c].w] # NoRow /\ Whole(req[c].w)
  BY <1>1 DEF HeldAt
<1> QED
  BY <1>1, <1>2, WorkerAlone

\* the states a container can be in
Copiers == [state : {"none", "running", "done", "failed"}, rest : SUBSET Entries]

\* The copy ends, well or not: whoever waits for it is answered.
LEMMA CopyEnds ==
  ASSUME IndInv, NEW c \in Clients, copier[c].state = "running",
         NEW state \in {"done", "failed"}, NEW s \in {"ready", "failed"},
         copier' = [copier EXCEPT ![c].state = state],
         s = "ready" => state = "done" /\ copier[c].rest = {},
         IF req[c].pc = "copying" THEN Hold(c, "write", s) ELSE UNCHANGED req,
         rows' = rows, torn' = torn, volume' = volume, editor' = editor, locks' = locks
  PROVE  DataInv' /\ EditorInv' /\ req' \in [Clients -> Requested] /\ copier' \in [Clients -> Copiers]
<1> DEFINE k == [copier[c] EXCEPT !.state = state]
<1>1. copier \in [Clients -> Copiers] /\ copier[c] \in Copiers
  BY DEF IndInv, TypeOK, Copiers
<1>2. k \in Copiers /\ k.state = state /\ k.rest = copier[c].rest /\ copier' = [copier EXCEPT ![c] = k]
  BY <1>1 DEF Copiers
<1>3. copier' \in [Clients -> Copiers] /\ copier'[c] = k /\ \A d \in Clients : d # c => copier'[d] = copier[d]
  BY <1>1, <1>2
<1> HIDE DEF k
<1>4. Active(c) /\ Started(req[c]) /\ Busy(c) /\ req[c].w \in Ids
  BY WorkerAlone DEF Active
<1>5. /\ volume' \in [Ids -> {NoVolume} \cup Trees] /\ CleanInv'
      /\ volume'[req[c].w] \in Trees /\ (req[c].src \in Ids => volume'[req[c].src] \in Trees)
  <2>1. volume \in [Ids -> {NoVolume} \cup Trees] /\ CleanInv
    BY DEF IndInv, TypeOK
  <2>2. volume[req[c].w] \in Trees /\ (req[c].src \in Ids => volume[req[c].src] \in Trees)
    BY DEF IndInv, StageInv
  <2> QED
    BY <2>1, <2>2 DEF CleanInv
<1>6. ASSUME NEW r \in Requested, req' = [req EXCEPT ![c] = r], Follows(c, r),
             r.pc \in {"copying", "write", "over"},
             r.pc = "write" /\ r.w \notin torn /\ r.status = "ready" /\ rows[r.w].copied => (Whole(req[c].w))'
      PROVE  DataInv' /\ EditorInv' /\ req' \in [Clients -> Requested]
  <2>1. DataInv'
    BY <1>2, <1>4, <1>5, <1>6, CopierStep
  <2>2. EditorInv'
    BY <1>6, EditorStep
  <2>3. req' \in [Clients -> Requested]
    BY <1>6, ReqTyped DEF IndInv
  <2> QED
    BY <2>1, <2>2, <2>3
<1>7. CASE req[c].pc # "copying"
  <2> DEFINE r == req[c]
  <2>1. r \in Requested /\ req' = [req EXCEPT ![c] = r] /\ r.pc \in {"write", "over"}
    BY <1>7 DEF IndInv, TypeOK, Requested, StageInv
  <2>2. Follows(c, r)
    BY DEF Follows, Started, IndInv, StageInv
  <2>3. ~(r.pc = "write" /\ r.w \notin torn /\ r.status = "ready" /\ rows[r.w].copied)
    BY RunningNotReady
  <2> HIDE DEF r
  <2> QED
    BY <1>3, <1>6, <2>1, <2>2, <2>3
<1>8. CASE req[c].pc = "copying"
  <2>1. "write" \in Pcs /\ s \in Statuses /\ Hold(c, "write", s)
    BY <1>8 DEF Pcs, Statuses
  <2>2. PICK r \in Requested :
           /\ req' = [req EXCEPT ![c] = r] /\ r.pc = "write" /\ r.status = s /\ Follows(c, r)
           /\ r.op = req[c].op /\ r.w = req[c].w /\ r.src = req[c].src /\ r.exclude = req[c].exclude
           /\ r.op \in {"save", "clone"} /\ r.w \in Ids /\ Busy(c) /\ Started(req[c])
           /\ req' \in [Clients -> Requested]
    BY <1>8, <2>1, HoldStep
  <2>3. req'[c] = r /\ \A d \in Clients : d # c => req'[d] = req[d]
    BY <2>2, ReqAt, Zenon DEF IndInv, TypeOK
  <2>4. ASSUME r.w \notin torn, s = "ready"
        PROVE  (Whole(req[c].w))'
    <3>1. PICK w \in Ids : w = r.w
      BY <2>2
    <3>2. OwnedAt(w)
      BY PartsBefore
    <3>3. rows[w] # NoRow /\ rows[w].copied /\ rows[w].by = c
      BY <2>2, <2>4, <3>1, <3>2 DEF OwnedAt
    <3>4. \A d \in Clients : d # c /\ req[d].w = w => copier[d].state # "running"
      BY <2>4, <3>1, <3>2, <3>3 DEF OwnedAt, Busy
    <3>5. copier'[c].state = "done"
      BY <1>2, <1>3, <2>4
    <3>6. \A d \in Clients : req'[d].w = w => copier'[d].state # "running"
      BY <1>3, <2>3, <3>4, <3>5
    <3>7. r.op = "save" => SnapshotOf(volume[w], r.exclude)
      <4> SUFFICES ASSUME r.op = "save", NEW e \in Entries
                   PROVE  /\ Scratch[e] = "user" /\ (e \in Managed \/ e \notin r.exclude) => volume[w][e] = "user"
                          /\ e \in r.exclude \ Managed => volume[w][e] = "nothing"
                          /\ volume[w][e] # "owned"
        BY DEF SnapshotOf
      <4>1. CopiedSoFar(c) /\ copier[c].rest = {}
        BY <2>2, <2>4 DEF IndInv, CopyInv
      <4>2. volume[w] \in Trees
        BY <2>2, <3>1 DEF IndInv, StageInv
      <4> QED
        BY <2>2, <3>1, <4>1, <4>2 DEF CopiedSoFar, IndInv, CleanInv
    <3> QED
      BY <2>3, <3>1, <3>3, <3>5, <3>6, <3>7 DEF Whole, SnapshotOf
  <2> QED
    BY <1>3, <1>6, <2>2, <2>4
<1> QED
  BY <1>7, <1>8

LEMMA CopyDoneKeeps ==
  ASSUME IndInv, NEW c \in Clients, CopyDone(c) PROVE IndInv'
<1> USE DEF CopyDone
<1>1. DataInv' /\ EditorInv' /\ req' \in [Clients -> Requested] /\ copier' \in [Clients -> Copiers]
  <2>1. "done" \in {"done", "failed"} /\ "ready" \in {"ready", "failed"}
    OBVIOUS
  <2> QED
    BY <2>1, CopyEnds
<1> QED
  BY <1>1 DEF IndInv, DataInv, TypeOK, Requested, Copiers

LEMMA CopyFailsKeeps ==
  ASSUME IndInv, NEW c \in Clients, CopyFails(c) PROVE IndInv'
<1> USE DEF CopyFails
<1>1. DataInv' /\ EditorInv' /\ req' \in [Clients -> Requested] /\ copier' \in [Clients -> Copiers]
  <2>1. "failed" \in {"done", "failed"} /\ "failed" \in {"ready", "failed"} /\ "failed" # "ready"
    OBVIOUS
  <2> QED
    BY <2>1, CopyEnds
<1>2. faults' \in 0..MaxFaults
  BY WorkspacesAssumption DEF Fault, IndInv, TypeOK
<1> QED
  BY <1>1, <1>2 DEF IndInv, DataInv, TypeOK, Requested, Copiers

\* What may be written over an entry is never AgentSpace's own.
LEMMA NeverOwned ==
  ASSUME IndInv, NEW src \in Origins, src \in Ids => volume[src] \in Trees, NEW e \in Entries,
         NEW exclude, src = Nobody => Always \subseteq exclude
  PROVE  /\ Tree(src) \in Trees
         /\ (IF should_exclude(exclude, Tree(src), e) THEN "nothing" ELSE Tree(src)[e]) \in Contents \ {"owned"}
<1>1. CASE src = Nobody
  BY <1>1, WorkspacesAssumption DEF Tree, should_exclude, Trees, Contents
<1>2. CASE src # Nobody
  <2>1. src \in Ids /\ Tree(src) = volume[src]
    BY <1>2 DEF Origins, Tree
  <2>2. volume[src][e] # "owned" /\ volume[src][e] \in Contents
    BY <2>1 DEF IndInv, CleanInv, Trees
  <2> QED
    BY <2>1, <2>2 DEF Contents
<1> QED
  BY <1>1, <1>2

LEMMA copy_entryKeeps ==
  ASSUME IndInv, NEW c \in Clients, NEW e \in Entries, copy_entry(c, e) PROVE IndInv'
<1> USE DEF copy_entry
<1> DEFINE r == req[c]
           k == [copier[c] EXCEPT !.rest = @ \ {e}]
<1>1. copier \in [Clients -> Copiers] /\ copier[c] \in Copiers
  BY DEF IndInv, TypeOK, Copiers
<1>2. k \in Copiers /\ k.state = "running" /\ k.rest = copier[c].rest \ {e} /\ copier' = [copier EXCEPT ![c] = k]
  BY <1>1 DEF Copiers
<1>3. copier' \in [Clients -> Copiers] /\ copier'[c] = k
  BY <1>1, <1>2
<1>4. r \in Requested /\ req' = [req EXCEPT ![c] = r] /\ req' = req /\ req' \in [Clients -> Requested]
  BY DEF IndInv, TypeOK, Requested
<1>5. Active(c) /\ r.w \in Ids /\ r.src \in Origins /\ (r.src \in Ids => volume[r.src] \in Trees)
      /\ volume[r.w] \in Trees /\ r.pc \in {"copying", "write", "over"}
  BY DEF Active, IndInv, StageInv, TypeOK
<1>6. PICK w \in Ids : w = r.w
  BY <1>5
<1>7. PICK src \in Origins, exclude \in SUBSET Entries :
        src = r.src /\ exclude = r.exclude /\ (src = Nobody => Always \subseteq exclude)
  <2>1. r.src = Nobody => Always \subseteq r.exclude
    BY DEF IndInv, StageInv
  <2> QED
    BY <1>4, <1>5, <2>1 DEF Requested
<1>8. PICK new \in Contents \ {"owned"} :
        new = (IF should_exclude(exclude, Tree(src), e) THEN "nothing" ELSE Tree(src)[e])
  BY <1>5, <1>7, NeverOwned
<1>9. volume' = [volume EXCEPT ![w][e] = new]
  BY <1>6, <1>7, <1>8
<1>10. /\ \A x \in Ids : x # w => volume'[x] = volume[x]
       /\ volume'[w] = [volume[w] EXCEPT ![e] = new] /\ volume'[w] \in Trees
       /\ volume' \in [Ids -> {NoVolume} \cup Trees]
  BY <1>5, <1>6, <1>8, <1>9 DEF IndInv, TypeOK, Trees
<1>11. /\ \A x \in Ids : volume[x] \in Trees => volume'[x] \in Trees
       /\ r.src \in Ids => volume'[r.src] \in Trees
  BY <1>5, <1>10
<1>12. volume'[w][e] = new /\ \A f \in Entries : f # e => volume'[w][f] = volume[w][f]
  BY <1>5, <1>6, <1>10 DEF Trees
<1>13. CleanInv'
  BY <1>5, <1>6, <1>8, <1>10, <1>12 DEF CleanInv, IndInv
<1>14. ASSUME r.op = "save", r.w \notin torn
       PROVE  CopiedSoFar(c)'
  <2> SUFFICES ASSUME NEW f \in Entries
               PROVE  /\ f \notin k.rest /\ Scratch[f] = "user" /\ (f \in Managed \/ f \notin exclude)
                           => volume'[w][f] = "user"
                      /\ f \in exclude \ Managed => volume'[w][f] = "nothing"
    BY <1>3, <1>4, <1>6, <1>7 DEF CopiedSoFar
  <2>1. CASE f # e
    <3>1. CopiedSoFar(c) /\ (f \notin k.rest => f \notin copier[c].rest)
      BY <1>2, <1>14, <2>1 DEF IndInv, CopyInv
    <3> QED
      BY <1>6, <1>7, <1>12, <2>1, <3>1 DEF CopiedSoFar
  <2>2. CASE f = e
    <3>1. src = Nobody
      BY <1>7, <1>14 DEF IndInv, StageInv
    <3> QED
      BY <1>8, <1>12, <2>2, <3>1 DEF Tree, should_exclude
  <2> QED
    BY <2>1, <2>2
<1>15. Follows(c, r)
  BY DEF Follows, Started, IndInv, StageInv
<1>16. ~(r.pc = "write" /\ r.w \notin torn /\ r.status = "ready" /\ rows[r.w].copied)
  BY RunningNotReady
<1>17. rows' = rows /\ torn' = torn /\ editor' = editor /\ locks' = locks
  OBVIOUS
<1> HIDE DEF r, k, copy_entry
<1>18. DataInv'
  <2>1. PICK q \in Requested : q = r
    BY <1>4
  <2>2. PICK m : m = k
    OBVIOUS
  <2>3. /\ copier' = [copier EXCEPT ![c] = m] /\ m.state # "none"
        /\ req' = [req EXCEPT ![c] = q] /\ Follows(c, q) /\ q.pc \in {"copying", "write", "over"}
    BY <1>2, <1>4, <1>5, <1>15, <2>1, <2>2
  <2>4. /\ \A x \in Ids : (x # req[c].w \/ m.state # "running") => volume'[x] = volume[x]
        /\ volume'[req[c].w] \in Trees /\ (req[c].src \in Ids => volume'[req[c].src] \in Trees)
    BY <1>2, <1>6, <1>10, <1>11, <2>2 DEF r
  <2>5. m.state = "running" /\ q.op = "save" /\ q.w \notin torn => CopiedSoFar(c)'
    BY <1>14, <2>1
  <2>6. ~(q.pc = "write" /\ q.w \notin torn /\ q.status = "ready" /\ rows[q.w].copied)
    BY <1>16, <2>1
  <2> QED
    BY <1>5, <1>10, <1>11, <1>13, <1>17, <2>3, <2>4, <2>5, <2>6, CopierStep
<1>19. EditorInv'
  BY <1>4, <1>17 DEF IndInv, EditorInv
<1> QED
  BY <1>3, <1>4, <1>10, <1>18, <1>19 DEF IndInv, DataInv, TypeOK, Requested, Copiers, copy_entry

\* What the script clears first is never brought in: the target stays clean, and has nothing
\* under an excluded name.
LEMMA PreparedClean ==
  ASSUME NEW old \in Trees, \A e \in Entries : old[e] # "owned", NEW src, NEW exclude
  PROVE  /\ Prepared(old, src, exclude) \in Trees
         /\ \A e \in Entries : /\ Prepared(old, src, exclude)[e] # "owned"
                               /\ e \in exclude \ Managed => Prepared(old, src, exclude)[e] = "nothing"
<1> DEFINE swept == [e \in Entries |-> IF e \in Managed /\ old[e] = "owned" THEN "nothing" ELSE old[e]]
           seen(e) == IF Tree(src)[e] # "nothing" THEN Tree(src) ELSE swept
           cleared(e) == e \in exclude /\ should_exclude(exclude, seen(e), e)
<1>1. Prepared(old, src, exclude) = [e \in Entries |-> IF cleared(e) THEN "nothing" ELSE swept[e]]
  BY DEF Prepared
<1>2. \A e \in Entries : swept[e] \in Contents \ {"owned"}
  BY DEF Trees, Contents
<1> HIDE DEF cleared, swept
<1>3. \A e \in Entries : (IF cleared(e) THEN "nothing" ELSE swept[e]) \in Contents \ {"owned"}
  BY <1>2 DEF Contents
<1>4. \A e \in exclude \ Managed : cleared(e)
  BY DEF cleared, should_exclude
<1> QED
  BY <1>1, <1>3, <1>4 DEF Trees

LEMMA copy_workspace_volumeKeeps ==
  ASSUME IndInv, NEW c \in Clients, copy_workspace_volume(c) PROVE IndInv'
<1> DEFINE old == IF volume[req[c].w] = NoVolume THEN EmptyVolume ELSE volume[req[c].w]
<1>0. /\ req[c].pc = "ask" /\ rows' = rows /\ editor' = editor /\ locks' = locks /\ mounts' = mounts
      /\ torn' = torn /\ faults' = faults
  BY DEF copy_workspace_volume
<1>1. CASE Hold(c, "write", "failed") /\ UNCHANGED <<volume, copier>>
  <2>1. "write" \in Pcs /\ "failed" \in Statuses
    BY DEF Pcs, Statuses
  <2>2. PICK r \in Requested :
           /\ req' = [req EXCEPT ![c] = r] /\ r.pc = "write" /\ r.status = "failed" /\ Follows(c, r)
           /\ r.op = req[c].op /\ r.w = req[c].w /\ r.src = req[c].src /\ r.exclude = req[c].exclude
           /\ r.op \in {"save", "clone"} /\ r.w \in Ids /\ Busy(c) /\ Started(req[c])
           /\ req' \in [Clients -> Requested]
    BY <1>0, <1>1, <2>1, HoldStep
  <2>3. r.w \notin torn => rows[r.w] # NoRow
    BY <2>2 DEF IndInv, OwnerInv
  <2>4. DataInv'
    BY <1>0, <1>1, <2>2, <2>3, QuietStep
  <2>5. EditorInv'
    BY <1>0, <2>2, EditorStep
  <2> QED
    BY <1>0, <1>1, <2>2, <2>4, <2>5 DEF IndInv, DataInv, TypeOK, Requested
<1>2. CASE /\ req[c].src # req[c].w /\ (req[c].src = Nobody \/ Tree(req[c].src) # NoVolume)
           /\ volume' = [volume EXCEPT ![req[c].w] = Prepared(old, req[c].src, req[c].exclude)]
           /\ copier' = [copier EXCEPT ![c] =
                [state |-> "running", rest |-> {e \in Entries : Tree(req[c].src)[e] # "nothing"}]]
           /\ Move(c, "copying")
  <2>1. PICK m \in Copiers : m = [state |-> "running", rest |-> {e \in Entries : Tree(req[c].src)[e] # "nothing"}]
    BY DEF Copiers
  <2>2. m.state = "running" /\ \A e \in Entries : e \notin m.rest => Tree(req[c].src)[e] = "nothing"
    BY <2>1
  <2>3. copier' = [copier EXCEPT ![c] = m] /\ copier' \in [Clients -> Copiers] /\ copier'[c] = m
    BY <1>2, <2>1 DEF IndInv, TypeOK, Copiers
  <2>4. req[c] \in Requested /\ req[c].w \in Ids /\ req[c].op \in {"save", "clone"} /\ Active(c)
        /\ req[c].src \in Origins /\ (req[c].src \in Ids => req[c].src # Nobody)
    BY <1>0, WorkspacesAssumption DEF IndInv, TypeOK, Requested, StageInv, Active
  <2>5. PICK q \in Requested : q = [req[c] EXCEPT !.pc = "copying"]
    BY <2>4 DEF Requested, Pcs
  <2>6. q.pc = "copying" /\ q.op = req[c].op /\ q.w = req[c].w /\ q.src = req[c].src
        /\ q.exclude = req[c].exclude
    BY <2>4, <2>5 DEF Requested
  <2>7. req' = [req EXCEPT ![c] = q] /\ req'[c] = q
    BY <1>2, <2>5 DEF Move, IndInv, TypeOK
  <2>8. PICK w \in Ids : w = req[c].w
    BY <2>4
  <2>9. old \in Trees /\ \A e \in Entries : old[e] # "owned"
    <3>1. EmptyVolume \in Trees /\ \A e \in Entries : EmptyVolume[e] = "nothing"
      BY DEF EmptyVolume, Trees, Contents
    <3>2. volume[w] \in Trees => \A e \in Entries : volume[w][e] # "owned"
      BY DEF IndInv, CleanInv
    <3>3. volume[w] = NoVolume \/ volume[w] \in Trees
      BY DEF IndInv, TypeOK
    <3> QED
      BY <2>8, <3>1, <3>2, <3>3
  <2>10. PICK new \in Trees :
           /\ new = Prepared(old, req[c].src, req[c].exclude)
           /\ \A e \in Entries : new[e] # "owned" /\ (e \in req[c].exclude \ Managed => new[e] = "nothing")
    BY <2>9, PreparedClean
  <2>11. /\ volume' = [volume EXCEPT ![w] = new] /\ volume'[w] = new
         /\ \A x \in Ids : x # w => volume'[x] = volume[x]
         /\ volume' \in [Ids -> {NoVolume} \cup Trees]
    BY <1>2, <2>8, <2>10 DEF IndInv, TypeOK
  <2>12. /\ \A x \in Ids : volume[x] \in Trees => volume'[x] \in Trees
         /\ volume'[req[c].w] \in Trees
    BY <2>8, <2>11
  <2>13. req[c].src \in Ids => volume'[req[c].src] \in Trees
    <3> SUFFICES ASSUME req[c].src \in Ids PROVE volume'[req[c].src] \in Trees
      OBVIOUS
    <3>1. req[c].src # Nobody /\ volume[req[c].src] # NoVolume
      BY <1>2, <2>4 DEF Tree
    <3> QED
      BY <2>12, <3>1 DEF IndInv, TypeOK
  <2>14. CleanInv'
    BY <2>10, <2>11 DEF CleanInv, IndInv
  <2>15. m.state = "running" /\ q.op = "save" /\ q.w \notin torn => CopiedSoFar(c)'
    <3> SUFFICES ASSUME q.op = "save"
                 PROVE  CopiedSoFar(c)'
      OBVIOUS
    <3>1. req[c].src = Nobody
      BY <2>6 DEF IndInv, StageInv
    <3>2. \A e \in Entries : e \notin m.rest => Scratch[e] # "user"
      BY <2>2, <3>1 DEF Tree
    <3>3. volume'[req'[c].w] = new /\ req'[c].exclude = req[c].exclude
      BY <2>6, <2>7, <2>8, <2>11
    <3> QED
      BY <2>3, <2>10, <3>2, <3>3 DEF CopiedSoFar
  <2>16. Follows(c, q)
    BY <1>0, <2>4, <2>6 DEF Follows, Started, IndInv, StageInv
  <2>17. DataInv'
    <3>1. /\ \A x \in Ids : (x # req[c].w \/ m.state # "running") => volume'[x] = volume[x]
          /\ m.state # "none" /\ q.pc \in {"copying", "write", "over"} /\ q.pc # "write"
      BY <2>2, <2>6, <2>8, <2>11
    <3> HIDE <1>2
    <3> QED
      BY <1>0, <2>3, <2>4, <2>7, <2>11, <2>12, <2>13, <2>14, <2>15, <2>16, <3>1, CopierStep
  <2>18. EditorInv'
    BY <1>0, <2>6, <2>7, EditorStep
  <2>19. req' \in [Clients -> Requested]
    BY <2>7, ReqTyped DEF IndInv
  <2> QED
    BY <1>0, <2>3, <2>11, <2>17, <2>18, <2>19 DEF IndInv, DataInv, TypeOK, Requested, Copiers
<1> QED
  BY <1>1, <1>2 DEF copy_workspace_volume

----------------------------------------------------------------------------
(* The theorems.                                                           *)

LEMMA InitInv == Init => IndInv
<1> SUFFICES ASSUME NEW registered \in [Ids -> {NoRow, [status |-> "ready", by |-> Nobody, copied |-> FALSE]}],
                    NEW copied \in [Ids -> {NoVolume, EmptyVolume}], WorkspacesBegin(registered, copied)
             PROVE  IndInv
  BY DEF Init
<1> DEFINE kept == [status |-> "ready", by |-> Nobody, copied |-> FALSE]
<1>1. kept \in Row /\ ~kept.copied
  BY Zenon DEF Row, Statuses
<1> HIDE DEF kept
<1>2. EmptyVolume \in Trees /\ \A e \in Entries : EmptyVolume[e] = "nothing"
  BY DEF EmptyVolume, Trees, Contents
<1>3. NoRequest \in Requested /\ NoRequest.pc = "idle" /\ NoRequest.op = "none"
  BY DEF NoRequest, Requested, Pcs, Statuses, Origins
<1>4. /\ rows = registered /\ volume = copied /\ mounts = {} /\ torn = {} /\ faults = 0
      /\ copier = [c \in Clients |-> [state |-> "none", rest |-> {}]]
      /\ editor = [w \in Ids |-> "none"] /\ locks = [w \in Ids |-> Nobody]
      /\ req = [c \in Clients |-> NoRequest]
  BY DEF WorkspacesBegin
<1>5. rows \in [Ids -> {NoRow, kept}] /\ \A w \in Ids : rows[w] # NoRow => ~rows[w].copied
  BY <1>1, <1>4 DEF kept
<1>6. rows \in [Ids -> {NoRow} \cup Row]
  BY <1>1, <1>5
<1>7. TypeOK
  BY <1>2, <1>3, <1>4, <1>6, WorkspacesAssumption DEF TypeOK, Requested
<1>8. \A c \in Clients : req[c].pc = "idle" /\ req[c].op = "none" /\ copier[c].state = "none"
  BY <1>3, <1>4
<1>9. StageInv /\ CopyInv /\ HeldInv /\ EditorInv
  BY <1>8 DEF StageInv, CopyInv, HeldInv, EditorInv
<1>10. OwnerInv /\ WholeInv
  BY <1>5, <1>8 DEF OwnerInv, WholeInv, Ready, Busy
<1>11. CleanInv
  BY <1>2, <1>4, WorkspacesAssumption DEF CleanInv
<1> QED
  BY <1>7, <1>9, <1>10, <1>11 DEF IndInv

LEMMA NextInv ==
  ASSUME IndInv, [Next]_vars PROVE IndInv'
<1>1. CASE UNCHANGED vars
  BY <1>1 DEF vars, IndInv, TypeOK, StageInv, CleanInv, OwnerInv, CopyInv, WholeInv, HeldInv, EditorInv,
              Whole, Busy, CopiedSoFar, Ready
<1>2. CASE \E c \in Clients, w \in Ids :
             \/ create_workspace(c, w) \/ update_workspace(c, w) \/ delete_workspace(c, w)
             \/ validate_workspace_mounts(c, w) \/ workspace_volume_mount(c, w)
             \/ save_session_workspace(c, w) \/ open_workspace_vscode(c, w)
             \/ \E src \in Ids : clone_workspace(c, w, src)
  BY <1>2, create_workspaceKeeps, update_workspaceKeeps, delete_workspaceKeeps,
     validate_workspace_mountsKeeps, workspace_volume_mountKeeps, save_session_workspaceKeeps,
     open_workspace_vscodeKeeps, clone_workspaceKeeps
<1>3. CASE \E c \in Clients :
             \/ DeleteRow(c) \/ WriteMounts(c) \/ InsertCreating(c)
             \/ copy_workspace_volume(c) \/ CopyDone(c) \/ CopyFails(c) \/ CopyTimesOut(c)
             \/ WriteRow(c)
             \/ LockEditor(c) \/ InspectEditor(c) \/ RemoveEditor(c) \/ CreateEditor(c) \/ StartEditor(c)
             \/ HangUp(c)
             \/ \E e \in Entries : copy_entry(c, e)
  BY <1>3, DeleteRowKeeps, WriteMountsKeeps, InsertCreatingKeeps, copy_workspace_volumeKeeps,
     CopyDoneKeeps, CopyFailsKeeps, CopyTimesOutKeeps, WriteRowKeeps, LockEditorKeeps,
     InspectEditorKeeps, RemoveEditorKeeps, CreateEditorKeeps, StartEditorKeeps, HangUpKeeps,
     copy_entryKeeps
<1>4. CASE \E w \in Ids : EditorExits(w)
  BY <1>4, EditorExitsKeeps
<1> QED
  BY <1>1, <1>2, <1>3, <1>4 DEF Next

\* A request's own insertion is the only step that makes a row.
LEMMA StepKeepsDeleted ==
  ASSUME IndInv, Next PROVE DeletedStaysDeleted
<1> SUFFICES ASSUME NEW w \in Ids, rows[w] = NoRow, rows'[w] # NoRow
             PROVE  \E c \in Clients : req[c].pc \in {"idle", "insert"} /\ req'[c].pc \in {"ask", "over"}
                                       /\ rows'[w].by = c
  BY DEF DeletedStaysDeleted
<1>1. rows' # rows
  OBVIOUS
<1>2. CASE \E c \in Clients, x \in Ids : create_workspace(c, x)
  <2>1. PICK c \in Clients, x \in Ids : create_workspace(c, x)
    BY <1>2
  <2>2. Finish(c) /\ req[c].pc = "idle" /\ rows' = [rows EXCEPT ![x] = [status |-> "ready", by |-> c, copied |-> FALSE]]
    BY <2>1 DEF create_workspace, Insert
  <2>3. PICK r \in Requested : req' = [req EXCEPT ![c] = r] /\ r.pc = "over"
    BY <2>2, FinishStep
  <2>4. req'[c] = r
    BY <2>3 DEF IndInv, TypeOK
  <2>5. w = x /\ rows'[w].by = c
    BY <2>2 DEF IndInv, TypeOK
  <2> QED
    BY <2>2, <2>3, <2>4, <2>5
<1>3. CASE \E c \in Clients : InsertCreating(c)
  <2>1. PICK c \in Clients : InsertCreating(c)
    BY <1>3
  <2>2. /\ req[c].pc = "insert" /\ Move(c, "ask")
        /\ rows' = [rows EXCEPT ![req[c].w] = [status |-> "creating", by |-> c, copied |-> TRUE]]
    BY <1>1, <2>1 DEF InsertCreating, Insert
  <2>3. req'[c].pc = "ask"
    BY <2>2 DEF Move, IndInv, TypeOK
  <2>4. w = req[c].w /\ rows'[w].by = c
    BY <2>2 DEF IndInv, TypeOK
  <2> QED
    BY <2>2, <2>3, <2>4
<1>4. ASSUME NEW c \in Clients PROVE ~DeleteRow(c) /\ ~WriteRow(c)
  BY <1>1 DEF DeleteRow, WriteRow, update, IndInv, TypeOK
<1>5. ASSUME NEW c \in Clients, NEW x \in Ids
      PROVE  /\ ~update_workspace(c, x) /\ ~delete_workspace(c, x) /\ ~validate_workspace_mounts(c, x)
             /\ ~workspace_volume_mount(c, x) /\ ~save_session_workspace(c, x) /\ ~open_workspace_vscode(c, x)
             /\ ~ \E src \in Ids : clone_workspace(c, x, src)
  BY <1>1 DEF update_workspace, delete_workspace, validate_workspace_mounts, workspace_volume_mount,
              save_session_workspace, open_workspace_vscode, clone_workspace
<1>6. ASSUME NEW c \in Clients
      PROVE  /\ ~WriteMounts(c) /\ ~copy_workspace_volume(c) /\ ~CopyDone(c) /\ ~CopyFails(c) /\ ~CopyTimesOut(c)
             /\ ~LockEditor(c) /\ ~InspectEditor(c) /\ ~RemoveEditor(c) /\ ~CreateEditor(c) /\ ~StartEditor(c)
             /\ ~HangUp(c) /\ ~ \E e \in Entries : copy_entry(c, e)
  BY <1>1 DEF WriteMounts, copy_workspace_volume, CopyDone, CopyFails, CopyTimesOut, LockEditor, InspectEditor,
              RemoveEditor, CreateEditor, StartEditor, HangUp, copy_entry
<1>7. ~ \E x \in Ids : EditorExits(x)
  BY <1>1 DEF EditorExits
<1> QED
  BY <1>2, <1>3, <1>4, <1>5, <1>6, <1>7 DEF Next

\* Whoever removes an editor has seen under its lock that it does not run.
LEMMA StepKeepsEditor ==
  ASSUME IndInv, Next PROVE EditorKept
<1> SUFFICES ASSUME NEW w \in Ids, editor[w] = "running", req' # req, editor'[w] # "running"
             PROVE  FALSE
  BY DEF EditorKept
<1>1. editor' # editor
  OBVIOUS
<1>2. ASSUME NEW c \in Clients PROVE ~RemoveEditor(c)
  <2>1. req[c].pc = "remove" => req[c].w \in Ids /\ editor[req[c].w] # "running"
    BY DEF IndInv, StageInv, EditorInv
  <2> QED
    BY <2>1 DEF RemoveEditor, IndInv, TypeOK
<1>3. ASSUME NEW c \in Clients PROVE ~CreateEditor(c) /\ ~StartEditor(c)
  BY <1>1 DEF CreateEditor, StartEditor, IndInv, TypeOK
<1>4. ASSUME NEW c \in Clients, NEW x \in Ids
      PROVE  /\ ~create_workspace(c, x)
             /\ ~update_workspace(c, x) /\ ~delete_workspace(c, x) /\ ~validate_workspace_mounts(c, x)
             /\ ~workspace_volume_mount(c, x) /\ ~save_session_workspace(c, x) /\ ~open_workspace_vscode(c, x)
             /\ ~ \E src \in Ids : clone_workspace(c, x, src)
  BY <1>1 DEF create_workspace, update_workspace, delete_workspace, validate_workspace_mounts,
              workspace_volume_mount, save_session_workspace, open_workspace_vscode, clone_workspace
<1>5. ASSUME NEW c \in Clients
      PROVE  /\ ~DeleteRow(c) /\ ~WriteMounts(c) /\ ~InsertCreating(c) /\ ~WriteRow(c)
             /\ ~copy_workspace_volume(c) /\ ~CopyDone(c) /\ ~CopyFails(c) /\ ~CopyTimesOut(c)
             /\ ~LockEditor(c) /\ ~InspectEditor(c) /\ ~HangUp(c) /\ ~ \E e \in Entries : copy_entry(c, e)
  BY <1>1 DEF DeleteRow, WriteMounts, InsertCreating, WriteRow, copy_workspace_volume, CopyDone, CopyFails,
              CopyTimesOut, LockEditor, InspectEditor, HangUp, copy_entry
<1>6. ~ \E x \in Ids : EditorExits(x)
  BY DEF EditorExits
<1> QED
  BY <1>2, <1>3, <1>4, <1>5, <1>6 DEF Next

\* Every reachable state is well typed, for every set of requests, workspaces and entries
\* and any number of timeouts, hang-ups, failed copies and failed writes.
THEOREM WorkspacesTyped == Spec => []TypeOK
<1>1. IndInv => TypeOK
  BY DEF IndInv
<1> QED
  BY <1>1, InitInv, NextInv, PTL DEF Spec

\* However saves, clones, renames, deletions, mounts and openings of the workspaces overlap,
\* time out, fail or are cut off, and whatever a save excludes besides .agents: a copied
\* workspace is offered as ready only when its copy has ended well and nothing writes it; a
\* saved one then has all that the user left under names the save did not exclude, nothing
\* under the names it did, and nothing that AgentSpace staged; a deleted row is not brought
\* back by a late write, and no request takes a running editor away (api.rs, store.rs,
\* snapshot_workspace.py).
THEOREM WorkspacesStayKept == Spec => WorkspacesKept
<1> DEFINE Step == ReadyIsWhole' /\ DeletedStaysDeleted /\ EditorKept
<1>1. IndInv /\ [Next]_vars => [Step]_vars
  <2> SUFFICES ASSUME IndInv, [Next]_vars, vars' # vars PROVE Step
    BY DEF vars
  <2>1. Next
    OBVIOUS
  <2>2. IndInv'
    BY NextInv
  <2>3. ReadyIsWhole'
    <3>1. IndInv' => ReadyIsWhole'
      BY DEF IndInv, WholeInv, Whole, ReadyIsWhole
    <3> QED
      BY <2>2, <3>1
  <2> QED
    BY <2>1, <2>3, StepKeepsDeleted, StepKeepsEditor
<1> HIDE DEF Step
<1>2. Spec => [][Step]_vars
  BY <1>1, InitInv, NextInv, PTL DEF Spec
<1> QED
  BY <1>2 DEF Step, WorkspacesKept

----------------------------------------------------------------------------
(* EventPipe: lines and what is left of them.  A suffix function stands    *)
(* for the concatenation of any number of lines.                           *)

Byte == (Nat \X {1, 2}) \cup {NL, CR, <<"x">>}

\* sf[i] is what the lines after the i-th come to, those up to the a-th left out
Laid(L, a, sf) ==
  /\ a \in 0..Len(L) /\ sf \in [a..Len(L) -> Seq(Byte)] /\ sf[Len(L)] = <<>>
  /\ \A i \in a+1..Len(L) : sf[i - 1] = L[i] \o sf[i]

\* s is the lines after the a-th
Lays(L, a, s) == \E sf : Laid(L, a, sf) /\ sf[a] = s

LEMMA Assoc ==
  ASSUME NEW s \in Seq(Byte), NEW t \in Seq(Byte), NEW u \in Seq(Byte)
  PROVE  (s \o t) \o u = s \o (t \o u)
BY ConcatAssociative, SMT

LEMMA LaysTypes ==
  ASSUME NEW L \in Seq(Seq(Byte)), NEW a, NEW s, Lays(L, a, s)
  PROVE  a \in 0..Len(L) /\ s \in Seq(Byte)
BY LenProperties DEF Lays, Laid

LEMMA LaysNothing ==
  ASSUME NEW L \in Seq(Seq(Byte))
  PROVE  /\ Lays(L, Len(L), <<>>)
         /\ \A s : Lays(L, Len(L), s) => s = <<>>
<1>1. \A s : Lays(L, Len(L), s) => s = <<>>
  BY DEF Lays, Laid
<1>2. Lays(L, Len(L), <<>>)
  <2> DEFINE sf == [i \in Len(L)..Len(L) |-> <<>>]
  <2>1. Len(L) \in Nat /\ <<>> \in Seq(Byte)
    OBVIOUS
  <2>2. sf \in [Len(L)..Len(L) -> Seq(Byte)] /\ sf[Len(L)] = <<>>
    BY <2>1
  <2>3. Len(L) \in 0..Len(L) /\ Len(L)+1..Len(L) = {}
    BY <2>1
  <2> HIDE DEF sf
  <2> QED BY <2>2, <2>3 DEF Lays, Laid
<1> QED BY <1>1, <1>2

LEMMA LaysMore ==
  ASSUME NEW L \in Seq(Seq(Byte)), NEW l \in Seq(Byte), NEW a, NEW s, Lays(L, a, s)
  PROVE  Lays(Append(L, l), a, s \o l)
<1> DEFINE n == Len(L)
           M == Append(L, l)
<1>1. PICK sf : Laid(L, a, sf) /\ sf[a] = s
  BY DEF Lays
<1>2. n \in Nat /\ a \in 0..n /\ sf \in [a..n -> Seq(Byte)] /\ sf[n] = <<>>
  BY <1>1 DEF Laid
<1>3. Len(M) = n + 1 /\ M[n + 1] = l /\ \A i \in 1..n : M[i] = L[i] /\ L[i] \in Seq(Byte)
  BY <1>2
<1> DEFINE tf == [i \in a..n+1 |-> IF i = n + 1 THEN <<>> ELSE sf[i] \o l]
<1>4. tf \in [a..Len(M) -> Seq(Byte)]
  <2>1. ASSUME NEW i \in a..n PROVE sf[i] \o l \in Seq(Byte)
    BY <1>2
  <2>2. \A i \in a..n+1 : i # n + 1 => i \in a..n
    BY <1>2
  <2>3. <<>> \in Seq(Byte)
    OBVIOUS
  <2> QED BY <1>2, <1>3, <2>1, <2>2, <2>3
<1>5. ASSUME NEW i \in a+1..Len(M) PROVE tf[i - 1] = M[i] \o tf[i]
  <2>1. CASE i = n + 1
    <3>1. tf[i - 1] = sf[n] \o l /\ tf[i] = <<>>
      BY <1>2, <1>3, <2>1
    <3>2. tf[i - 1] = l
      BY <1>2, <3>1
    <3> HIDE DEF tf, M
    <3>3. l = l \o <<>>
      OBVIOUS
    <3> QED BY <1>3, <2>1, <3>1, <3>2, <3>3
  <2>2. CASE i # n + 1
    <3>1. i \in a+1..n /\ i \in 1..n /\ i \in a..n /\ i - 1 \in a..n
      BY <1>2, <1>3, <2>2
    <3>2. sf[i - 1] = L[i] \o sf[i]
      BY <1>1, <3>1 DEF Laid
    <3>3. tf[i - 1] = sf[i - 1] \o l /\ tf[i] = sf[i] \o l
      BY <1>2, <3>1
    <3>4. L[i] \in Seq(Byte) /\ sf[i] \in Seq(Byte)
      BY <1>2, <1>3, <3>1
    <3> HIDE DEF tf, M
    <3>6. (L[i] \o sf[i]) \o l = L[i] \o (sf[i] \o l)
      BY <3>4, Assoc
    <3>5. tf[i - 1] = L[i] \o (sf[i] \o l)
      BY <3>2, <3>3, <3>6
    <3> QED BY <1>3, <3>1, <3>3, <3>5
  <2> QED BY <2>1, <2>2
<1>6. tf[a] = s \o l /\ tf[Len(M)] = <<>> /\ a \in 0..Len(M)
  BY <1>1, <1>2, <1>3
<1> HIDE DEF tf, M
<1>7. Laid(M, a, tf)
  BY <1>4, <1>5, <1>6 DEF Laid
<1> QED BY <1>6, <1>7 DEF Lays, M

LEMMA LaysFirst ==
  ASSUME NEW L \in Seq(Seq(Byte)), NEW a, NEW s, Lays(L, a, s), a # Len(L)
  PROVE  \E t \in Seq(Byte) : s = L[a + 1] \o t /\ Lays(L, a + 1, t)
<1>1. PICK sf : Laid(L, a, sf) /\ sf[a] = s
  BY DEF Lays
<1>2. Len(L) \in Nat /\ a \in 0..Len(L) /\ sf \in [a..Len(L) -> Seq(Byte)]
  BY <1>1 DEF Laid
<1>3. a + 1 \in a+1..Len(L) /\ (a + 1) - 1 = a /\ a + 1 \in a..Len(L)
  BY <1>2
<1>4. s = L[a + 1] \o sf[a + 1] /\ sf[a + 1] \in Seq(Byte)
  BY <1>1, <1>2, <1>3 DEF Laid
<1> DEFINE tf == [i \in a+1..Len(L) |-> sf[i]]
<1>5. tf \in [a+1..Len(L) -> Seq(Byte)] /\ tf[Len(L)] = <<>> /\ a + 1 \in 0..Len(L)
  BY <1>1, <1>2, <1>3 DEF Laid
<1>6. ASSUME NEW i \in (a+1)+1..Len(L) PROVE tf[i - 1] = L[i] \o tf[i]
  <2>1. i \in a+1..Len(L) /\ i - 1 \in a+1..Len(L)
    BY <1>2
  <2> QED BY <1>1, <2>1 DEF Laid
<1>7. tf[a + 1] = sf[a + 1]
  BY <1>2
<1> HIDE DEF tf
<1>8. Laid(L, a + 1, tf)
  BY <1>5, <1>6 DEF Laid
<1> QED BY <1>4, <1>7, <1>8 DEF Lays

----------------------------------------------------------------------------
(* EventPipe: a buffer read line by line is its lines.                     *)

\* a line with its end
Ended(l) ==
  /\ l \in Seq(Byte) /\ l # <<>> /\ l[Len(l)] = NL
  /\ \A i \in 1..Len(l)-1 : l[i] # NL

LEMMA Part ==
  ASSUME NEW s \in Seq(Byte), NEW m \in Nat \ {0}, NEW n \in Nat, n <= Len(s)
  PROVE  /\ SubSeq(s, m, n) \in Seq(Byte)
         /\ Len(SubSeq(s, m, n)) = IF m <= n THEN n - m + 1 ELSE 0
         /\ \A i \in 1..n-m+1 : SubSeq(s, m, n)[i] = s[m + i - 1]
<1>1. \A i \in m..n : s[i] \in Byte
  OBVIOUS
<1> QED BY <1>1, SubSeqProperties

LEMMA SamePart ==
  ASSUME NEW p \in Seq(Byte), NEW l \in Seq(Byte), NEW m \in Nat, m <= Len(p), m <= Len(l),
         \A i \in 1..m : p[i] = l[i]
  PROVE  SubSeq(p, 1, m) = SubSeq(l, 1, m)
<1> DEFINE u == SubSeq(p, 1, m)
           v == SubSeq(l, 1, m)
<1>1. /\ u \in Seq(Byte) /\ v \in Seq(Byte) /\ Len(u) = m /\ Len(v) = m
      /\ \A i \in 1..m : u[i] = p[i] /\ v[i] = l[i]
  BY Part
<1> HIDE DEF u, v
<1>2. \A i \in 1..Len(u) : u[i] = v[i]
  BY <1>1
<1>3. u = v
  BY <1>1, <1>2, SeqEqual
<1> QED BY <1>3 DEF u, v

\* what is read twice in parts is the same, part by part
LEMMA SplitAt ==
  ASSUME NEW p \in Seq(Byte), NEW z \in Seq(Byte), NEW l \in Seq(Byte), NEW t \in Seq(Byte),
         p \o z = l \o t
  PROVE  /\ \A i \in 1..Len(p) : i <= Len(l) => p[i] = l[i]
         /\ Len(l) <= Len(p) =>
              /\ SubSeq(p, 1, Len(l) - 1) = SubSeq(l, 1, Len(l) - 1)
              /\ SubSeq(p, Len(l) + 1, Len(p)) \in Seq(Byte)
              /\ SubSeq(p, Len(l) + 1, Len(p)) \o z = t
<1> DEFINE n == Len(l)
           k == Len(p)
           d == SubSeq(p, n + 1, k)
<1>0. n \in Nat /\ k \in Nat /\ Len(z) \in Nat /\ Len(t) \in Nat
  OBVIOUS
<1>1. k + Len(z) = n + Len(t)
  <2>1. Len(p \o z) = k + Len(z) /\ Len(l \o t) = n + Len(t)
    OBVIOUS
  <2> QED BY <2>1
<1>2. /\ \A i \in 1..k+Len(z) : (p \o z)[i] = IF i <= k THEN p[i] ELSE z[i - k]
      /\ \A i \in 1..n+Len(t) : (l \o t)[i] = IF i <= n THEN l[i] ELSE t[i - n]
  BY ConcatProperties
<1>3. \A i \in 1..k+Len(z) : (IF i <= k THEN p[i] ELSE z[i - k]) = (IF i <= n THEN l[i] ELSE t[i - n])
  BY <1>1, <1>2
<1>4. \A i \in 1..k : i <= n => p[i] = l[i]
  BY <1>0, <1>3
<1>5. ASSUME n <= k PROVE SubSeq(p, 1, n - 1) = SubSeq(l, 1, n - 1)
  <2>1. CASE n = 0
    <3>1. SubSeq(p, 1, n - 1) = <<>> /\ SubSeq(l, 1, n - 1) = <<>>
      BY <2>1, SubSeqEmpty
    <3> QED BY <3>1
  <2>2. CASE n # 0
    <3> DEFINE m == n - 1
    <3>1. m \in Nat /\ m <= Len(p) /\ m <= Len(l)
      BY <1>0, <1>5, <2>2
    <3>2. \A i \in 1..m : i \in 1..k /\ i <= n
      BY <1>0, <1>5, <2>2
    <3>3. \A i \in 1..m : p[i] = l[i]
      BY <1>4, <3>2
    <3> HIDE DEF m
    <3> QED BY <3>1, <3>3, SamePart DEF m
  <2> QED BY <2>1, <2>2
<1>6. ASSUME n <= k PROVE d \in Seq(Byte) /\ d \o z = t
  <2>1. /\ d \in Seq(Byte) /\ Len(d) = k - n
        /\ \A i \in 1..k-n : d[i] = p[n + i]
    <3> PICK a, b : a = n + 1 /\ b = k
      OBVIOUS
    <3>1. a \in Nat \ {0} /\ b \in Nat /\ b <= Len(p)
      BY <1>0, <1>6
    <3>2. d = SubSeq(p, a, b)
      OBVIOUS
    <3>3. b - a + 1 = k - n /\ (a <= b \/ k - n = 0) /\ k - n \in Nat
      BY <1>0, <1>6
    <3>4. /\ SubSeq(p, a, b) \in Seq(Byte)
          /\ Len(SubSeq(p, a, b)) = IF a <= b THEN b - a + 1 ELSE 0
          /\ \A i \in 1..b-a+1 : SubSeq(p, a, b)[i] = p[a + i - 1]
      BY ONLY <3>1, p \in Seq(Byte), Part, ZenonT(30)
    <3>5. \A i \in 1..k-n : a + i - 1 = n + i
      BY <1>0
    <3> HIDE DEF n, k, d
    <3> QED BY <3>2, <3>3, <3>4, <3>5
  <2> HIDE DEF d
  <2>2. /\ d \o z \in Seq(Byte) /\ Len(d \o z) = (k - n) + Len(z)
        /\ \A i \in 1..(k-n)+Len(z) : (d \o z)[i] = IF i <= k - n THEN d[i] ELSE z[i - (k - n)]
    <3>1. /\ d \o z \in Seq(Byte) /\ Len(d \o z) = Len(d) + Len(z)
          /\ \A i \in 1..Len(d)+Len(z) : (d \o z)[i] = IF i <= Len(d) THEN d[i] ELSE z[i - Len(d)]
      BY <2>1, ConcatProperties
    <3> QED BY <2>1, <3>1
  <2>3. Len(d \o z) = Len(t)
    BY <1>0, <1>1, <2>2
  <2>4. ASSUME NEW i \in 1..Len(t) PROVE (d \o z)[i] = t[i]
    <3> HIDE DEF n, k
    <3>1. i \in 1..(k-n)+Len(z) /\ n + i \in 1..k+Len(z) /\ ~(n + i <= n) /\ (n + i) - n = i
      BY <1>0, <1>1
    <3>2. (IF n + i <= k THEN p[n + i] ELSE z[(n + i) - k]) = t[i]
      BY <1>3, <3>1
    <3>3. CASE i <= k - n
      <4>1. n + i <= k /\ i \in 1..k-n
        BY <1>0, <3>3
      <4> QED BY <2>1, <2>2, <3>1, <3>2, <3>3, <4>1
    <3>4. CASE ~(i <= k - n)
      <4>1. ~(n + i <= k) /\ (n + i) - k = i - (k - n)
        BY <1>0, <3>4
      <4> QED BY <2>2, <3>1, <3>2, <3>4, <4>1
    <3> QED BY <3>3, <3>4
  <2> DEFINE w == d \o z
  <2>5. w \in Seq(Byte) /\ Len(w) = Len(t) /\ \A i \in 1..Len(t) : w[i] = t[i]
    BY <2>2, <2>3, <2>4
  <2> HIDE DEF w
  <2>6. w = t
    BY <2>5, SeqEqual
  <2> QED BY <2>1, <2>6 DEF w
<1> QED BY <1>4, <1>5, <1>6

LEMMA SplitRest ==
  ASSUME NEW p \in Seq(Byte), NEW z \in Seq(Byte), NEW l \in Seq(Byte), NEW t \in Seq(Byte),
         p \o z = l \o t, Len(l) <= Len(p)
  PROVE  /\ SubSeq(p, 1, Len(l) - 1) = SubSeq(l, 1, Len(l) - 1)
         /\ SubSeq(p, Len(l) + 1, Len(p)) \in Seq(Byte)
         /\ SubSeq(p, Len(l) + 1, Len(p)) \o z = t
BY SplitAt, Zenon

\* the first line of a buffer is the line it begins with
LEMMA FirstLine ==
  ASSUME NEW h, buffer[h] \in Seq(Byte), NEW z \in Seq(Byte), NEW l, Ended(l), NEW t \in Seq(Byte),
         buffer[h] \o z = l \o t, Newlines(h) # {}
  PROVE  /\ next_buffered_line(h) = SubSeq(l, 1, Len(l) - 1)
         /\ Drained(h) \in Seq(Byte) /\ Drained(h) \o z = t
<1> DEFINE p == buffer[h]
           n == Len(l)
           S == Newlines(h)
<1>1. p \in Seq(Byte) /\ l \in Seq(Byte) /\ n \in Nat \ {0} /\ Len(p) \in Nat
  BY DEF Ended
<1>2. \A i : i \in S <=> i \in 1..Len(p) /\ p[i] = NL
  BY <1>1 DEF Newlines
<1>3. l[n] = NL /\ \A i \in 1..n-1 : l[i] # NL
  BY DEF Ended
<1>4. \A i \in 1..Len(p) : i <= n => p[i] = l[i]
  BY <1>1, SplitAt
<1> HIDE DEF p, n, S
<1>5. n <= Len(p)
  <2>1. PICK m \in 1..Len(p) : p[m] = NL
    BY <1>2 DEF S
  <2>2. ~(n <= Len(p)) => m \in 1..n-1 /\ p[m] = l[m]
    BY <1>1, <1>4
  <2> QED BY <1>3, <2>1, <2>2
<1>6. n \in S
  <2>1. n \in 1..Len(p) /\ p[n] = l[n]
    BY <1>1, <1>4, <1>5
  <2> QED BY <1>2, <1>3, <2>1
<1>7. ASSUME NEW i \in S PROVE i \in Nat /\ n <= i
  <2>1. i \in 1..Len(p) /\ p[i] = NL
    BY <1>2
  <2>2. ~(n <= i) => i \in 1..n-1 /\ p[i] = l[i]
    BY <1>1, <1>4, <2>1
  <2> QED BY <1>3, <2>1, <2>2
<1>8. Min(S) = n
  <2>1. ASSUME NEW i \in S, \A j \in S : i <= j PROVE i = n
    BY <1>1, <1>6, <1>7, <2>1
  <2> QED BY <1>6, <1>7, <2>1 DEF Min
<1>9. next_buffered_line(h) = SubSeq(p, 1, n - 1) /\ Drained(h) = SubSeq(p, n + 1, Len(p))
  BY <1>8 DEF next_buffered_line, Drained, p, S
<1>10. /\ SubSeq(p, 1, n - 1) = SubSeq(l, 1, n - 1)
       /\ SubSeq(p, n + 1, Len(p)) \in Seq(Byte)
       /\ SubSeq(p, n + 1, Len(p)) \o z = t
  <2>1. PICK q : q = p
    OBVIOUS
  <2>2. q \in Seq(Byte) /\ l \in Seq(Byte) /\ q \o z = l \o t /\ Len(l) <= Len(q)
    BY <1>1, <1>5, <2>1 DEF n, p
  <2> HIDE DEF n, p
  <2>3. /\ SubSeq(q, 1, Len(l) - 1) = SubSeq(l, 1, Len(l) - 1)
        /\ SubSeq(q, Len(l) + 1, Len(q)) \in Seq(Byte)
        /\ SubSeq(q, Len(l) + 1, Len(q)) \o z = t
    BY ONLY <2>2, z \in Seq(Byte), t \in Seq(Byte), SplitRest, ZenonT(60)
  <2> QED BY <2>1, <2>3 DEF n
<1> QED BY <1>9, <1>10 DEF n

\* a buffer that begins with a whole line has its end
LEMMA HasNewline ==
  ASSUME NEW h, buffer[h] \in Seq(Byte), NEW l, Ended(l), NEW t \in Seq(Byte), buffer[h] = l \o t
  PROVE  Newlines(h) # {}
<1>1. Len(l) \in DOMAIN buffer[h] /\ buffer[h][Len(l)] = NL
  BY DEF Ended
<1> QED BY <1>1 DEF Newlines

\* and one that is part of a line without an end has none
LEMMA NoNewline ==
  ASSUME NEW h, buffer[h] \in Seq(Byte), NEW z \in Seq(Byte), NEW l \in Seq(Byte),
         buffer[h] \o z = l, \A i \in 1..Len(l) : l[i] # NL
  PROVE  Newlines(h) = {}
<1> SUFFICES ASSUME NEW i \in 1..Len(buffer[h]) PROVE buffer[h][i] # NL
  BY DEF Newlines
<1>1. (buffer[h] \o z)[i] = buffer[h][i] /\ i \in 1..Len(buffer[h] \o z)
  OBVIOUS
<1> QED BY <1>1


(* what the forms come to *)

LineText(form, i) ==
  IF form = "bare" THEN Bytes(form, i) ELSE SubSeq(Bytes(form, i), 1, Len(Bytes(form, i)) - 1)

LEMMA NotNewline ==
  ASSUME NEW i \in Nat, NEW b \in {1, 2}
  PROVE  /\ <<i, b>> # NL /\ <<i, b>> # CR /\ <<"x">> # NL /\ <<"x">> # CR /\ CR # NL
         /\ <<i, b>> \in Byte /\ NL \in Byte /\ CR \in Byte /\ <<"x">> \in Byte
BY DEF NL, CR, Byte

LEMMA BytesOfLines ==
  ASSUME NEW i \in Nat, NEW form \in {"lf", "crlf", "bare", "blank", "bad"}
  PROVE  /\ Bytes(form, i) \in Seq(Byte)
         /\ form # "bare" => Ended(Bytes(form, i))
         /\ form = "bare" => \A j \in 1..Len(Bytes(form, i)) : Bytes(form, i)[j] # NL
<1> DEFINE one == <<i, 1>>
           two == <<i, 2>>
           x == <<"x">>
<1>0. /\ one \in Byte /\ two \in Byte /\ NL \in Byte /\ CR \in Byte /\ x \in Byte
      /\ one # NL /\ two # NL /\ CR # NL /\ x # NL
  BY NotNewline
<1> PICK s : s = Bytes(form, i)
  OBVIOUS
<1>1. CASE form = "lf"
  <2>1. s = <<one, two, NL>>
    BY <1>1 DEF Bytes
  <2> HIDE DEF one, two, x
  <2>2. /\ s \in Seq(Byte) /\ Len(s) = 3 /\ s # <<>>
        /\ s[1] = one /\ s[2] = two /\ s[3] = NL
    BY <1>0, <2>1
  <2>3. 1..3 = {1, 2, 3} /\ 1..3-1 = {1, 2}
    OBVIOUS
  <2> HIDE DEF NL, CR
  <2> QED BY <1>0, <1>1, <2>2, <2>3 DEF Ended
<1>2. CASE form = "crlf"
  <2>1. s = <<one, two, CR, NL>>
    BY <1>2 DEF Bytes
  <2> HIDE DEF one, two, x
  <2>2. /\ s \in Seq(Byte) /\ Len(s) = 4 /\ s # <<>>
        /\ s[1] = one /\ s[2] = two /\ s[3] = CR /\ s[4] = NL
    BY <1>0, <2>1
  <2>3. 1..4 = {1, 2, 3, 4} /\ 1..4-1 = {1, 2, 3}
    OBVIOUS
  <2> HIDE DEF NL, CR
  <2> QED BY <1>0, <1>2, <2>2, <2>3 DEF Ended
<1>3. CASE form = "bare"
  <2>1. s = <<one, two>>
    BY <1>3 DEF Bytes
  <2> HIDE DEF one, two, x
  <2>2. /\ s \in Seq(Byte) /\ Len(s) = 2 /\ s # <<>>
        /\ s[1] = one /\ s[2] = two
    BY <1>0, <2>1
  <2>3. 1..2 = {1, 2} /\ 1..2-1 = {1}
    OBVIOUS
  <2> HIDE DEF NL, CR
  <2> QED BY <1>0, <1>3, <2>2, <2>3 DEF Ended
<1>4. CASE form = "blank"
  <2>1. s = <<NL>>
    BY <1>4 DEF Bytes
  <2> HIDE DEF one, two, x
  <2>2. /\ s \in Seq(Byte) /\ Len(s) = 1 /\ s # <<>>
        /\ s[1] = NL
    BY <1>0, <2>1
  <2>3. 1..1 = {1} /\ 1..1-1 = {}
    OBVIOUS
  <2> HIDE DEF NL, CR
  <2> QED BY <1>0, <1>4, <2>2, <2>3 DEF Ended
<1>5. CASE form = "bad"
  <2>1. s = <<x, NL>>
    BY <1>5 DEF Bytes
  <2> HIDE DEF one, two, x
  <2>2. /\ s \in Seq(Byte) /\ Len(s) = 2 /\ s # <<>>
        /\ s[1] = x /\ s[2] = NL
    BY <1>0, <2>1
  <2>3. 1..2 = {1, 2} /\ 1..2-1 = {1}
    OBVIOUS
  <2> HIDE DEF NL, CR
  <2> QED BY <1>0, <1>5, <2>2, <2>3 DEF Ended
<1> QED BY <1>1, <1>2, <1>3, <1>4, <1>5

----------------------------------------------------------------------------
(* EventPipe: what parse_event_line makes of a line.                       *)

\* a line without its last byte
LEMMA FrontOf ==
  ASSUME NEW s \in Seq(Byte), NEW e \in Byte
  PROVE  SubSeq(Append(s, e), 1, Len(Append(s, e)) - 1) = s
<1> DEFINE u == Append(s, e)
<1>1. u \in Seq(Byte) /\ Len(u) = Len(s) + 1 /\ (\A i \in 1..Len(s) : u[i] = s[i]) /\ Len(s) \in Nat
  BY AppendProperties
<1> HIDE DEF u
<1>2. SubSeq(u, 1, Len(s)) = SubSeq(s, 1, Len(s))
  BY <1>1, SamePart
<1>3. SubSeq(s, 1, Len(s)) = s
  BY SubSeqFull
<1>4. Len(u) - 1 = Len(s)
  BY <1>1
<1> QED BY <1>2, <1>3, <1>4 DEF u

LEMMA FrontOf2 ==
  ASSUME NEW a \in Byte, NEW b \in Byte
  PROVE  SubSeq(<<a, b>>, 1, Len(<<a, b>>) - 1) = <<a>>
<1>1. <<a, b>> = Append(<<a>>, b) /\ <<a>> \in Seq(Byte)
  OBVIOUS
<1>2. SubSeq(Append(<<a>>, b), 1, Len(Append(<<a>>, b)) - 1) = <<a>>
  BY <1>1, FrontOf
<1> QED BY <1>1, <1>2

LEMMA FrontOf3 ==
  ASSUME NEW a \in Byte, NEW b \in Byte, NEW c \in Byte
  PROVE  SubSeq(<<a, b, c>>, 1, Len(<<a, b, c>>) - 1) = <<a, b>>
<1>1. <<a, b, c>> = Append(<<a, b>>, c) /\ <<a, b>> \in Seq(Byte)
  OBVIOUS
<1>2. SubSeq(Append(<<a, b>>, c), 1, Len(Append(<<a, b>>, c)) - 1) = <<a, b>>
  BY <1>1, FrontOf
<1> QED BY <1>1, <1>2

LEMMA FrontOf4 ==
  ASSUME NEW a \in Byte, NEW b \in Byte, NEW c \in Byte, NEW d \in Byte
  PROVE  SubSeq(<<a, b, c, d>>, 1, Len(<<a, b, c, d>>) - 1) = <<a, b, c>>
<1>1. <<a, b, c, d>> = Append(<<a, b, c>>, d) /\ <<a, b, c>> \in Seq(Byte)
  OBVIOUS
<1>2. SubSeq(Append(<<a, b, c>>, d), 1, Len(Append(<<a, b, c>>, d)) - 1) = <<a, b, c>>
  BY <1>1, FrontOf
<1> QED BY <1>1, <1>2

LEMMA TextOfLines ==
  ASSUME NEW i \in Nat, NEW form \in {"lf", "crlf", "bare", "blank", "bad"}
  PROVE  LineText(form, i) = CASE form \in {"lf", "bare"} -> <<<<i, 1>>, <<i, 2>>>>
                               [] form = "crlf" -> <<<<i, 1>>, <<i, 2>>, CR>>
                               [] form = "blank" -> <<>>
                               [] form = "bad" -> <<<<"x">>>>
<1> DEFINE one == <<i, 1>>
           two == <<i, 2>>
           x == <<"x">>
<1>0. one \in Byte /\ two \in Byte /\ x \in Byte /\ NL \in Byte /\ CR \in Byte
  BY NotNewline
<1>1. CASE form = "lf"
  <2>1. LineText(form, i) = SubSeq(<<one, two, NL>>, 1, Len(<<one, two, NL>>) - 1)
    BY <1>1 DEF LineText, Bytes
  <2> HIDE DEF one, two
  <2>2. SubSeq(<<one, two, NL>>, 1, Len(<<one, two, NL>>) - 1) = <<one, two>>
    BY <1>0, FrontOf2, FrontOf3, FrontOf4
  <2> QED BY <1>1, <2>1, <2>2 DEF one, two
<1>2. CASE form = "crlf"
  <2>1. LineText(form, i) = SubSeq(<<one, two, CR, NL>>, 1, Len(<<one, two, CR, NL>>) - 1)
    BY <1>2 DEF LineText, Bytes
  <2> HIDE DEF one, two
  <2>2. SubSeq(<<one, two, CR, NL>>, 1, Len(<<one, two, CR, NL>>) - 1) = <<one, two, CR>>
    BY <1>0, FrontOf2, FrontOf3, FrontOf4
  <2> QED BY <1>2, <2>1, <2>2 DEF one, two
<1>3. CASE form = "bare"
  BY <1>3 DEF LineText, Bytes
<1>4. CASE form = "blank"
  <2>1. LineText(form, i) = SubSeq(<<NL>>, 1, Len(<<NL>>) - 1)
    BY <1>4 DEF LineText, Bytes
  <2>2. SubSeq(<<NL>>, 1, Len(<<NL>>) - 1) = <<>>
    OBVIOUS
  <2> QED BY <1>4, <2>1, <2>2
<1>5. CASE form = "bad"
  <2>1. LineText(form, i) = SubSeq(<<x, NL>>, 1, Len(<<x, NL>>) - 1)
    BY <1>5 DEF LineText, Bytes
  <2> HIDE DEF x
  <2>2. SubSeq(<<x, NL>>, 1, Len(<<x, NL>>) - 1) = <<x>>
    BY <1>0, FrontOf2, FrontOf3, FrontOf4
  <2> QED BY <1>5, <2>1, <2>2 DEF x
<1> QED BY <1>1, <1>2, <1>3, <1>4, <1>5

LEMMA NothingParsed == parse_event_line(<<>>) = "nothing"
BY DEF parse_event_line

LEMMA Parsed ==
  ASSUME NEW i \in Nat, i \in DOMAIN written, NEW form \in {"lf", "crlf", "bare", "blank", "bad"}
  PROVE  /\ form \in {"lf", "crlf", "bare"} =>
              parse_event_line(LineText(form, i)) = "event" /\ LineText(form, i)[1][1] = i
         /\ form = "blank" => parse_event_line(LineText(form, i)) = "nothing"
         /\ form = "bad" => parse_event_line(LineText(form, i)) = "error"
<1> DEFINE one == <<i, 1>>
           two == <<i, 2>>
           x == <<"x">>
           t == LineText(form, i)
<1>0. /\ one # CR /\ two # CR /\ x # CR /\ one[1] = i
      /\ one \in Byte /\ two \in Byte /\ CR \in Byte
  BY NotNewline
<1>1. CASE form \in {"lf", "bare"}
  <2>1. t = <<one, two>>
    BY <1>1, TextOfLines
  <2>2. t # <<>> /\ t[Len(t)] = two /\ t[1] = one
    <3> HIDE DEF one, two, t
    <3> QED BY <2>1
  <2>3. parse_event_line(t) = "event"
    <3> HIDE DEF t
    <3>1. \E j \in DOMAIN written : t = <<<<j, 1>>, <<j, 2>>>>
      BY <2>1
    <3> QED BY <1>0, <2>2, <3>1 DEF parse_event_line
  <2> QED BY <1>0, <1>1, <2>2, <2>3
<1>2. CASE form = "crlf"
  <2>1. t = <<one, two, CR>>
    BY <1>2, TextOfLines
  <2>2. t # <<>> /\ t[Len(t)] = CR /\ t[1] = one /\ SubSeq(t, 1, Len(t) - 1) = <<one, two>> /\ <<one, two>> # <<>>
    <3>1. SubSeq(<<one, two, CR>>, 1, Len(<<one, two, CR>>) - 1) = <<one, two>>
      BY <1>0, FrontOf3
    <3> HIDE DEF one, two, t, CR
    <3>2. t # <<>> /\ t[Len(t)] = CR /\ t[1] = one /\ <<one, two>> # <<>>
      BY <2>1
    <3> QED BY <2>1, <3>1, <3>2
  <2>3. parse_event_line(t) = "event"
    <3> DEFINE u == SubSeq(t, 1, Len(t) - 1)
    <3>1. \E j \in DOMAIN written : u = <<<<j, 1>>, <<j, 2>>>>
      BY <2>2
    <3>2. u # <<>>
      BY <2>2
    <3>3. t # <<>> /\ t[Len(t)] = CR
      BY <2>2
    <3> HIDE DEF t
    <3>4. parse_event_line(t) = IF u = <<>> THEN "nothing"
            ELSE IF \E j \in DOMAIN written : u = <<<<j, 1>>, <<j, 2>>>> THEN "event" ELSE "error"
      BY <3>3 DEF parse_event_line
    <3> HIDE DEF u
    <3> QED BY <3>1, <3>2, <3>4
  <2> QED BY <1>0, <1>2, <2>2, <2>3
<1>3. CASE form = "blank"
  BY <1>3, TextOfLines, NothingParsed
<1>4. CASE form = "bad"
  <2>1. t = <<x>>
    BY <1>4, TextOfLines
  <2>2. t # <<>> /\ t[Len(t)] = x /\ Len(t) = 1
    <3> HIDE DEF x, t
    <3> QED BY <2>1
  <2>3. \A j : t # <<<<j, 1>>, <<j, 2>>>>
    <3> SUFFICES ASSUME NEW j, t = <<<<j, 1>>, <<j, 2>>>> PROVE FALSE
      OBVIOUS
    <3>1. Len(<<<<j, 1>>, <<j, 2>>>>) = 2
      OBVIOUS
    <3> HIDE DEF t
    <3> QED BY <2>2, <3>1
  <2>4. parse_event_line(t) = "error"
    <3> HIDE DEF t, x
    <3> QED BY <1>0, <2>2, <2>3 DEF parse_event_line
  <2> QED BY <1>4, <2>4
<1> QED BY <1>1, <1>2, <1>3, <1>4

----------------------------------------------------------------------------
(* EventPipe: the inductive invariant.                                     *)

Hops == {"kernel", "host"}

LineTypes == [form : Forms, event : kind.events]

PipeTypes ==
  /\ written \in Seq(LineTypes)
  /\ wire \in [Hops -> Seq(Byte)] /\ buffer \in [Hops -> Seq(Byte)]
  /\ end \in [Hops -> {"open", "closed", "broken"}]
  /\ got \in Seq(Nat) /\ outcome \in {"reading", "done", "failed"}

KernelLines == [i \in 1..Len(written) |-> Bytes(written[i].form, i)]
HostLines(r) == [j \in 1..Len(r) |-> Bytes("lf", r[j])]

\* the bytes on hop h are the lines after the a-th, short of what a break took away
Carries(L, a, h) ==
  \E z \in Seq(Byte) : /\ Lays(L, a, (buffer[h] \o wire[h]) \o z)
                       /\ end[h] # "broken" => z = <<>>

\* r numbers the first k lines without the blank ones, and none of them is bad
Relayed(k, r) ==
  /\ k \in 0..Len(written) /\ \A i \in 1..k : written[i].form # "bad"
  /\ r \in Seq(Nat) /\ \A i, j \in 1..Len(r) : i < j => r[i] < r[j]
  /\ {r[i] : i \in 1..Len(r)} = {i \in 1..k : written[i].form # "blank"}

\* where the bodies are: agent_host has relayed k lines, r those it yielded
PipeAt(k, r) ==
  /\ Relayed(k, r)
  /\ end["host"] = "open" => Carries(KernelLines, k, "kernel")
  /\ end["host"] = "closed" => k = Len(written) /\ end["kernel"] = "closed"
  /\ Carries(HostLines(r), Len(got), "host")
  /\ \A i \in 1..Len(got) : got[i] = r[i]
  /\ outcome = "done" => end["host"] = "closed" /\ Len(got) = Len(r)

BareLast ==
  \A i \in 1..Len(written) :
    written[i].form = "bare" => i = Len(written) /\ end["kernel"] = "closed"

PipeInv == PipeTypes /\ BareLast /\ \E k, r : PipeAt(k, r)


LEMMA LinesTypes ==
  ASSUME PipeTypes
  PROVE  /\ KernelLines \in Seq(Seq(Byte)) /\ Len(KernelLines) = Len(written) /\ Len(written) \in Nat
         /\ \A i \in 1..Len(written) :
              /\ written[i].form \in {"lf", "crlf", "bare", "blank", "bad"} /\ i \in Nat /\ i \in DOMAIN written
              /\ KernelLines[i] = Bytes(written[i].form, i)
         /\ \A r \in Seq(Nat) : /\ HostLines(r) \in Seq(Seq(Byte)) /\ Len(HostLines(r)) = Len(r)
                                /\ \A j \in 1..Len(r) : r[j] \in Nat /\ HostLines(r)[j] = Bytes("lf", r[j])
<1>1. Len(written) \in Nat /\ DOMAIN written = 1..Len(written)
  BY DEF PipeTypes
<1>2. ASSUME NEW i \in 1..Len(written)
      PROVE  written[i].form \in {"lf", "crlf", "bare", "blank", "bad"} /\ i \in Nat /\ i \in DOMAIN written
  <2>1. written[i] \in LineTypes
    BY DEF PipeTypes
  <2>2. written[i].form \in Forms
    BY <2>1 DEF LineTypes
  <2>3. written[i].form \in {"lf", "crlf", "bare", "blank", "bad"}
    BY <2>2, FormsAssumption, Zenon
  <2> QED BY <1>1, <2>3
<1>3. ASSUME NEW i \in 1..Len(written) PROVE Bytes(written[i].form, i) \in Seq(Byte)
  BY <1>2, BytesOfLines
<1>4. KernelLines \in Seq(Seq(Byte)) /\ Len(KernelLines) = Len(written)
  BY <1>1, <1>3 DEF KernelLines
<1>5. ASSUME NEW r \in Seq(Nat)
      PROVE  /\ HostLines(r) \in Seq(Seq(Byte)) /\ Len(HostLines(r)) = Len(r)
             /\ \A j \in 1..Len(r) : r[j] \in Nat /\ HostLines(r)[j] = Bytes("lf", r[j])
  <2>1. Len(r) \in Nat /\ \A j \in 1..Len(r) : r[j] \in Nat
    OBVIOUS
  <2>2. ASSUME NEW j \in 1..Len(r) PROVE Bytes("lf", r[j]) \in Seq(Byte)
    BY <2>1, BytesOfLines
  <2> QED BY <2>1, <2>2 DEF HostLines
<1> QED BY <1>1, <1>2, <1>4, <1>5 DEF KernelLines

LEMMA LineBodies ==
  ASSUME PipeTypes, NEW i \in 1..Len(written)
  PROVE  /\ KernelLines[i] \in Seq(Byte)
         /\ written[i].form # "bare" => /\ Ended(KernelLines[i])
                                        /\ SubSeq(KernelLines[i], 1, Len(KernelLines[i]) - 1) = LineText(written[i].form, i)
         /\ written[i].form = "bare" => /\ \A j \in 1..Len(KernelLines[i]) : KernelLines[i][j] # NL
                                        /\ KernelLines[i] = LineText(written[i].form, i)
<1>1. KernelLines[i] = Bytes(written[i].form, i) /\ i \in Nat /\ written[i].form \in {"lf", "crlf", "bare", "blank", "bad"}
  BY LinesTypes
<1> QED BY <1>1, BytesOfLines DEF LineText

\* the first line that the buffer of hop h has
LEMMA LineArrives ==
  ASSUME PipeTypes, NEW h \in Hops, NEW L \in Seq(Seq(Byte)), NEW a, NEW z \in Seq(Byte),
         Lays(L, a, (buffer[h] \o wire[h]) \o z), Newlines(h) # {}
  PROVE  /\ a \in Nat /\ a + 1 \in 1..Len(L)
         /\ Ended(L[a + 1]) =>
              /\ next_buffered_line(h) = SubSeq(L[a + 1], 1, Len(L[a + 1]) - 1)
              /\ Drained(h) \in Seq(Byte)
              /\ Lays(L, a + 1, (Drained(h) \o wire[h]) \o z)
         /\ ~ (a + 1 = Len(L) /\ \A j \in 1..Len(L[a + 1]) : L[a + 1][j] # NL)
<1> PICK p, w : p = buffer[h] /\ w = wire[h]
  OBVIOUS
<1>0. p \in Seq(Byte) /\ w \in Seq(Byte) /\ Lays(L, a, (p \o w) \o z)
  BY DEF PipeTypes
<1>1. (p \o w) \o z = p \o (w \o z) /\ w \o z \in Seq(Byte)
  <2>1. w \o z \in Seq(Byte)
    BY <1>0
  <2>2. p \in Seq(Byte) /\ w \in Seq(Byte) /\ z \in Seq(Byte)
    BY <1>0
  <2>3. (p \o w) \o z = p \o (w \o z)
    BY ONLY <2>2, Assoc
  <2> QED BY <2>1, <2>3
<1>2. a \in 0..Len(L) /\ Len(L) \in Nat
  BY <1>0, LaysTypes
<1>3. p # <<>>
  BY <1>0 DEF Newlines
<1>4. a # Len(L)
  <2> SUFFICES ASSUME a = Len(L) PROVE FALSE
    OBVIOUS
  <2>1. p \o (w \o z) = <<>>
    BY <1>0, <1>1, LaysNothing
  <2> QED BY <1>0, <1>1, <1>3, <2>1, ConcatEqualIffEmpty
<1>5. a + 1 \in 1..Len(L) /\ L[a + 1] \in Seq(Byte)
  BY <1>2, <1>4
<1>6. PICK t \in Seq(Byte) : p \o (w \o z) = L[a + 1] \o t /\ Lays(L, a + 1, t)
  BY <1>0, <1>1, <1>4, LaysFirst
<1>7. ASSUME Ended(L[a + 1])
      PROVE  /\ next_buffered_line(h) = SubSeq(L[a + 1], 1, Len(L[a + 1]) - 1)
             /\ Drained(h) \in Seq(Byte)
             /\ Lays(L, a + 1, (Drained(h) \o w) \o z)
  <2>1. /\ next_buffered_line(h) = SubSeq(L[a + 1], 1, Len(L[a + 1]) - 1)
        /\ Drained(h) \in Seq(Byte) /\ Drained(h) \o (w \o z) = t
    <3>1. PICK y, l : y = w \o z /\ l = L[a + 1]
      OBVIOUS
    <3>2. /\ buffer[h] \in Seq(Byte) /\ y \in Seq(Byte) /\ Ended(l)
          /\ buffer[h] \o y = l \o t /\ Newlines(h) # {}
      BY <1>0, <1>1, <1>6, <1>7, <3>1
    <3>3. /\ next_buffered_line(h) = SubSeq(l, 1, Len(l) - 1)
          /\ Drained(h) \in Seq(Byte) /\ Drained(h) \o y = t
      BY ONLY <3>2, t \in Seq(Byte), FirstLine
    <3> QED BY <3>1, <3>3
  <2>2. (Drained(h) \o w) \o z = Drained(h) \o (w \o z)
    BY <1>0, <2>1, Assoc, Zenon
  <2> QED BY <1>6, <2>1, <2>2
<1>8. ASSUME a + 1 = Len(L), \A j \in 1..Len(L[a + 1]) : L[a + 1][j] # NL PROVE FALSE
  <2>1. t = <<>>
    BY <1>6, <1>8, LaysNothing
  <2>2. p \o (w \o z) = L[a + 1]
    BY <1>5, <1>6, <2>1, ConcatEmptySeq
  <2> QED BY <1>0, <1>1, <1>5, <1>8, <2>2, NoNewline
<1> QED BY <1>2, <1>5, <1>7, <1>8

\* what the end of an unbroken body leaves in the buffer of hop h
LEMMA LineRemains ==
  ASSUME PipeTypes, NEW h \in Hops, NEW L \in Seq(Seq(Byte)), NEW a, Carries(L, a, h), Remains(h)
  PROVE  \/ a = Len(L) /\ buffer[h] = <<>>
         \/ /\ a \in Nat /\ a + 1 \in 1..Len(L) /\ ~Ended(L[a + 1])
            /\ a + 1 = Len(L) => buffer[h] = L[a + 1]
<1>1. PICK p : p = buffer[h]
  OBVIOUS
<1>2. p \in Seq(Byte) /\ wire[h] = <<>> /\ Newlines(h) = {} /\ end[h] = "closed"
  BY <1>1 DEF PipeTypes, Remains
<1>3. Lays(L, a, p)
  <2>1. Lays(L, a, (p \o <<>>) \o <<>>)
    BY <1>1, <1>2 DEF Carries
  <2>2. (p \o <<>>) \o <<>> = p
    BY <1>2, ConcatEmptySeq
  <2> QED BY <2>1, <2>2
<1>4. a \in 0..Len(L) /\ Len(L) \in Nat
  BY <1>3, LaysTypes
<1>5. CASE a = Len(L)
  BY <1>1, <1>3, <1>5, LaysNothing
<1>6. CASE a # Len(L)
  <2>1. a + 1 \in 1..Len(L) /\ L[a + 1] \in Seq(Byte)
    BY <1>4, <1>6
  <2>2. PICK t \in Seq(Byte) : p = L[a + 1] \o t /\ Lays(L, a + 1, t)
    BY <1>3, <1>6, LaysFirst
  <2>3. ~Ended(L[a + 1])
    BY <1>1, <1>2, <2>2, HasNewline
  <2>4. a + 1 = Len(L) => p = L[a + 1]
    BY <2>1, <2>2, LaysNothing, ConcatEmptySeq
  <2> QED BY <1>1, <1>4, <2>1, <2>3, <2>4
<1> QED BY <1>5, <1>6

----------------------------------------------------------------------------
(* EventPipe: chunks, new lines and cuts keep what a hop carries.          *)

LEMMA CarriesFrame ==
  ASSUME NEW h \in Hops, NEW L, NEW a, Carries(L, a, h),
         buffer'[h] = buffer[h], wire'[h] = wire[h], end'[h] = "broken" \/ end'[h] = end[h]
  PROVE  Carries(L, a, h)'
<1>1. PICK z \in Seq(Byte) : /\ Lays(L, a, (buffer[h] \o wire[h]) \o z)
                             /\ end[h] # "broken" => z = <<>>
  BY DEF Carries
<1>2. (buffer'[h] \o wire'[h]) \o z = (buffer[h] \o wire[h]) \o z
  OBVIOUS
<1>3. end'[h] # "broken" => z = <<>>
  BY <1>1
<1> QED BY <1>1, <1>2, <1>3 DEF Carries

\* a line enters hop h
LEMMA LineEnters ==
  ASSUME PipeTypes, NEW h \in Hops, NEW L \in Seq(Seq(Byte)), NEW a, NEW l \in Seq(Byte),
         Carries(L, a, h), end[h] # "broken", buffer'[h] = buffer[h], wire'[h] = wire[h] \o l
  PROVE  Carries(Append(L, l), a, h)'
<1> PICK p, w : p = buffer[h] /\ w = wire[h]
  OBVIOUS
<1>0. p \in Seq(Byte) /\ w \in Seq(Byte) /\ p \o w \in Seq(Byte)
  BY DEF PipeTypes
<1>1. Lays(L, a, (p \o w) \o <<>>)
  BY DEF Carries
<1>2. (p \o w) \o <<>> = p \o w
  BY <1>0, ConcatEmptySeq
<1>3. Lays(Append(L, l), a, (p \o w) \o l)
  BY <1>0, <1>1, <1>2, LaysMore
<1>4. (p \o w) \o l = p \o (w \o l) /\ p \o (w \o l) \in Seq(Byte)
  <2>1. (p \o w) \o l = p \o (w \o l)
    BY ONLY <1>0, l \in Seq(Byte), Assoc
  <2>2. (p \o w) \o l \in Seq(Byte)
    BY <1>0
  <2> QED BY <2>1, <2>2
<1>5. (p \o (w \o l)) \o <<>> = p \o (w \o l)
  BY <1>4, ConcatEmptySeq
<1>6. Lays(Append(L, l), a, (buffer'[h] \o wire'[h]) \o <<>>)
  BY <1>3, <1>4, <1>5
<1>7. <<>> \in Seq(Byte)
  OBVIOUS
<1> QED BY <1>6, <1>7 DEF Carries

LEMMA WireParts ==
  ASSUME NEW w \in Seq(Byte), NEW n \in 0..Len(w)
  PROVE  /\ SubSeq(w, 1, n) \in Seq(Byte) /\ SubSeq(w, n + 1, Len(w)) \in Seq(Byte)
         /\ SubSeq(w, 1, n) \o SubSeq(w, n + 1, Len(w)) = w
<1>1. n \in Nat /\ n <= Len(w) /\ Len(w) \in Nat /\ n + 1 \in Nat \ {0} /\ 1 \in 1..Len(w)+1 /\ n \in 1-1..Len(w)
      /\ Len(w) \in n..Len(w)
  OBVIOUS
<1>2. SubSeq(w, 1, n) \in Seq(Byte)
  BY <1>1, Part
<1>3. SubSeq(w, n + 1, Len(w)) \in Seq(Byte)
  BY <1>1, Part
<1>4. SubSeq(w, 1, n) \o SubSeq(w, n + 1, Len(w)) = SubSeq(w, 1, Len(w))
  BY <1>1, ConcatAdjacentSubSeq
<1> QED BY <1>2, <1>3, <1>4, SubSeqFull

LEMMA ChunkTypes ==
  ASSUME PipeTypes, NEW h \in Hops, Chunk(h)
  PROVE  \E n \in 0..Len(wire[h]) :
           /\ buffer' = [buffer EXCEPT ![h] = buffer[h] \o SubSeq(wire[h], 1, n)]
           /\ wire' = [wire EXCEPT ![h] = SubSeq(wire[h], n + 1, Len(wire[h]))]
<1>1. PICK n \in Pieces(h) :
        /\ buffer' = [buffer EXCEPT ![h] = buffer[h] \o SubSeq(wire[h], 1, n)]
        /\ wire' = [wire EXCEPT ![h] = SubSeq(wire[h], n + 1, Len(wire[h]))]
  BY DEF Chunk
<1>2. Len(wire[h]) \in Nat
  BY DEF PipeTypes
<1>3. n \in 0..Len(wire[h])
  BY <1>2 DEF Pieces
<1> QED BY <1>1, <1>3

LEMMA ChunkArrives ==
  ASSUME PipeTypes, NEW h \in Hops, Chunk(h)
  PROVE  /\ PipeTypes'
         /\ \A L, a : \A g \in Hops : Carries(L, a, g) => Carries(L, a, g)'
<1>1. PICK n \in 0..Len(wire[h]) :
           /\ buffer' = [buffer EXCEPT ![h] = buffer[h] \o SubSeq(wire[h], 1, n)]
           /\ wire' = [wire EXCEPT ![h] = SubSeq(wire[h], n + 1, Len(wire[h]))]
  BY ChunkTypes
<1> PICK p, w, u, v : p = buffer[h] /\ w = wire[h] /\ u = SubSeq(wire[h], 1, n)
                      /\ v = SubSeq(wire[h], n + 1, Len(wire[h]))
  OBVIOUS
<1>2. p \in Seq(Byte) /\ w \in Seq(Byte)
  BY DEF PipeTypes
<1>3. u \in Seq(Byte) /\ v \in Seq(Byte) /\ u \o v = w
  BY <1>2, WireParts
<1>4. /\ buffer' = [buffer EXCEPT ![h] = p \o u] /\ wire' = [wire EXCEPT ![h] = v]
      /\ p \o u \in Seq(Byte)
  BY <1>1, <1>2, <1>3
<1>5. UNCHANGED <<kind, written, end, got, outcome>>
  BY DEF Chunk
<1>6. PipeTypes'
  BY <1>3, <1>4, <1>5 DEF PipeTypes, LineTypes
<1>7. buffer'[h] = p \o u /\ wire'[h] = v
      /\ \A g \in Hops : g # h => buffer'[g] = buffer[g] /\ wire'[g] = wire[g]
  BY <1>4 DEF PipeTypes
<1>8. (p \o u) \o v = p \o w
  <2>1. (p \o u) \o v = p \o (u \o v)
    BY ONLY <1>2, <1>3, Assoc
  <2> QED BY <1>3, <2>1
<1>9. ASSUME NEW L, NEW a, NEW g \in Hops, Carries(L, a, g) PROVE Carries(L, a, g)'
  <2>1. buffer'[g] \o wire'[g] = buffer[g] \o wire[g]
    BY <1>7, <1>8
  <2> QED BY <1>5, <1>9, <2>1 DEF Carries
<1> QED BY <1>6, <1>9

LEMMA CutShort ==
  ASSUME PipeTypes, NEW h \in Hops, Cut(h)
  PROVE  /\ PipeTypes'
         /\ \A L, a : \A g \in Hops : Carries(L, a, g) => Carries(L, a, g)'
<1>1. PICK n \in 0..Len(wire[h]) : wire' = [wire EXCEPT ![h] = SubSeq(wire[h], 1, n)]
  BY DEF Cut
<1> PICK p, w, u, v : p = buffer[h] /\ w = wire[h] /\ u = SubSeq(wire[h], 1, n)
                      /\ v = SubSeq(wire[h], n + 1, Len(wire[h]))
  OBVIOUS
<1>2. p \in Seq(Byte) /\ w \in Seq(Byte)
  BY DEF PipeTypes
<1>3. u \in Seq(Byte) /\ v \in Seq(Byte) /\ u \o v = w
  BY <1>2, WireParts
<1>4. /\ wire' = [wire EXCEPT ![h] = u] /\ end' = [end EXCEPT ![h] = "broken"]
      /\ UNCHANGED <<kind, written, buffer, got, outcome>>
  BY <1>1 DEF Cut
<1>5. PipeTypes'
  BY <1>3, <1>4 DEF PipeTypes, LineTypes
<1>6. wire'[h] = u /\ end'[h] = "broken" /\ buffer' = buffer
      /\ \A g \in Hops : g # h => wire'[g] = wire[g] /\ end'[g] = end[g]
  BY <1>4 DEF PipeTypes
<1>7. ASSUME NEW L, NEW a, Carries(L, a, h) PROVE Carries(L, a, h)'
  <2>1. PICK z \in Seq(Byte) : Lays(L, a, (p \o w) \o z)
    BY <1>7 DEF Carries
  <2>2. v \o z \in Seq(Byte) /\ p \o u \in Seq(Byte)
    BY <1>2, <1>3
  <2>3. (p \o u) \o (v \o z) = (p \o w) \o z
    <3>1. (p \o u) \o (v \o z) = ((p \o u) \o v) \o z
      BY ONLY <1>3, <2>2, z \in Seq(Byte), Assoc
    <3>2. (p \o u) \o v = p \o (u \o v)
      BY ONLY <1>2, <1>3, Assoc
    <3> QED BY <1>3, <3>1, <3>2
  <2> QED BY <1>6, <2>1, <2>2, <2>3 DEF Carries
<1>8. ASSUME NEW L, NEW a, NEW g \in Hops, g # h, Carries(L, a, g) PROVE Carries(L, a, g)'
  BY <1>6, <1>8, CarriesFrame
<1> QED BY <1>5, <1>7, <1>8

----------------------------------------------------------------------------
(* EventPipe: the kernel host writes a line.                               *)

LEMMA RelayedNext ==
  ASSUME PipeTypes, NEW k, NEW r, Relayed(k, r), k + 1 \in 1..Len(written),
         written[k + 1].form # "bad"
  PROVE  IF written[k + 1].form = "blank" THEN Relayed(k + 1, r)
         ELSE Relayed(k + 1, Append(r, k + 1)) /\ HostLines(Append(r, k + 1)) = Append(HostLines(r), Bytes("lf", k + 1))
<1>1. /\ k \in Nat /\ k + 1 \in 0..Len(written) /\ Len(r) \in Nat /\ r \in Seq(Nat)
      /\ \A i \in 1..k+1 : i \in 1..k \/ i = k + 1
      /\ \A i \in 1..k : i \in 1..k+1 /\ i # k + 1 /\ i < k + 1
  BY DEF Relayed
<1>2. \A i \in 1..k+1 : written[i].form # "bad"
  BY <1>1 DEF Relayed
<1>3. CASE written[k + 1].form = "blank"
  <2>1. {i \in 1..k+1 : written[i].form # "blank"} = {i \in 1..k : written[i].form # "blank"}
    BY <1>1, <1>3
  <2>2. {r[i] : i \in 1..Len(r)} = {i \in 1..k+1 : written[i].form # "blank"}
    BY <2>1 DEF Relayed
  <2>3. \A i, j \in 1..Len(r) : i < j => r[i] < r[j]
    BY DEF Relayed
  <2> QED BY <1>1, <1>2, <1>3, <2>2, <2>3 DEF Relayed
<1>4. CASE written[k + 1].form # "blank"
  <2> DEFINE q == Append(r, k + 1)
             n == Len(r)
  <2>1. /\ q \in Seq(Nat) /\ Len(q) = n + 1 /\ q[n + 1] = k + 1 /\ n \in Nat
        /\ \A i \in 1..n : q[i] = r[i]
    BY <1>1, AppendProperties
  <2>0. \A i \in 1..n+1 : i \in 1..n \/ i = n + 1
    BY <2>1
  <2>2. \A i \in 1..n : r[i] \in {j \in 1..k : written[j].form # "blank"}
    BY DEF Relayed
  <2>9. {r[i] : i \in 1..n} = {i \in 1..k : written[i].form # "blank"}
    BY DEF Relayed
  <2>8. \A i, j \in 1..n : i < j => r[i] < r[j]
    BY DEF Relayed
  <2> HIDE DEF q, n
  <2>3. ASSUME NEW i \in 1..n+1, NEW j \in 1..n+1, i < j PROVE q[i] < q[j]
    <3>1. i \in 1..n
      BY <2>1, <2>3
    <3>2. CASE j \in 1..n
      BY <2>1, <2>3, <2>8, <3>1, <3>2
    <3>3. CASE j = n + 1
      BY <1>1, <2>1, <2>2, <3>1, <3>3
    <3> QED BY <2>0, <3>2, <3>3
  <2>4. {q[i] : i \in 1..n+1} = {i \in 1..k+1 : written[i].form # "blank"}
    <3>1. ASSUME NEW i \in 1..n+1 PROVE q[i] \in {j \in 1..k+1 : written[j].form # "blank"}
      <4>1. CASE i \in 1..n
        BY <1>1, <2>1, <2>2, <4>1
      <4>2. CASE i = n + 1
        BY <1>1, <1>4, <2>1, <4>2
      <4> QED BY <2>0, <4>1, <4>2
    <3>2. ASSUME NEW j \in 1..k+1, written[j].form # "blank" PROVE j \in {q[i] : i \in 1..n+1}
      <4>1. CASE j \in 1..k
        <5>1. PICK i \in 1..n : r[i] = j
          BY <2>9, <3>2, <4>1
        <5>2. i \in 1..n+1 /\ q[i] = j
          BY <2>1, <5>1
        <5> QED BY <5>2
      <4>2. CASE j = k + 1
        <5>1. n + 1 \in 1..n+1 /\ q[n + 1] = j
          BY <2>1, <4>2
        <5> QED BY <5>1
      <4> QED BY <1>1, <4>1, <4>2
    <3> QED BY <3>1, <3>2
  <2>5. Relayed(k + 1, q)
    BY <1>1, <1>2, <2>1, <2>3, <2>4 DEF Relayed
  <2>6. HostLines(q) = Append(HostLines(r), Bytes("lf", k + 1))
    <3>1. /\ HostLines(q) \in Seq(Seq(Byte)) /\ Len(HostLines(q)) = n + 1
          /\ \A j \in 1..n+1 : HostLines(q)[j] = Bytes("lf", q[j])
      BY <2>1, LinesTypes
    <3>2. /\ HostLines(r) \in Seq(Seq(Byte)) /\ Len(HostLines(r)) = n
          /\ \A j \in 1..n : HostLines(r)[j] = Bytes("lf", r[j])
      BY <1>1, LinesTypes DEF n
    <3>3. Bytes("lf", k + 1) \in Seq(Byte)
      BY <1>1, BytesOfLines
    <3> PICK A, B : A = HostLines(r) /\ B = Append(HostLines(r), Bytes("lf", k + 1))
      OBVIOUS
    <3>4. B \in Seq(Seq(Byte)) /\ Len(B) = n + 1 /\ B[n + 1] = Bytes("lf", k + 1) /\ \A j \in 1..n : B[j] = A[j]
      BY <3>2, <3>3, AppendProperties
    <3>5. \A j \in 1..n+1 : HostLines(q)[j] = B[j]
      BY <2>0, <2>1, <3>1, <3>2, <3>4
    <3>6. HostLines(q) = B
      BY <3>1, <3>4, <3>5, SeqEqual
    <3> QED BY <3>6
  <2> QED BY <1>4, <2>5, <2>6 DEF q
<1> QED BY <1>3, <1>4

LEMMA WriteStep ==
  ASSUME PipeInv, NEW form \in Forms, NEW event \in kind.events, Write(form, event)
  PROVE  PipeInv'
<1> PICK k, r : PipeAt(k, r)
  BY DEF PipeInv
<1> DEFINE n == Len(written)
<1> PICK l : l = Bytes(form, n + 1)
  OBVIOUS
<1>0. PipeTypes /\ BareLast
  BY DEF PipeInv
<1>1. form \in {"lf", "crlf", "bare", "blank", "bad"}
  BY FormsAssumption, Zenon
<1>2. n \in Nat /\ l \in Seq(Byte)
  <2>1. n \in Nat
    BY <1>0, LinesTypes
  <2> HIDE DEF n
  <2>2. n + 1 \in Nat
    BY <2>1
  <2>3. l \in Seq(Byte)
    BY <1>1, <2>2, BytesOfLines
  <2> QED BY <2>1, <2>3
<1>3. /\ end["kernel"] = "open" /\ written' = Append(written, [form |-> form, event |-> event])
      /\ wire' = [wire EXCEPT !["kernel"] = wire["kernel"] \o l]
      /\ end' = [end EXCEPT !["kernel"] = IF form = "bare" THEN "closed" ELSE "open"]
      /\ UNCHANGED <<kind, buffer, got, outcome>>
  BY DEF Write
<1>4. /\ written' \in Seq(LineTypes) /\ Len(written') = n + 1
      /\ written'[n + 1].form = form /\ \A i \in 1..n : written'[i] = written[i]
  <2>1. [form |-> form, event |-> event] \in LineTypes /\ written \in Seq(LineTypes)
    BY <1>0 DEF PipeTypes, LineTypes
  <2>2. PICK x : x = [form |-> form, event |-> event]
    OBVIOUS
  <2>3. x \in LineTypes /\ written' = Append(written, x) /\ x.form = form
    BY <1>3, <2>1, <2>2
  <2>4. /\ written' \in Seq(LineTypes) /\ Len(written') = n + 1
        /\ written'[n + 1] = x /\ \A i \in 1..n : written'[i] = written[i]
    BY <2>1, <2>3, AppendProperties
  <2> QED BY <2>3, <2>4
<1>5. wire["kernel"] \in Seq(Byte)
  BY <1>0 DEF PipeTypes, Hops
<1>6. wire["kernel"] \o l \in Seq(Byte)
  BY <1>2, <1>5
<1>7. PipeTypes'
  <2>1. LineTypes' = LineTypes
    BY <1>3 DEF LineTypes
  <2>2. wire' \in [Hops -> Seq(Byte)]
    BY <1>0, <1>3, <1>6 DEF PipeTypes
  <2>3. end' \in [Hops -> {"open", "closed", "broken"}]
    BY <1>0, <1>3 DEF PipeTypes
  <2> QED BY <1>0, <1>3, <1>4, <2>1, <2>2, <2>3 DEF PipeTypes
<1>8. /\ wire'["kernel"] = wire["kernel"] \o l /\ wire'["host"] = wire["host"] /\ end'["host"] = end["host"]
      /\ end'["kernel"] = (IF form = "bare" THEN "closed" ELSE "open")
  BY <1>0, <1>3 DEF PipeTypes, Hops
<1>9. BareLast'
  <2> SUFFICES ASSUME NEW i \in 1..Len(written'), written'[i].form = "bare"
               PROVE  i = Len(written') /\ end'["kernel"] = "closed"
    BY DEF BareLast
  <2>1. CASE i = n + 1
    BY <1>4, <1>8, <2>1
  <2>2. CASE i # n + 1
    <3>1. i \in 1..n /\ written[i].form = "bare"
      BY <1>2, <1>4, <2>2
    <3> QED BY <1>0, <1>3, <3>1 DEF BareLast
  <2> QED BY <2>1, <2>2
<1>10. KernelLines' = Append(KernelLines, l)
  <2>1. KernelLines' = [i \in 1..n+1 |-> Bytes(written'[i].form, i)]
    BY <1>4 DEF KernelLines
  <2>2. /\ KernelLines \in Seq(Seq(Byte)) /\ Len(KernelLines) = n
        /\ \A i \in 1..n : KernelLines[i] = Bytes(written[i].form, i)
    BY <1>0, LinesTypes
  <2> PICK A, B, C : A = KernelLines /\ B = Append(KernelLines, l) /\ C = KernelLines'
    OBVIOUS
  <2>3. B \in Seq(Seq(Byte)) /\ Len(B) = n + 1 /\ B[n + 1] = l /\ \A i \in 1..n : B[i] = A[i]
    BY <1>2, <2>2, AppendProperties
  <2>4. \A i \in 1..n+1 : i \in 1..n \/ i = n + 1
    BY <1>2
  <2>5. ASSUME NEW i \in 1..n+1 PROVE C[i] = B[i] /\ B[i] \in Seq(Byte)
    <3>1. C[i] = Bytes(written'[i].form, i)
      BY <2>1
    <3>2. CASE i \in 1..n
      BY <1>4, <2>2, <2>3, <3>1, <3>2
    <3>3. CASE i = n + 1
      BY <1>2, <1>4, <2>3, <3>1, <3>3
    <3> QED BY <2>4, <3>2, <3>3
  <2>6. C \in [1..n+1 -> Seq(Byte)] /\ n + 1 \in Nat
    <3>1. DOMAIN C = 1..n+1 /\ C = [i \in 1..n+1 |-> C[i]]
      BY <2>1
    <3>2. \A i \in 1..n+1 : C[i] \in Seq(Byte)
      BY <2>5
    <3> HIDE DEF n
    <3>3. C \in [1..n+1 -> Seq(Byte)]
      BY <3>1, <3>2
    <3> QED BY <1>2, <3>3
  <2>7. C \in Seq(Seq(Byte)) /\ Len(C) = n + 1
    BY <2>6
  <2>8. C = B
    BY <2>3, <2>5, <2>7, SeqEqual
  <2> QED BY <2>8
<1>11. Relayed(k, r)'
  <2>1. Relayed(k, r)
    BY DEF PipeAt
  <2>2. k \in 0..n+1 /\ \A i \in 1..k : i \in 1..n
    BY <1>2, <2>1 DEF Relayed
  <2>3. \A i \in 1..k : written'[i] = written[i]
    BY <1>4, <2>2
  <2>4. {i \in 1..k : written'[i].form # "blank"} = {i \in 1..k : written[i].form # "blank"}
    BY <2>3
  <2>5. \A i \in 1..k : written'[i].form # "bad"
    BY <2>1, <2>3 DEF Relayed
  <2>6. {r[i] : i \in 1..Len(r)} = {i \in 1..k : written'[i].form # "blank"}
    BY <2>1, <2>4 DEF Relayed
  <2>7. r \in Seq(Nat) /\ \A i, j \in 1..Len(r) : i < j => r[i] < r[j]
    BY <2>1 DEF Relayed
  <2> QED BY <1>4, <2>2, <2>5, <2>6, <2>7 DEF Relayed
<1>12. end["host"] = "open" => Carries(KernelLines, k, "kernel")'
  <2> SUFFICES ASSUME end["host"] = "open" PROVE Carries(KernelLines, k, "kernel")'
    OBVIOUS
  <2> PICK L : L = KernelLines
    OBVIOUS
  <2>1. L \in Seq(Seq(Byte)) /\ Carries(L, k, "kernel") /\ "kernel" \in Hops
    BY <1>0, LinesTypes DEF PipeAt, Hops
  <2>2. Carries(Append(L, l), k, "kernel")'
    <3>1. /\ end["kernel"] # "broken" /\ buffer'["kernel"] = buffer["kernel"]
          /\ wire'["kernel"] = wire["kernel"] \o l
      BY <1>3, <1>8
    <3> QED BY ONLY <1>0, <1>2, <2>1, <3>1, LineEnters
  <2>3. KernelLines' = Append(L, l)
    BY <1>10
  <2> QED BY <2>2, <2>3 DEF Carries
<1>13. Carries(HostLines(r), Len(got), "host")'
  <2>1. Carries(HostLines(r), Len(got), "host") /\ "host" \in Hops /\ got' = got
    BY <1>3 DEF PipeAt, Hops
  <2>2. Carries(HostLines(r), Len(got), "host")
    BY <2>1
  <2> PICK L, g : L = HostLines(r) /\ g = Len(got)
    OBVIOUS
  <2>3. Carries(L, g, "host")'
    BY <1>3, <1>8, <2>1, CarriesFrame
  <2>4. HostLines(r)' = L /\ Len(got') = g
    BY <2>1 DEF HostLines
  <2> QED BY <2>3, <2>4 DEF Carries
<1>14. PipeAt(k, r)'
  <2>1. end["host"] # "closed"
    BY <1>3 DEF PipeAt
  <2> QED BY <1>3, <1>8, <1>11, <1>12, <1>13, <2>1 DEF PipeAt
<1> QED BY <1>7, <1>9, <1>14 DEF PipeInv

----------------------------------------------------------------------------
(* EventPipe: the bytes move, the lines stay.                              *)

\* what stays true when no line is written, relayed or returned
LEMMA LinesFrame ==
  ASSUME NEW k, NEW r, UNCHANGED written
  PROVE  KernelLines' = KernelLines /\ HostLines(r)' = HostLines(r) /\ (Relayed(k, r) => Relayed(k, r)')
BY DEF KernelLines, HostLines, Relayed

\* a body changes on its way, its lines stay
LEMMA BytesMove ==
  ASSUME NEW k, NEW r, PipeAt(k, r), PipeTypes', BareLast, UNCHANGED <<written, got, outcome>>,
         \A h \in Hops : end'[h] = end[h] \/ (end[h] = "open" /\ end'[h] \in {"broken", "closed"}),
         end'["host"] = "closed" => end["host"] = "closed",
         \A L, a : end'["host"] = "open" /\ Carries(L, a, "kernel") => Carries(L, a, "kernel")',
         \A L, a : Carries(L, a, "host") => Carries(L, a, "host")'
  PROVE  PipeInv'
<1>0. "kernel" \in Hops /\ "host" \in Hops
  BY DEF Hops
<1>1. KernelLines' = KernelLines /\ HostLines(r)' = HostLines(r) /\ Relayed(k, r)'
  BY LinesFrame DEF PipeAt
<1>2. BareLast'
  BY <1>0 DEF BareLast
<1> PICK A, B, g : A = KernelLines /\ B = HostLines(r) /\ g = Len(got)
  OBVIOUS
<1>3. end'["host"] = "open" => Carries(KernelLines, k, "kernel")'
  <2>1. ASSUME end'["host"] = "open" PROVE Carries(A, k, "kernel")'
    BY <1>0, <2>1 DEF PipeAt
  <2>2. KernelLines' = A
    BY <1>1
  <2> QED BY <2>1, <2>2 DEF Carries
<1>4. Carries(HostLines(r), Len(got), "host")'
  <2>1. Carries(B, g, "host")'
    BY DEF PipeAt
  <2>2. HostLines(r)' = B /\ Len(got)' = g
    BY <1>1
  <2> QED BY <2>1, <2>2 DEF Carries
<1>5. PipeAt(k, r)'
  <2>1. end'["host"] = "closed" => k = Len(written') /\ end'["kernel"] = "closed"
    BY <1>0 DEF PipeAt
  <2>2. outcome' = "done" => end'["host"] = "closed" /\ Len(got') = Len(r)
    BY <1>0 DEF PipeAt
  <2>3. \A i \in 1..Len(got') : got'[i] = r[i]
    BY DEF PipeAt
  <2> QED BY <1>1, <1>3, <1>4, <2>1, <2>2, <2>3 DEF PipeAt
<1> QED BY <1>2, <1>5 DEF PipeInv

LEMMA KernelEndsStep ==
  ASSUME PipeInv, KernelEnds
  PROVE  PipeInv'
<1> PICK k, r : PipeAt(k, r)
  BY DEF PipeInv
<1>1. /\ end["kernel"] = "open" /\ end' = [end EXCEPT !["kernel"] = "closed"]
      /\ UNCHANGED <<kind, written, wire, buffer, got, outcome>>
  BY DEF KernelEnds
<1>2. PipeTypes' /\ end'["kernel"] = "closed" /\ end'["host"] = end["host"]
  BY <1>1 DEF PipeInv, PipeTypes, LineTypes, Hops
<1>3. ASSUME NEW L, NEW a, NEW h \in Hops, Carries(L, a, h) PROVE Carries(L, a, h)'
  <2>1. end'[h] # "broken" => end[h] # "broken"
    BY <1>1, <1>2, <1>3 DEF Hops
  <2>2. PICK z \in Seq(Byte) : /\ Lays(L, a, (buffer[h] \o wire[h]) \o z)
                               /\ end[h] # "broken" => z = <<>>
    BY <1>3 DEF Carries
  <2>3. (buffer'[h] \o wire'[h]) \o z = (buffer[h] \o wire[h]) \o z
    BY <1>1
  <2> QED BY <2>1, <2>2, <2>3 DEF Carries
<1> QED BY <1>1, <1>2, <1>3, BytesMove DEF PipeInv, Hops

LEMMA CutStep ==
  ASSUME PipeInv, NEW h \in Hops, Cut(h)
  PROVE  PipeInv'
<1> PICK k, r : PipeAt(k, r)
  BY DEF PipeInv
<1>1. PipeTypes' /\ \A L, a : \A g \in Hops : Carries(L, a, g) => Carries(L, a, g)'
  BY CutShort DEF PipeInv
<1>2. /\ end[h] = "open" /\ end' = [end EXCEPT ![h] = "broken"]
      /\ UNCHANGED <<written, got, outcome>>
  BY DEF Cut
<1>3. /\ \A g \in Hops : end'[g] = end[g] \/ (end[g] = "open" /\ end'[g] \in {"broken", "closed"})
      /\ end'["host"] = "closed" => end["host"] = "closed"
  BY <1>2 DEF PipeInv, PipeTypes, Hops
<1>4. "kernel" \in Hops /\ "host" \in Hops
  BY DEF Hops
<1>6. /\ \A L, a : end'["host"] = "open" /\ Carries(L, a, "kernel") => Carries(L, a, "kernel")'
      /\ \A L, a : Carries(L, a, "host") => Carries(L, a, "host")'
  BY <1>1, <1>4
<1>7. BareLast
  BY DEF PipeInv
<1> QED BY <1>1, <1>2, <1>3, <1>6, <1>7, BytesMove

LEMMA ReadStep ==
  ASSUME PipeInv, NEW h \in Hops, Chunk(h)
  PROVE  PipeInv'
<1> PICK k, r : PipeAt(k, r)
  BY DEF PipeInv
<1>1. PipeTypes' /\ \A L, a : \A g \in Hops : Carries(L, a, g) => Carries(L, a, g)'
  BY ChunkArrives DEF PipeInv
<1>2. UNCHANGED <<written, got, outcome, end>>
  BY DEF Chunk
<1>3. /\ \A g \in Hops : end'[g] = end[g] \/ (end[g] = "open" /\ end'[g] \in {"broken", "closed"})
      /\ end'["host"] = "closed" => end["host"] = "closed"
  BY <1>2
<1>4. "kernel" \in Hops /\ "host" \in Hops
  BY DEF Hops
<1>6. /\ \A L, a : end'["host"] = "open" /\ Carries(L, a, "kernel") => Carries(L, a, "kernel")'
      /\ \A L, a : Carries(L, a, "host") => Carries(L, a, "host")'
  BY <1>1, <1>4
<1>7. BareLast
  BY DEF PipeInv
<1> QED BY <1>1, <1>2, <1>3, <1>6, <1>7, BytesMove

LEMMA StreamBreaksStep ==
  ASSUME PipeInv, StreamBreaks
  PROVE  PipeInv'
<1> PICK k, r : PipeAt(k, r)
  BY DEF PipeInv
<1>1. /\ end["host"] = "open" /\ end' = [end EXCEPT !["host"] = "broken"]
      /\ UNCHANGED <<kind, written, wire, buffer, got, outcome>>
  BY DEF StreamBreaks
<1>2. PipeTypes' /\ end'["host"] = "broken" /\ end'["kernel"] = end["kernel"]
  BY <1>1 DEF PipeInv, PipeTypes, LineTypes, Hops
<1>3. \A g \in Hops : end'[g] = end[g] \/ (end[g] = "open" /\ end'[g] \in {"broken", "closed"})
  BY <1>1, <1>2 DEF Hops
<1>4. \A L, a : \A g \in Hops : Carries(L, a, g) => Carries(L, a, g)'
  BY <1>1, <1>2, CarriesFrame DEF Hops
<1>5. "kernel" \in Hops /\ "host" \in Hops
  BY DEF Hops
<1>6. /\ \A L, a : end'["host"] = "open" /\ Carries(L, a, "kernel") => Carries(L, a, "kernel")'
      /\ \A L, a : Carries(L, a, "host") => Carries(L, a, "host")'
  BY <1>4, <1>5
<1>7. BareLast
  BY DEF PipeInv
<1> QED BY <1>1, <1>2, <1>3, <1>6, <1>7, BytesMove

LEMMA NextBreaksStep ==
  ASSUME PipeInv, NextBreaks
  PROVE  PipeInv'
<1> PICK k, r : PipeAt(k, r)
  BY DEF PipeInv
<1>1. outcome' = "failed" /\ UNCHANGED <<kind, written, wire, end, buffer, got>>
  BY DEF NextBreaks
<1>2. PipeTypes' /\ BareLast'
  BY <1>1 DEF PipeInv, PipeTypes, LineTypes, BareLast
<1>3. PipeAt(k, r)'
  BY <1>1 DEF PipeAt, Carries, Relayed, KernelLines, HostLines
<1> QED BY <1>2, <1>3 DEF PipeInv

----------------------------------------------------------------------------
(* EventPipe: agent_host relays a line.                                    *)

LEMMA GotBound ==
  ASSUME PipeTypes, NEW k, NEW r, PipeAt(k, r)
  PROVE  Len(got) \in Nat /\ Len(r) \in Nat /\ Len(got) <= Len(r) /\ r \in Seq(Nat)
<1>1. r \in Seq(Nat)
  BY DEF PipeAt, Relayed
<1>2. HostLines(r) \in Seq(Seq(Byte)) /\ Len(HostLines(r)) = Len(r) /\ Len(r) \in Nat
  BY <1>1, LinesTypes
<1>3. PICK s : Lays(HostLines(r), Len(got), s)
  BY DEF PipeAt, Carries
<1>4. Len(got) \in 0..Len(HostLines(r))
  BY <1>2, <1>3, LaysTypes
<1> QED BY <1>1, <1>2, <1>4

\* where agent_host stands after a line, if the line and what it makes of it are passed on
LEMMA RelayLands ==
  ASSUME PipeInv, NEW k, NEW r, PipeAt(k, r), end["host"] = "open", UNCHANGED <<written, got, outcome>>,
         PipeTypes', end'["kernel"] = end["kernel"], NEW k2, NEW r2, Relayed(k2, r2),
         end'["host"] = "open" => Carries(KernelLines, k2, "kernel")',
         end'["host"] = "closed" => k2 = Len(written) /\ end["kernel"] = "closed",
         Carries(HostLines(r2), Len(got), "host")',
         \A i \in 1..Len(r) : r2[i] = r[i]
  PROVE  PipeInv'
<1>0. Len(got) \in Nat /\ Len(r) \in Nat /\ Len(got) <= Len(r)
  BY GotBound DEF PipeInv
<1>1. BareLast'
  BY DEF PipeInv, BareLast
<1>2. Relayed(k2, r2)'
  BY LinesFrame
<1>3. \A i \in 1..Len(got') : got'[i] = r2[i]
  <2>1. \A i \in 1..Len(got) : i \in 1..Len(r) /\ got[i] = r[i]
    BY <1>0 DEF PipeAt
  <2> QED BY <2>1
<1>4. outcome' # "done"
  BY DEF PipeAt
<1>5. PipeAt(k2, r2)'
  BY <1>2, <1>3, <1>4 DEF PipeAt
<1> QED BY <1>1, <1>5 DEF PipeInv

LEMMA RelayStep ==
  ASSUME PipeInv, NEW k, NEW r, PipeAt(k, r), end["host"] = "open", k + 1 \in 1..Len(written),
         NEW rest \in Seq(Byte), NEW last \in BOOLEAN, Relay(LineText(written[k + 1].form, k + 1), rest, last),
         last => k + 1 = Len(written) /\ end["kernel"] = "closed",
         ~last => \E z \in Seq(Byte) : /\ Lays(KernelLines, k + 1, (rest \o wire["kernel"]) \o z)
                                       /\ end["kernel"] # "broken" => z = <<>>
  PROVE  PipeInv'
<1> PICK form, line, l, i, A : /\ form = written[k + 1].form /\ line = LineText(form, i)
                               /\ i = k + 1 /\ l = Bytes("lf", i) /\ A = KernelLines
  OBVIOUS
<1>0. PipeTypes /\ BareLast /\ "kernel" \in Hops /\ "host" \in Hops /\ Relayed(k, r)
  BY DEF PipeInv, PipeAt, Hops
<1>1. form \in {"lf", "crlf", "bare", "blank", "bad"} /\ i \in Nat /\ i \in DOMAIN written
  BY <1>0, LinesTypes
<1>2. /\ form \in {"lf", "crlf", "bare"} => parse_event_line(line) = "event" /\ line[1][1] = i
      /\ form = "blank" => parse_event_line(line) = "nothing"
      /\ form = "bad" => parse_event_line(line) = "error"
  BY <1>1, Parsed
<1>3. Relay(line, rest, last)
  OBVIOUS
<1>4. /\ buffer' = [buffer EXCEPT !["kernel"] = rest]
      /\ end' = [end EXCEPT !["host"] = IF parse_event_line(line) = "error" THEN "broken"
                                        ELSE IF last THEN "closed" ELSE "open"]
      /\ UNCHANGED <<kind, written, got, outcome>>
  BY <1>3 DEF Relay
<1>5. IF parse_event_line(line) = "event" THEN wire' = [wire EXCEPT !["host"] = wire["host"] \o Bytes("lf", line[1][1])]
      ELSE wire' = wire
  BY <1>3 DEF Relay
<1>6. l \in Seq(Byte)
  BY <1>1, BytesOfLines
<1>7. /\ buffer' \in [Hops -> Seq(Byte)] /\ buffer'["kernel"] = rest /\ buffer'["host"] = buffer["host"]
      /\ end' \in [Hops -> {"open", "closed", "broken"}] /\ end'["kernel"] = end["kernel"]
  BY <1>0, <1>4 DEF PipeTypes, Hops
<1>8. Len(got') = Len(got) /\ got' = got
  BY <1>4
<1> PICK B, g : B = HostLines(r) /\ g = Len(got)
  OBVIOUS
<1>9. Carries(B, g, "host") /\ B \in Seq(Seq(Byte)) /\ A' = A
  <2>1. r \in Seq(Nat)
    BY <1>0 DEF Relayed
  <2> QED BY <1>0, <2>1, LinesTypes DEF PipeAt
<1>10. KernelLines' = A
  BY <1>4, LinesFrame
<1>11. ASSUME ~last, wire'["kernel"] = wire["kernel"] PROVE Carries(KernelLines, i, "kernel")'
  <2>1. PICK z \in Seq(Byte) : /\ Lays(A, i, (rest \o wire["kernel"]) \o z)
                               /\ end["kernel"] # "broken" => z = <<>>
    BY <1>11
  <2>2. Lays(A, i, (buffer'["kernel"] \o wire'["kernel"]) \o z)
    BY <1>7, <1>11, <2>1
  <2>3. Carries(A, i, "kernel")'
    BY <1>7, <2>1, <2>2 DEF Carries
  <2> QED BY <1>10, <2>3 DEF Carries
<1>12. CASE form \in {"lf", "crlf", "bare"}
  <2>1. wire' = [wire EXCEPT !["host"] = wire["host"] \o l] /\ end' = [end EXCEPT !["host"] = IF last THEN "closed" ELSE "open"]
    BY <1>2, <1>4, <1>5, <1>12
  <2>2. wire["host"] \in Seq(Byte)
    BY <1>0 DEF PipeTypes
  <2>3. wire["host"] \o l \in Seq(Byte)
    BY <1>6, <2>2
  <2>4. /\ wire' \in [Hops -> Seq(Byte)] /\ wire'["kernel"] = wire["kernel"] /\ wire'["host"] = wire["host"] \o l
        /\ end'["host"] = (IF last THEN "closed" ELSE "open")
    BY <1>0, <2>1, <2>3 DEF PipeTypes, Hops
  <2>5. PipeTypes'
    BY <1>0, <1>4, <1>7, <2>4 DEF PipeTypes, LineTypes
  <2> PICK r2 : r2 = Append(r, i)
    OBVIOUS
  <2>6. Relayed(i, r2) /\ HostLines(r2) = Append(B, l)
    <3>1. written[k + 1].form # "bad" /\ written[k + 1].form # "blank"
      BY <1>12
    <3> QED BY <1>0, <3>1, RelayedNext
  <2>7. Carries(Append(B, l), g, "host")'
    <3>1. end["host"] # "broken" /\ buffer'["host"] = buffer["host"] /\ wire'["host"] = wire["host"] \o l
      BY <1>7, <2>4
    <3> QED BY ONLY <1>0, <1>6, <1>9, <3>1, LineEnters
  <2>8. Carries(HostLines(r2), Len(got), "host")'
    <3>1. HostLines(r2)' = Append(B, l) /\ Len(got)' = g
      BY <1>4, <1>8, <2>6, LinesFrame
    <3> QED BY <2>7, <3>1 DEF Carries
  <2>9. \A j \in 1..Len(r) : r2[j] = r[j]
    BY <1>0, <1>1, AppendProperties DEF Relayed
  <2>10. /\ end'["host"] = "open" => Carries(KernelLines, i, "kernel")'
         /\ end'["host"] = "closed" => i = Len(written) /\ end["kernel"] = "closed"
    BY <1>11, <2>4
  <2>11. /\ PipeInv /\ PipeAt(k, r) /\ end["host"] = "open" /\ UNCHANGED <<written, got, outcome>>
         /\ end'["kernel"] = end["kernel"] /\ Relayed(i, r2)
    BY <1>4, <1>7, <2>6
  <2> QED BY ONLY <2>5, <2>8, <2>9, <2>10, <2>11, RelayLands
<1>13. CASE form = "blank"
  <2>1. wire' = wire /\ end' = [end EXCEPT !["host"] = IF last THEN "closed" ELSE "open"]
    BY <1>2, <1>4, <1>5, <1>13
  <2>4. end'["host"] = (IF last THEN "closed" ELSE "open")
    BY <1>0, <2>1 DEF PipeTypes
  <2>5. PipeTypes'
    BY <1>0, <1>4, <1>7, <2>1 DEF PipeTypes, LineTypes
  <2>6. Relayed(i, r)
    BY <1>0, <1>13, RelayedNext
  <2>7. Carries(B, g, "host")'
    <3>1. end'["host"] = "broken" \/ end'["host"] = end["host"] \/ last
      BY <2>4
    <3>2. PICK z \in Seq(Byte) : /\ Lays(B, g, (buffer["host"] \o wire["host"]) \o z)
                                 /\ end["host"] # "broken" => z = <<>>
      BY <1>9 DEF Carries
    <3>3. (buffer'["host"] \o wire'["host"]) \o z = (buffer["host"] \o wire["host"]) \o z /\ z = <<>>
      BY <1>7, <2>1, <3>2
    <3> QED BY <3>2, <3>3 DEF Carries
  <2>8. Carries(HostLines(r), Len(got), "host")'
    <3>1. HostLines(r)' = B /\ Len(got)' = g
      BY <1>4, <1>8, LinesFrame
    <3> QED BY <2>7, <3>1 DEF Carries
  <2>10. /\ end'["host"] = "open" => Carries(KernelLines, i, "kernel")'
         /\ end'["host"] = "closed" => i = Len(written) /\ end["kernel"] = "closed"
    BY <1>11, <2>1, <2>4
  <2> QED BY <1>4, <1>7, <2>5, <2>6, <2>8, <2>10, RelayLands
<1>14. CASE form = "bad"
  <2>1. wire' = wire /\ end' = [end EXCEPT !["host"] = "broken"]
    BY <1>2, <1>4, <1>5, <1>14
  <2>4. end'["host"] = "broken"
    BY <1>0, <2>1 DEF PipeTypes
  <2>5. PipeTypes'
    BY <1>0, <1>4, <1>7, <2>1 DEF PipeTypes, LineTypes
  <2>7. Carries(B, g, "host")'
    BY <1>0, <1>7, <1>9, <2>1, <2>4, CarriesFrame
  <2>8. Carries(HostLines(r), Len(got), "host")'
    <3>1. HostLines(r)' = B /\ Len(got)' = g
      BY <1>4, <1>8, LinesFrame
    <3> QED BY <2>7, <3>1 DEF Carries
  <2> QED BY <1>0, <1>4, <1>7, <2>4, <2>5, <2>8, RelayLands
<1> QED BY <1>1, <1>12, <1>13, <1>14

----------------------------------------------------------------------------
(* EventPipe: lines are relayed and returned.                              *)

LEMMA StreamMessageStep ==
  ASSUME PipeInv, stream_message
  PROVE  PipeInv'
<1> PICK k, r : PipeAt(k, r)
  BY DEF PipeInv
<1> PICK A, w : A = KernelLines /\ w = wire["kernel"]
  OBVIOUS
<1>0. PipeTypes /\ BareLast /\ "kernel" \in Hops
  BY DEF PipeInv, Hops
<1>1. /\ end["host"] = "open" /\ Newlines("kernel") # {}
      /\ Relay(next_buffered_line("kernel"), Drained("kernel"), FALSE)
  BY DEF stream_message
<1>2. A \in Seq(Seq(Byte)) /\ Len(A) = Len(written) /\ Carries(A, k, "kernel")
  BY <1>0, <1>1, LinesTypes DEF PipeAt
<1>3. PICK z \in Seq(Byte) : /\ Lays(A, k, (buffer["kernel"] \o wire["kernel"]) \o z)
                             /\ end["kernel"] # "broken" => z = <<>>
  BY <1>2 DEF Carries
<1>4. /\ k \in Nat /\ k + 1 \in 1..Len(A)
      /\ Ended(A[k + 1]) =>
           /\ next_buffered_line("kernel") = SubSeq(A[k + 1], 1, Len(A[k + 1]) - 1)
           /\ Drained("kernel") \in Seq(Byte)
           /\ Lays(A, k + 1, (Drained("kernel") \o wire["kernel"]) \o z)
      /\ ~ (k + 1 = Len(A) /\ \A j \in 1..Len(A[k + 1]) : A[k + 1][j] # NL)
  BY ONLY <1>0, <1>1, <1>2, <1>3, LineArrives
<1>5. k + 1 \in 1..Len(written)
  BY <1>2, <1>4
<1>6. /\ written[k + 1].form # "bare" => /\ Ended(A[k + 1])
                                         /\ SubSeq(A[k + 1], 1, Len(A[k + 1]) - 1) = LineText(written[k + 1].form, k + 1)
      /\ written[k + 1].form = "bare" => \A j \in 1..Len(A[k + 1]) : A[k + 1][j] # NL
  BY <1>0, <1>5, LineBodies
<1>7. written[k + 1].form # "bare"
  BY <1>0, <1>2, <1>4, <1>5, <1>6 DEF BareLast
<1> PICK line, rest : line = LineText(written[k + 1].form, k + 1) /\ rest = Drained("kernel")
  OBVIOUS
<1>8. /\ next_buffered_line("kernel") = line /\ rest \in Seq(Byte)
      /\ Lays(KernelLines, k + 1, (rest \o wire["kernel"]) \o z)
  BY <1>4, <1>6, <1>7
<1>9. Relay(LineText(written[k + 1].form, k + 1), rest, FALSE)
  BY <1>1, <1>8
<1>10. /\ PipeInv /\ PipeAt(k, r) /\ end["host"] = "open" /\ FALSE \in BOOLEAN
       /\ \E y \in Seq(Byte) : /\ Lays(KernelLines, k + 1, (rest \o wire["kernel"]) \o y)
                               /\ end["kernel"] # "broken" => y = <<>>
  BY <1>1, <1>3, <1>8
<1>11. rest \in Seq(Byte) /\ (FALSE => k + 1 = Len(written) /\ end["kernel"] = "closed")
  BY <1>8
<1> QED BY ONLY <1>5, <1>9, <1>10, <1>11, RelayStep

LEMMA StreamRemainsStep ==
  ASSUME PipeInv, StreamRemains
  PROVE  PipeInv'
<1> PICK k, r : PipeAt(k, r)
  BY DEF PipeInv
<1> PICK A, B, g : A = KernelLines /\ B = HostLines(r) /\ g = Len(got)
  OBVIOUS
<1>0. PipeTypes /\ BareLast /\ "kernel" \in Hops /\ "host" \in Hops /\ Relayed(k, r) /\ Carries(B, g, "host")
  BY DEF PipeInv, Hops, PipeAt
<1>1. /\ end["host"] = "open" /\ Remains("kernel") /\ end["kernel"] = "closed"
      /\ Relay(buffer["kernel"], <<>>, TRUE)
  BY DEF StreamRemains, Remains
<1>2. A \in Seq(Seq(Byte)) /\ Len(A) = Len(written) /\ Carries(A, k, "kernel")
  BY <1>0, <1>1, LinesTypes DEF PipeAt
<1>3. \/ k = Len(A) /\ buffer["kernel"] = <<>>
      \/ /\ k \in Nat /\ k + 1 \in 1..Len(A) /\ ~Ended(A[k + 1])
         /\ k + 1 = Len(A) => buffer["kernel"] = A[k + 1]
  BY ONLY <1>0, <1>1, <1>2, LineRemains
<1>4. ASSUME k + 1 \in 1..Len(A), ~Ended(A[k + 1]), k + 1 = Len(A) => buffer["kernel"] = A[k + 1]
      PROVE  PipeInv'
  <2>1. k + 1 \in 1..Len(written)
    BY <1>2, <1>4
  <2>2. written[k + 1].form = "bare" /\ A[k + 1] = LineText(written[k + 1].form, k + 1)
    BY <1>0, <1>4, <2>1, LineBodies
  <2>3. k + 1 = Len(written)
    BY <1>0, <2>1, <2>2 DEF BareLast
  <2>4. Relay(LineText(written[k + 1].form, k + 1), <<>>, TRUE)
    BY <1>1, <1>2, <1>4, <2>2, <2>3
  <2>5. PipeInv /\ PipeAt(k, r) /\ end["host"] = "open" /\ TRUE \in BOOLEAN /\ <<>> \in Seq(Byte)
    BY <1>1
  <2>6. /\ TRUE => k + 1 = Len(written) /\ end["kernel"] = "closed"
        /\ ~TRUE => \E z \in Seq(Byte) : /\ Lays(KernelLines, k + 1, (<<>> \o wire["kernel"]) \o z)
                                         /\ end["kernel"] # "broken" => z = <<>>
    BY <1>1, <2>3
  <2> QED BY ONLY <2>1, <2>4, <2>5, <2>6, RelayStep
<1>5. ASSUME k = Len(A), buffer["kernel"] = <<>> PROVE PipeInv'
  <2>1. Relay(<<>>, <<>>, TRUE) /\ parse_event_line(<<>>) = "nothing"
    BY <1>1, <1>5, NothingParsed
  <2>2. /\ buffer' = [buffer EXCEPT !["kernel"] = <<>>] /\ wire' = wire
        /\ end' = [end EXCEPT !["host"] = "closed"] /\ UNCHANGED <<kind, written, got, outcome>>
    BY <2>1 DEF Relay
  <2>3. <<>> \in Seq(Byte)
    OBVIOUS
  <2>4. PipeTypes'
    BY <1>0, <2>2, <2>3 DEF PipeTypes, LineTypes
  <2>5. buffer'["host"] = buffer["host"] /\ end'["host"] = "closed" /\ end'["kernel"] = end["kernel"]
    BY <1>0, <2>2 DEF PipeTypes, Hops
  <2>6. Carries(B, g, "host")'
    <3>1. PICK z \in Seq(Byte) : /\ Lays(B, g, (buffer["host"] \o wire["host"]) \o z)
                                 /\ end["host"] # "broken" => z = <<>>
      BY <1>0 DEF Carries
    <3>2. (buffer'["host"] \o wire'["host"]) \o z = (buffer["host"] \o wire["host"]) \o z /\ z = <<>>
      BY <1>1, <2>2, <2>5, <3>1
    <3> QED BY <3>1, <3>2 DEF Carries
  <2>7. Carries(HostLines(r), Len(got), "host")'
    <3>1. HostLines(r)' = B /\ Len(got)' = g
      BY <2>2, LinesFrame
    <3> QED BY <2>6, <3>1 DEF Carries
  <2>8. /\ PipeInv /\ PipeAt(k, r) /\ end["host"] = "open" /\ UNCHANGED <<written, got, outcome>>
        /\ end'["kernel"] = end["kernel"] /\ Relayed(k, r)
        /\ end'["host"] = "open" => Carries(KernelLines, k, "kernel")'
        /\ end'["host"] = "closed" => k = Len(written) /\ end["kernel"] = "closed"
        /\ \A i \in 1..Len(r) : r[i] = r[i]
    BY <1>0, <1>1, <1>2, <1>5, <2>2, <2>5
  <2> QED BY ONLY <2>4, <2>7, <2>8, RelayLands
<1> QED BY <1>3, <1>4, <1>5

LEMMA NextEventStep ==
  ASSUME PipeInv, next_event
  PROVE  PipeInv'
<1> PICK k, r : PipeAt(k, r)
  BY DEF PipeInv
<1> PICK B, g : B = HostLines(r) /\ g = Len(got)
  OBVIOUS
<1>0. PipeTypes /\ BareLast /\ "host" \in Hops /\ "kernel" \in Hops /\ Carries(B, g, "host") /\ Relayed(k, r)
  BY DEF PipeInv, Hops, PipeAt
<1>1. /\ outcome = "reading" /\ Newlines("host") # {}
      /\ Take(next_buffered_line("host"), Drained("host"), FALSE)
  BY DEF next_event
<1>2. /\ g \in Nat /\ Len(r) \in Nat /\ g <= Len(r) /\ r \in Seq(Nat)
      /\ B \in Seq(Seq(Byte)) /\ Len(B) = Len(r) /\ \A j \in 1..Len(r) : r[j] \in Nat /\ B[j] = Bytes("lf", r[j])
  BY <1>0, GotBound, LinesTypes
<1>3. PICK z \in Seq(Byte) : /\ Lays(B, g, (buffer["host"] \o wire["host"]) \o z)
                             /\ end["host"] # "broken" => z = <<>>
  BY <1>0 DEF Carries
<1>4. /\ g + 1 \in 1..Len(B)
      /\ Ended(B[g + 1]) =>
           /\ next_buffered_line("host") = SubSeq(B[g + 1], 1, Len(B[g + 1]) - 1)
           /\ Drained("host") \in Seq(Byte)
           /\ Lays(B, g + 1, (Drained("host") \o wire["host"]) \o z)
  BY ONLY <1>0, <1>1, <1>2, <1>3, LineArrives
<1>5. PICK i : i = r[g + 1]
  OBVIOUS
<1>6. i \in Nat /\ i \in DOMAIN written /\ B[g + 1] = Bytes("lf", i)
  <2>1. g + 1 \in 1..Len(r)
    BY <1>2, <1>4
  <2>2. i \in 1..k /\ k \in 0..Len(written)
    BY <1>0, <1>5, <2>1 DEF Relayed
  <2>3. i \in 1..Len(written) /\ DOMAIN written = 1..Len(written)
    BY <1>0, <2>2 DEF PipeTypes
  <2> QED BY <1>2, <1>5, <2>1, <2>3
<1> PICK line, rest : line = LineText("lf", i) /\ rest = Drained("host")
  OBVIOUS
<1>7. next_buffered_line("host") = line /\ rest \in Seq(Byte) /\ Lays(B, g + 1, (rest \o wire["host"]) \o z)
  BY <1>4, <1>6, BytesOfLines DEF LineText
<1>8. Take(line, rest, FALSE) /\ parse_event_line(line) = "event" /\ line[1][1] = i
  BY <1>1, <1>6, <1>7, Parsed
<1>9. /\ buffer' = [buffer EXCEPT !["host"] = rest] /\ got' = Append(got, i) /\ outcome' = "reading"
      /\ UNCHANGED <<kind, written, wire, end>>
  BY <1>8 DEF Take
<1>10. /\ got' \in Seq(Nat) /\ Len(got') = g + 1 /\ got'[g + 1] = i /\ \A j \in 1..g : got'[j] = got[j]
  BY <1>0, <1>6, <1>9, AppendProperties DEF PipeTypes
<1>11. /\ buffer' \in [Hops -> Seq(Byte)] /\ buffer'["host"] = rest /\ buffer'["kernel"] = buffer["kernel"]
  BY <1>0, <1>7, <1>9 DEF PipeTypes, Hops
<1>12. PipeTypes' /\ BareLast'
  BY <1>0, <1>9, <1>10, <1>11 DEF PipeTypes, LineTypes, BareLast
<1>13. Carries(HostLines(r), Len(got), "host")'
  <2>1. Lays(B, g + 1, (buffer'["host"] \o wire'["host"]) \o z) /\ (end'["host"] # "broken" => z = <<>>)
    BY <1>3, <1>7, <1>9, <1>11
  <2>2. Carries(B, g + 1, "host")'
    BY <2>1 DEF Carries
  <2>3. HostLines(r)' = B /\ Len(got') = g + 1
    BY <1>9, <1>10, LinesFrame
  <2> QED BY <2>2, <2>3 DEF Carries
<1>14. end'["host"] = "open" => Carries(KernelLines, k, "kernel")'
  <2> PICK A : A = KernelLines
    OBVIOUS
  <2>1. end'["host"] = "open" => Carries(A, k, "kernel")'
    <3>1. end["host"] = "open" => Carries(A, k, "kernel")
      BY DEF PipeAt
    <3>2. buffer'["kernel"] = buffer["kernel"] /\ wire'["kernel"] = wire["kernel"] /\ end' = end
      BY <1>9, <1>11
    <3> QED BY <1>0, <3>1, <3>2, CarriesFrame
  <2>2. KernelLines' = A
    BY <1>9, LinesFrame
  <2> QED BY <2>1, <2>2 DEF Carries
<1>15. \A j \in 1..Len(got') : got'[j] = r[j]
  <2> SUFFICES ASSUME NEW j \in 1..g+1 PROVE got'[j] = r[j]
    BY <1>10
  <2>1. CASE j = g + 1
    BY <1>5, <1>10, <2>1
  <2>2. CASE j # g + 1
    <3>1. j \in 1..g
      BY <1>2, <2>2
    <3> QED BY <1>10, <3>1 DEF PipeAt
  <2> QED BY <2>1, <2>2
<1>16. PipeAt(k, r)'
  <2>1. Relayed(k, r)'
    BY <1>0, <1>9, LinesFrame
  <2>2. end'["host"] = "closed" => k = Len(written') /\ end'["kernel"] = "closed"
    BY <1>9 DEF PipeAt
  <2> QED BY <1>9, <1>13, <1>14, <1>15, <2>1, <2>2 DEF PipeAt
<1> QED BY <1>12, <1>16 DEF PipeInv

LEMMA NextRemainsStep ==
  ASSUME PipeInv, NextRemains
  PROVE  PipeInv'
<1> PICK k, r : PipeAt(k, r)
  BY DEF PipeInv
<1> PICK B, g : B = HostLines(r) /\ g = Len(got)
  OBVIOUS
<1>0. PipeTypes /\ BareLast /\ "host" \in Hops /\ "kernel" \in Hops /\ Carries(B, g, "host") /\ Relayed(k, r)
  BY DEF PipeInv, Hops, PipeAt
<1>1. Remains("host") /\ end["host"] = "closed" /\ Take(buffer["host"], <<>>, TRUE)
  BY DEF NextRemains, Remains
<1>2. /\ g \in Nat /\ Len(r) \in Nat /\ g <= Len(r) /\ r \in Seq(Nat)
      /\ B \in Seq(Seq(Byte)) /\ Len(B) = Len(r) /\ \A j \in 1..Len(r) : r[j] \in Nat /\ B[j] = Bytes("lf", r[j])
  BY <1>0, GotBound, LinesTypes
<1>3. \/ g = Len(B) /\ buffer["host"] = <<>>
      \/ /\ g \in Nat /\ g + 1 \in 1..Len(B) /\ ~Ended(B[g + 1])
  BY ONLY <1>0, <1>1, <1>2, LineRemains
<1>4. g = Len(r) /\ buffer["host"] = <<>>
  <2>1. g + 1 \in 1..Len(B) => Ended(B[g + 1])
    BY <1>2, BytesOfLines
  <2> QED BY <1>2, <1>3, <2>1
<1>5. /\ buffer' = [buffer EXCEPT !["host"] = <<>>] /\ got' = got /\ outcome' = "done"
      /\ UNCHANGED <<kind, written, wire, end>>
  BY <1>1, <1>4, NothingParsed DEF Take
<1>6. buffer' = buffer
  BY <1>0, <1>4, <1>5 DEF PipeTypes
<1>7. PipeTypes' /\ BareLast'
  BY <1>0, <1>5, <1>6 DEF PipeTypes, LineTypes, BareLast
<1>8. PipeAt(k, r)'
  BY <1>1, <1>4, <1>5, <1>6 DEF PipeAt, Carries, Relayed, KernelLines, HostLines
<1> QED BY <1>7, <1>8 DEF PipeInv

LEMMA PipeStart == PipeInit => PipeInv
<1> SUFFICES ASSUME PipeInit PROVE PipeInv
  OBVIOUS
<1>1. /\ written = <<>> /\ got = <<>> /\ outcome = "reading"
      /\ wire = [h \in Hops |-> <<>>] /\ buffer = [h \in Hops |-> <<>>] /\ end = [h \in Hops |-> "open"]
  BY DEF PipeInit, PipeBegin, Hops
<1>2. PipeTypes /\ BareLast
  <2>1. \A S : <<>> \in Seq(S)
    OBVIOUS
  <2> QED BY <1>1, <2>1 DEF PipeTypes, BareLast
<1>3. Relayed(0, <<>>)
  <2>1. Len(written) = 0 /\ 1..0 = {} /\ Len(<<>>) = 0 /\ <<>> \in Seq(Nat) /\ 0 \in 0..0
    BY <1>1
  <2> QED BY <2>1 DEF Relayed
<1>4. KernelLines = <<>> /\ HostLines(<<>>) = <<>>
  BY <1>1 DEF KernelLines, HostLines
<1>5. ASSUME NEW h \in Hops PROVE Carries(<<>>, 0, h)
  <2>1. (buffer[h] \o wire[h]) \o <<>> = <<>>
    BY <1>1
  <2>2. Lays(<<>>, 0, <<>>)
    <3>1. <<>> \in Seq(Seq(Byte)) /\ Len(<<>>) = 0
      OBVIOUS
    <3>2. Lays(<<>>, Len(<<>>), <<>>)
      BY <3>1, LaysNothing
    <3> QED BY <3>1, <3>2
  <2>3. <<>> \in Seq(Byte)
    OBVIOUS
  <2> QED BY <2>1, <2>2, <2>3 DEF Carries
<1>6. Carries(KernelLines, 0, "kernel") /\ Carries(HostLines(<<>>), 0, "host")
  BY <1>4, <1>5 DEF Hops
<1>7. PipeAt(0, <<>>)
  BY <1>1, <1>3, <1>6 DEF PipeAt, Hops
<1> QED BY <1>2, <1>7 DEF PipeInv

LEMMA PipeArrives ==
  ASSUME PipeInv
  PROVE  EventsArriveWhole
<1> PICK k, r : PipeAt(k, r)
  BY DEF PipeInv
<1>0. PipeTypes /\ Relayed(k, r) /\ k \in 0..Len(written) /\ DOMAIN written = 1..Len(written) /\ Len(written) \in Nat
  BY DEF PipeInv, PipeAt, Relayed, PipeTypes
<1>1. Len(got) \in Nat /\ Len(r) \in Nat /\ Len(got) <= Len(r) /\ DOMAIN got = 1..Len(got)
  BY <1>0, GotBound DEF PipeTypes
<1>2. \A i \in 1..Len(got) : i \in 1..Len(r) /\ got[i] = r[i]
  BY <1>1 DEF PipeAt
<1>3. \A i, j \in 1..Len(r) : i < j => r[i] < r[j]
  BY <1>0 DEF Relayed
<1>4. \A i \in 1..Len(r) : r[i] \in 1..k /\ written[r[i]].form # "blank" /\ r[i] \in Nat
  BY <1>0 DEF Relayed
<1>5. \A m \in 1..k : written[m].form # "blank" => \E i \in 1..Len(r) : r[i] = m
  BY <1>0 DEF Relayed
<1>6. \A m \in 1..k : written[m].form # "bad"
  BY <1>0 DEF Relayed
<1>7. \A i, j \in DOMAIN got : i < j => got[i] < got[j]
  BY <1>1, <1>2, <1>3
<1>8. ASSUME NEW i \in 1..Len(r) PROVE r[i] \in Sent
  <2>1. r[i] \in DOMAIN written /\ \A j \in 1..r[i] : j \in 1..k
    BY <1>0, <1>4
  <2> QED BY <1>4, <1>6, <2>1 DEF Sent
<1>9. ASSUME NEW i \in DOMAIN got, NEW m \in Sent, m < got[i] PROVE m \in Returned
  <2>1. i \in 1..Len(got) /\ got[i] = r[i] /\ r[i] \in 1..k /\ i \in 1..Len(r)
    BY <1>1, <1>2, <1>4
  <2>2. m \in 1..k /\ written[m].form # "blank"
    BY <1>0, <1>9, <2>1 DEF Sent
  <2>3. PICK j \in 1..Len(r) : r[j] = m
    BY <1>5, <2>2
  <2>4. j < i
    <3>1. i < j => r[i] < r[j]
      BY <1>3, <2>1
    <3>2. r[j] < r[i] /\ r[i] \in Nat /\ r[j] \in Nat
      BY <1>4, <1>9, <2>1, <2>3
    <3> QED BY <1>1, <2>1, <2>3, <3>1, <3>2
  <2>5. j \in DOMAIN got /\ got[j] = m
    BY <1>1, <1>2, <2>1, <2>3, <2>4
  <2> QED BY <2>5 DEF Returned
<1>10. ASSUME outcome = "done"
       PROVE  /\ end["kernel"] = "closed" /\ Returned = Sent
              /\ \A i \in DOMAIN written : written[i].form # "bad"
  <2>1. k = Len(written) /\ end["kernel"] = "closed" /\ Len(got) = Len(r)
    BY <1>10 DEF PipeAt
  <2>2. ASSUME NEW m \in Sent PROVE m \in Returned
    <3>1. m \in 1..k /\ written[m].form # "blank"
      BY <1>0, <2>1 DEF Sent
    <3>2. PICK j \in 1..Len(r) : r[j] = m
      BY <1>5, <3>1
    <3>3. j \in DOMAIN got /\ got[j] = m
      BY <1>1, <1>2, <2>1, <3>2
    <3> QED BY <3>3 DEF Returned
  <2>3. ASSUME NEW i \in DOMAIN got PROVE got[i] \in Sent
    BY <1>1, <1>2, <1>8
  <2> QED BY <1>0, <1>6, <2>1, <2>2, <2>3 DEF Returned
<1>11. \A i \in DOMAIN got : got[i] \in Sent
  BY <1>1, <1>2, <1>8
<1> QED BY <1>7, <1>9, <1>10, <1>11 DEF EventsArriveWhole

\* Whatever the network cuts off and however it splits what it carries, next_event returns
\* what the kernel wrote and nothing else, and calls the stream done only when that is all.
THEOREM EventsAlwaysArriveWhole == PipeSpec => []EventsArriveWhole
<1>1. PipeInv /\ [PipeNext]_pipeVars => PipeInv'
  <2> SUFFICES ASSUME PipeInv, [PipeNext]_pipeVars PROVE PipeInv'
    OBVIOUS
  <2>1. CASE UNCHANGED pipeVars
    <3> PICK k, r : PipeAt(k, r)
      BY DEF PipeInv
    <3>1. UNCHANGED <<kind, written, wire, end, buffer, got, outcome>>
      BY <2>1 DEF pipeVars
    <3>2. PipeTypes' /\ BareLast'
      BY <3>1 DEF PipeInv, PipeTypes, LineTypes, BareLast
    <3>3. PipeAt(k, r)'
      BY <3>1 DEF PipeAt, Carries, Relayed, KernelLines, HostLines
    <3> QED BY <3>2, <3>3 DEF PipeInv
  <2>2. CASE \E form \in Forms, event \in kind.events : Write(form, event)
    BY <2>2, WriteStep
  <2>3. CASE \E h \in {"kernel", "host"} : Cut(h)
    BY <2>3, CutStep DEF Hops
  <2>4. CASE ReadKernel \/ ReadHost
    BY <2>4, ReadStep DEF ReadKernel, ReadHost, Hops
  <2> QED BY <2>1, <2>2, <2>3, <2>4, KernelEndsStep, StreamMessageStep, StreamRemainsStep,
             StreamBreaksStep, NextEventStep, NextRemainsStep, NextBreaksStep DEF PipeNext
<1> QED BY <1>1, PipeStart, PipeArrives, PTL DEF PipeSpec
=============================================================================
