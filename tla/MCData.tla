------------------------------ MODULE MCData --------------------------------
(***************************************************************************)
(* Data that is read, converted and copied on its way, in four scenes: the *)
(* bundles and sources of a configuration, the values of a document, the   *)
(* events of a turn, and the files of a workspace.                         *)
(***************************************************************************)
EXTENDS ConfigBundle, ConfigValues, EventPipe, ToolCalls, MCWorkspaces

----------------------------------------------------------------------------
(* Bundles of up to six files whose sources reach into each other, archives *)
(* with one odd entry, and plain sources with two skills.                   *)

MCUnsafe == {"x\\y", "C:x"}
MCYaml == {"a.yaml", "m.yaml", "x.yaml", "y.yaml"}

Md == SKILL_MARKDOWN_FILE
Skill(id, path) == <<Doc("Skill", id, None, Some(path))>>
Conn == <<Doc("Connection", "c", None, None)>>
Junk == <<Doc("junk", "", None, None)>>
Words == <<Doc("text", "", None, None)>>
Blanks == <<Doc("null", "", None, None)>>
Set == <<Doc("AgentspaceConfig", "set", None, None)>>
Bodiless == <<Doc("Skill", "o", None, None)>>
Absent == <<Doc("absent", "", None, None)>>

A == <<"config", "a.yaml">>
X == <<"config", "s", "x.yaml">>
Y == <<"config", "t", "y.yaml">>
Root == <<"m.yaml">>
SMd == <<"config", "s", "SKILL.md">>
RootMd == <<"SKILL.md">>

Texts(p) ==
  CASE p = A -> {Absent, Conn, Skill("k", <<"s">>), Skill("k", <<".", "t">>), Set}
    [] p = X -> {Absent, Junk, Conn, Skill("x", <<"..", "t">>)}
    [] p = Y -> {Absent, Junk, Conn, Skill("y", <<"..", "s">>), Blanks}
    [] p = Root -> {Absent, Conn, Bodiless, Skill("k", <<".">>), Skill("m", <<"config", "s", "SKILL.md">>),
                 Skill("m", <<"config", "s", "x.yaml">>), Skill("m", <<"..", "s">>), Skill("m", <<"", "s">>)}
    [] p = SMd -> {Absent, Words}
    [] p = RootMd -> {Words}

Entry(p, text) == [name |-> p, mode |-> "file", size |-> 1, utf8 |-> TRUE, text |-> text]
Files == <<RootMd, A, SMd, X, Y, Root>>
Archive(f) == SelectSeq([i \in 1..6 |-> Entry(Files[i], f[i])], LAMBDA e : e.text # Absent)
Bundle(archive) == [form |-> "bundle", archive |-> archive, docs |-> <<>>]

Bundles == {Bundle(Archive(<<r, a, s, x, y, m>>)) :
              r \in Texts(RootMd), a \in Texts(A), s \in Texts(SMd), x \in Texts(X), y \in Texts(Y), m \in Texts(Root)}

Minimal == <<Entry(RootMd, Words), Entry(Root, Skill("k", <<".">>))>>
OddEntries ==
  {[Entry(<<"config", ".", "s", "", "SKILL.md">>, Words) EXCEPT !.size = n] : n \in 1..3}
    \cup {Entry(n, Words) : n \in {<<".", "m.yaml">>, <<"..", "up">>, <<"", "abs">>, <<"x\\y">>, <<"C:x">>, <<".">>}}
    \cup {[Entry(<<"d">>, Words) EXCEPT !.mode = "dir"], [Entry(<<"d">>, Words) EXCEPT !.mode = "symlink"],
          [Entry(<<"d">>, Words) EXCEPT !.utf8 = FALSE]}
OddBundles == {Bundle(Append(Minimal, e)) : e \in OddEntries}
                \cup {Bundle(<<e>> \o Minimal) : e \in OddEntries}
                \cup {Bundle(Minimal \o <<Entry(<<"d">>, Words), Entry(A, Conn), Entry(SMd, Words), Entry(X, Words), Entry(Y, Words)>>)}

Volume(id, mount) == [id |-> id, mount |-> mount]
Declares(volumes) == <<Metadata(1, volumes)>>
MetadataTexts == {Words, <<Metadata(2, <<>>)>>, Declares(<<Volume("v", <<"data">>)>>),
                  Declares(<<Volume("v", <<"data">>), Volume("v", <<"more">>)>>),
                  Declares(<<Volume("v", <<"data">>), Volume("w", <<"data">>)>>),
                  Declares(<<Volume("v", <<"skills", "x">>)>>), Declares(<<Volume("v", <<"">>)>>)}
FileMaps ==
  {[p \in ps |-> IF p = <<"a">> THEN Junk ELSE Words] :
      ps \in {ps \in SUBSET {Md, <<"a">>, <<"a", "b">>, <<".", "a">>, <<"a", ".">>, <<"..", "x">>, <<"x\\y">>, <<"", "a">>, <<".">>} :
                Cardinality(ps) \in 1..3}}
  \cup {(Md :> Words) @@ (SKILL_METADATA_FILE :> t) : t \in MetadataTexts}
Inline(id, files) == Doc("Skill", id, Some(files), None)
Plain2 == (Md :> Words) @@ (SKILL_METADATA_FILE :> Declares(<<Volume("v", <<"data">>)>>))
YamlSources ==
  {[form |-> "yaml", archive |-> <<>>, docs |-> <<Inline(id, f), Inline("k", Plain2)>>] :
      id \in {"k", "l", "Bad"}, f \in FileMaps}
  \cup {[form |-> "yaml", archive |-> <<>>, docs |-> d] :
          d \in {Blanks, Conn \o Set, Skill("k", <<"s">>), <<Doc("Skill", "k", Some(Plain2), Some(<<"s">>))>>,
                 <<Doc("AgentspaceConfig", "k", Some(Plain2), None)>> \o Conn}}

MCSources == Bundles \cup OddBundles \cup YamlSources
MCPaths == <<<<".">>, <<"..", "x">>, <<".", "a">>, <<"", "a">>, RootMd, <<"a">>, <<"a", ".">>, <<"a", "b">>,
             SKILL_METADATA_FILE, A, SMd, X, Y, <<"d">>, Root, <<"x.yaml">>, <<"x\\y">>, <<"y.yaml">>>>

----------------------------------------------------------------------------
(* Documents with every kind of value, and edits of each record.            *)

Plainly(v) == Lit(Str(v))
Quoted(v) == Lit([Str(v) EXCEPT !.quoted = TRUE])
Lines(v) == Lit([Str(v) EXCEPT !.more = <<Line("M", Str("m"))>>])
Says(k, v) == Line(k, Str(v))
MapEnvs == {Env(Some(m), None) : m \in {"COPILOT_MODEL" :> Ref("S"), ("B" :> Ref("T")) @@ ("COPILOT_MODEL" :> Quoted("c")),
              "KERNEL_ACP_MODEL_NAME" :> Lines("k"),
              ("AGENTSPACE_AGENT_ID" :> Plainly("z")) @@ ("CONNECTION_URL" :> Plainly("z"))}}
TextEnvs == {Env(None, Some(t)) : t \in {<<Says("COPILOT_MODEL", "a"), Line("COPILOT_MODEL", [Str("b") EXCEPT !.quoted = TRUE])>>,
              <<Says("", "#"), Says("KERNEL_ACP_MODEL_NAME", "c")>>}}
OfKernel == Env(Some(("B" :> Ref("S")) @@ ("CONNECTION_API_FLAVOR" :> Plainly("n"))), None)
OfCli == Env(Some(("COPILOT_MODEL" :> Plainly("n"))), None)
MCDocuments == {[url |-> u[1], flavor |-> Str("chat"), prompt |-> u[2], key |-> k, agentEnv |-> a,
                 kernelEnv |-> IF k = None THEN None ELSE Some(OfKernel), cliEnv |-> IF k = None THEN Some(OfCli) ELSE None,
                 gatewayEnv |-> g, gatewaySecrets |-> s] :
  u \in {<<Plainly("u"), Ref("S")>>, <<Ref("S"), Plainly("")>>}, k \in {None, Some(Plainly("k")), Some(Ref("T"))},
  a \in MapEnvs \cup TextEnvs,
  g \in {Env(Some(("B" :> Ref("S")) @@ ("M" :> Plainly("g"))), None)}, s \in {("B" :> Plainly("s")) @@ ("T" :> Ref("T"))}}
MCRequests == {[NoEdit EXCEPT !.what = "agent", !.prompt = Some(Str("q"))], [NoEdit EXCEPT !.what = "agent", !.prompt = Some(Empty)],
  [NoEdit EXCEPT !.what = "agent", !.env = Some(<<Says("COPILOT_MODEL", "e")>>)], [NoEdit EXCEPT !.what = "agent", !.env = Some(<<Says("", "")>>), !.prompt = Some(Str("q"))],
  [NoEdit EXCEPT !.what = "connection", !.url = Some(Str("w"))], [NoEdit EXCEPT !.what = "connection", !.url = Some(Empty), !.key = Some(Str("l"))],
  [NoEdit EXCEPT !.what = "connection", !.flavor = Some(Str("responses"))],
  [NoEdit EXCEPT !.what = "connection", !.secret = Some(Some("S"))], [NoEdit EXCEPT !.what = "connection", !.secret = Some(None)],
  [NoEdit EXCEPT !.what = "gateway", !.secrets = Some("B" :> Str("x"))], [NoEdit EXCEPT !.what = "gateway", !.secrets = Some("T" :> Str("x"))],
  [NoEdit EXCEPT !.what = "gateway", !.env = Some(<<Says("M", "h")>>)],
  [NoEdit EXCEPT !.what = "kernel", !.env = Some(<<Says("CONNECTION_URL", "n")>>)],
  [NoEdit EXCEPT !.what = "cli", !.env = Some(<<Says("COPILOT_MODEL", "n")>>)], [NoEdit EXCEPT !.what = "kernel", !.env = Some(<<>>)]}

----------------------------------------------------------------------------
(* Turns of either style: one is cut anywhere, two have every event.        *)

Said(s) == <<"string", s>>
MCLegacy == {Text(Said(<<"a">>)), Text(Said(<<" ">>)), LegacyCall("t", Some(Said(<<"i">>))), LegacyCall("u", None),
             LegacyResult("t", Some(<<"o">>)), LegacyResult("t", None), Failure(<<"e">>)}
Block(s) == <<"text", s>>
MCAcp == {Text(<<"array", <<Block(<<" ">>), <<"content", Block(<<"a">>)>>>>>>),
          [Update(Some("1"), "t", "run", <<"terminal">>, <<>>) EXCEPT !.rawInput = Some(Said(<<"i">>))],
          [Update(Some("1"), "", "done", <<"none">>, <<"d">>) EXCEPT !.rawInput = Some(<<"null">>)],
          Update(Some("1"), "", "", Said(<<"o">>), <<>>),
          [Update(Some("1"), "", "", Said(<<"p">>), <<"q">>) EXCEPT !.rawOutput = Some(Said(<<>>))],
          [Update(Some("1"), "u", "", Said(<<"p">>), <<>>) EXCEPT !.rawOutput = Some(<<"null">>)],
          [Update(Some("2"), "", "", Said(<<"p">>), <<"q">>) EXCEPT !.rawOutput = Some(<<"array", <<>>>>)],
          Update(None, "", "run", <<"other">>, <<>>),
          Failure(<<"e">>)}
MCTurns == {[events |-> {Text(Said(<<"a">>)), LegacyCall("t", None)}, lines |-> 3, odd |-> 1, flight |-> 4, cuts |-> TRUE],
            [events |-> MCLegacy, lines |-> 4, odd |-> 0, flight |-> 1, cuts |-> FALSE],
            [events |-> MCAcp, lines |-> 4, odd |-> 0, flight |-> 1, cuts |-> FALSE]}

----------------------------------------------------------------------------
VARIABLE scene

Scenes == {"bundle", "values", "events", "workspaces"}

\* where a part stands still while another's scene is played
BundleIdle == BundleBegin(Bundle(Minimal))
ValuesIdle == ValuesBegin(CHOOSE d \in MCDocuments : TRUE)
PipeIdle == PipeBegin(CHOOSE t \in MCTurns : TRUE)
WorkspacesIdle == WorkspacesBegin([w \in Ids |-> NoRow], [w \in Ids |-> NoVolume])

DataInit ==
  /\ scene \in Scenes
  /\ IF scene = "bundle" THEN BundleInit ELSE BundleIdle
  /\ IF scene = "values" THEN ValuesInit ELSE ValuesIdle
  /\ IF scene = "events" THEN PipeInit ELSE PipeIdle
  /\ IF scene = "workspaces" THEN Init ELSE WorkspacesIdle

DataNext ==
  /\ \/ scene = "bundle" /\ BundleNext /\ UNCHANGED <<valueVars, pipeVars, vars>>
     \/ scene = "values" /\ ValuesNext /\ UNCHANGED <<bundleVars, pipeVars, vars>>
     \/ scene = "events" /\ PipeNext /\ UNCHANGED <<bundleVars, valueVars, vars>>
     \/ scene = "workspaces" /\ Next /\ UNCHANGED <<bundleVars, valueVars, pipeVars>>
  /\ UNCHANGED scene

DataSpec == DataInit /\ [][DataNext]_<<scene, bundleVars, valueVars, pipeVars, vars>>

Failed(events) == \E i \in DOMAIN events : events[i].type = "session/error"

\* The tool calls that assistant_message_from_events rebuilds from all events at each
\* new one are, whatever order calls, updates, deltas and results come in: one per call
\* in the order they were opened, with the last title and status said of it, the last raw
\* input, the last full output (a raw output before the content beside it) and every delta
\* since, each legacy result in the oldest call of its tool
\* that has none; and each at the place in the text where it happened, which later text
\* does not move.  (After a session/error the text has the error and the places do not
\* count it, so the property is about the events before one.)
ToolCallsMatch ==
  LET events == [i \in DOMAIN got |-> written[got[i]].event]
      message == assistant_message_from_events(events)
  IN  ~Failed(events) =>
        /\ message.tool_calls = CallsOf(events)
        /\ \A n \in 0..Len(events) :
             IsPrefix(flatten_text(SubSeq(events, 1, n)), message.content)
=============================================================================
