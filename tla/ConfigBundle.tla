---------------------------- MODULE ConfigBundle ----------------------------
(***************************************************************************)
(* From the bytes a user submits to skills on agent_host's shelf: a YAML   *)
(* source or a zip bundle is read into one document, the skills of the     *)
(* document are validated, and agent_host writes each into a directory.    *)
(*                                                                         *)
(* A path is the sequence of its segments: <<"a", "b">> is a/b, an empty   *)
(* first segment makes it absolute, "" and "." stand for themselves.  A    *)
(* failure is <<>> and a result x is <<x>>.                                *)
(***************************************************************************)
EXTENDS Options, SequencesExt, FiniteSetsExt, Functions, Integers, TLC

CONSTANTS
  Sources,       \* what may be submitted: [form |-> "yaml", docs] or [form |-> "bundle", archive]
  Paths,         \* every path that occurs, raw or normalised, in the byte order of its text
  Yaml,          \* the last segments that end in .yaml or .yml
  Unsafe,        \* the segments with a backslash or a drive letter
  GoodIds,       \* the skill ids of lower case letters, digits and single dashes
  MaxEntries, MaxEntryBytes, MaxTotalBytes

VARIABLES
  source,        \* the submitted source
  stage,         \* submitted, loaded, validated or refused
  document,      \* the name and the resources read from it
  shelf          \* agent_host's answer to the skills it was given: a tree of files, or a failure

bundleVars == <<source, stage, document, shelf>>

\* one YAML document, or any other text: its kind, identity, inline files and source path;
\* the text of a file is a sequence of them
Doc(kind, id, files, path) == [kind |-> kind, id |-> id, files |-> files, path |-> path]
\* what a skill may declare in its agentspace.json: <<id, mount path>> of its volumes
Metadata(version, volumes) == [kind |-> "metadata", version |-> version, volumes |-> volumes]

SKILL_MARKDOWN_FILE == <<"SKILL.md">>
SKILL_METADATA_FILE == <<"agentspace.json">>
MANIFEST_DIR == "config"
RESERVED_MOUNT_PATHS == {<<"workspace">>, <<"root", ".copilot">>, <<"mnt", "all-skills">>,
                         <<"skills">>, <<"root", ".config", "opencode", "skills">>}

InOrder(set) == SelectSeq(Paths, LAMBDA p : p \in set)

----------------------------------------------------------------------------
(* Paths.                                                                   *)

Blank(segment) == segment \in {"", "."}
Plain(path) == SelectSeq(path, LAMBDA s : ~Blank(s))

reject_unsafe_name(name) == ~(\E i \in DOMAIN name : name[i] \in Unsafe) /\ name[1] # ""
normalize_entry_path(name) ==
  IF ".." \in Range(name) \/ Plain(name) = <<>> THEN None ELSE Some(Plain(name))

is_candidate_manifest(path) ==
  Last(path) \in Yaml /\ (Len(path) = 1 \/ path[1] = MANIFEST_DIR)
parent_dir(path) == Front(path)

\* Mutant: a source that names an exact file does not cover that file.
is_within_strictly(path, dir) == dir # <<>> /\ dir # path /\ IsPrefix(dir, path)
\* the root of the bundle never excludes a manifest
is_within(path, dir) == dir # <<>> /\ IsPrefix(dir, path)

\* ".." takes back a segment, also one of base, but never climbs out of the bundle
resolve_relative(base, path) ==
  LET step(acc, s) == IF acc = None \/ Blank(s) THEN acc
                      ELSE IF s # ".." THEN Some(Append(Only(acc), s))
                      ELSE IF Only(acc) = <<>> THEN None ELSE Some(Front(Only(acc)))
  IN  IF path[1] = "" THEN None ELSE FoldLeft(step, Some(<<>>), base \o path)

----------------------------------------------------------------------------
(* Reading the archive.                                                     *)

\* one more entry of the archive; the limits are on the bytes that come out of it
read_entry(acc, e) ==
  IF acc = None \/ ~reject_unsafe_name(e.name) \/ e.mode = "symlink" \/ ".." \in Range(e.name)
  THEN None
  ELSE IF e.mode = "dir" THEN acc
  ELSE LET path == normalize_entry_path(e.name)
           total == Only(acc).total + e.size
       IN  IF \/ path = None \/ e.size > MaxEntryBytes \/ total > MaxTotalBytes
              \/ ~e.utf8 \/ Only(path) \in DOMAIN Only(acc).files
           THEN None
           ELSE Some([files |-> Only(acc).files @@ (Only(path) :> e.text), total |-> total])

read_entries(archive) ==
  IF Len(archive) > MaxEntries THEN None
  ELSE LET read == FoldLeft(read_entry, Some([files |-> <<>>, total |-> 0]), archive)
       IN  IF read = None THEN None ELSE Some(Only(read).files)

----------------------------------------------------------------------------
(* Documents.                                                               *)

Resource(kind, id, files) == [kind |-> kind, id |-> id, files |-> files]

\* the paths that the skills of a source name
Named(docs) == {Only(d.path) : d \in {x \in Range(docs) : x.kind = "Skill" /\ x.path # None}}

\* a skill has its files inline or a path, found by the resolver of the source, never both
parse_skill(doc, found) ==
  CASE doc.files # None /\ doc.path = None -> doc.files
    [] doc.files = None /\ doc.path # None -> found[Only(doc.path)]
    [] OTHER -> None

\* what the accumulator holds after one more document; "junk" is text that is no manifest,
\* "other" a document of an unsupported kind or version
merge_document(acc, doc, found) ==
  IF acc = None \/ doc.kind = "null" THEN acc
  ELSE CASE doc.kind = "AgentspaceConfig" ->
              \* the aggregate names the set; its skills are inline only
              Some([name |-> Some(doc.id),
                    spec |-> IF doc.files = None THEN Only(acc).spec
                             ELSE Append(Only(acc).spec, Resource("Skill", doc.id, Only(doc.files)))])
         [] doc.kind = "Skill" ->
              LET files == parse_skill(doc, found)
              IN  IF files = None THEN None
                  ELSE Some([Only(acc) EXCEPT !.spec = Append(@, Resource("Skill", doc.id, Only(files)))])
         [] doc.kind = "Connection" ->
              Some([Only(acc) EXCEPT !.spec = Append(@, Resource("Connection", doc.id, <<>>))])
         [] OTHER -> None

merge_source(acc, docs, found) ==
  FoldLeft(LAMBDA a, d : merge_document(a, d, found), acc, docs)

Fresh == Some([name |-> None, spec |-> <<>>])

check_duplicate_ids(spec) ==
  \A i, j \in DOMAIN spec : (spec[i].kind = spec[j].kind /\ spec[i].id = spec[j].id) => i = j

finish(acc) ==
  IF acc = None \/ acc = Fresh THEN None
  ELSE IF check_duplicate_ids(Only(acc).spec) THEN acc ELSE None

\* a plain source cannot expand a path
load_yaml(docs) == finish(merge_source(Fresh, docs, [p \in Named(docs) |-> None]))

----------------------------------------------------------------------------
(* Bundles.                                                                 *)

\* the places its skills name, or nothing when the text is no manifest
declared_source_dirs(docs, base) ==
  LET found == [p \in Named(docs) |-> IF resolve_relative(base, p) = None THEN None ELSE Some(<<>>)]
  IN  IF merge_source(Fresh, docs, found) = None THEN None
      ELSE Some({Only(resolve_relative(base, p)) : p \in Named(docs)})

Covered(path, dirs) == \E d \in dirs : is_within(path, d)

\* one round over the candidates in order: what one declares already excludes later ones
Round(files, candidates, dirs) ==
  LET step(known, p) ==
        LET declared == declared_source_dirs(files[p], parent_dir(p))
        IN  IF Covered(p, known) \/ declared = None THEN known ELSE known \cup Only(declared)
  IN  FoldLeft(step, dirs, InOrder(candidates))

RECURSIVE Grown(_, _, _)
Grown(files, candidates, dirs) ==
  LET next == Round(files, candidates, dirs)
  IN  IF next = dirs THEN dirs ELSE Grown(files, candidates, next)

\* a candidate that no place excludes has to be a manifest
discover_source_dirs(files, candidates) ==
  LET dirs == Grown(files, candidates, {})
  IN  IF \E p \in candidates : /\ ~Covered(p, dirs)
                               /\ declared_source_dirs(files[p], parent_dir(p)) = None
      THEN None ELSE Some(dirs)

\* a file under its own name, or everything under a directory but the manifests
expand_source(files, manifests, base, path) ==
  LET place == resolve_relative(base, path)
      under == {p \in DOMAIN files \ manifests : IsPrefix(Only(place), p)}
      rest(p) == SubSeq(p, Len(Only(place)) + 1, Len(p))
  IN  IF place = None THEN None
      ELSE IF Only(place) \in DOMAIN files
      THEN Some(<<Last(Only(place))>> :> files[Only(place)])
      ELSE IF under = {} THEN None
      ELSE Some([q \in {rest(p) : p \in under} |-> files[Only(place) \o q]])

Candidates(files) == {p \in DOMAIN files : is_candidate_manifest(p)}

\* the manifests that are read, none when the bundle is refused
Manifests(files) ==
  LET dirs == discover_source_dirs(files, Candidates(files))
  IN  {p \in Candidates(files) : dirs # None /\ ~Covered(p, Only(dirs))}

merge_manifests(files, manifests) ==
  LET merge(acc, p) ==
        merge_source(acc, files[p], [path \in Named(files[p]) |->
                       expand_source(files, manifests, parent_dir(p), path)])
  IN  IF manifests = {} THEN None ELSE finish(FoldLeft(merge, Fresh, InOrder(manifests)))

\* the document is what the manifests among the entries make, or nothing
load_bundle(archive) ==
  \E entries \in {read_entries(archive)} :
    \/ entries = None /\ document' = None
    \/ \E files \in Range(entries) : \E manifests \in {Manifests(files)} :
         document' = merge_manifests(files, manifests)

----------------------------------------------------------------------------
(* Validation of the skills.                                                *)

\* Mutant: a path may climb.
is_safe_relative_path_climbing(path) ==
  path[1] # "" /\ ~(\E i \in DOMAIN path : path[i] \in Unsafe) /\ Plain(path) # <<>>
is_safe_relative_path(path) ==
  /\ path[1] # "" /\ ~(\E i \in DOMAIN path : path[i] \in Unsafe)
  /\ ".." \notin Range(path) /\ Plain(path) # <<>>

\* path is the segments after the leading slash, or <<"">> for anything not absolute
is_valid_mount_path(path) ==
  /\ path # <<>> /\ \A i \in DOMAIN path : ~Blank(path[i]) /\ path[i] # ".."
  /\ ~\E r \in RESERVED_MOUNT_PATHS : IsPrefix(r, path)

\* the mount paths seen so far, or nothing once an issue was found
validate_volume(seen, v) ==
  IF seen = None \/ ~is_valid_mount_path(v.mount) \/ v.mount \in Only(seen) THEN None
  ELSE Some(Only(seen) \cup {v.mount})

validate_skill_content(seen, files) ==
  LET text == files[SKILL_METADATA_FILE]
      volumes == text[1].volumes
  IN  IF \/ seen = None \/ SKILL_MARKDOWN_FILE \notin DOMAIN files
         \/ \E p \in DOMAIN files : ~is_safe_relative_path(p)
      THEN None
      ELSE IF SKILL_METADATA_FILE \notin DOMAIN files THEN seen
      ELSE IF ~\E d \in Range(text) : d.kind = "metadata" /\ d.version = 1 THEN None
      ELSE IF \E i, j \in DOMAIN volumes : i # j /\ volumes[i].id = volumes[j].id THEN None
      ELSE FoldLeft(validate_volume, seen, volumes)

Skills(spec) == SelectSeq(spec, LAMBDA r : r.kind = "Skill")

validate_skills(spec) ==
  /\ \A i \in DOMAIN Skills(spec) : Skills(spec)[i].id \in GoodIds
  /\ FoldLeft(LAMBDA seen, s : validate_skill_content(seen, s.files), Some({}), Skills(spec)) # None

----------------------------------------------------------------------------
(* agent_host writes a skill.                                               *)

validate_file_path(path) == path[1] # "" /\ ".." \notin Range(path) /\ Plain(path) # <<>>

\* the directories above a file are made first: a file in their place, or a directory in
\* the place of the file, fails the call with what was written so far in place
write_skill_file(files, tree, path) ==
  LET at == Plain(path)
  IN  IF tree = None THEN None
      ELSE IF \E q \in DOMAIN Only(tree) : IsStrictPrefix(q, at) \/ IsStrictPrefix(at, q)
      THEN None
      ELSE Some((at :> files[path]) @@ Only(tree))

write_skill_files(files) ==
  FoldLeft(LAMBDA tree, p : write_skill_file(files, tree, p), Some(<<>>), InOrder(DOMAIN files))

\* read_skill_files returns what is in the tree
create_skill(skill) ==
  IF skill.id \notin GoodIds \/ \E p \in DOMAIN skill.files : ~validate_file_path(p) THEN None
  ELSE write_skill_files(skill.files)

----------------------------------------------------------------------------
(* Actions.                                                                 *)

BundleBegin(submitted) ==
  source = submitted /\ stage = "submitted" /\ document = None /\ shelf = <<>>
BundleInit == \E submitted \in Sources : BundleBegin(submitted)

\* parse_source: the same bytes always give the same document
parse_source ==
  /\ stage = "submitted"
  /\ IF source.form = "yaml" THEN document' = load_yaml(source.docs)
     ELSE load_bundle(source.archive)
  /\ stage' = IF document' = None THEN "refused" ELSE "loaded"
  /\ UNCHANGED <<source, shelf>>

Validate ==
  /\ stage = "loaded"
  /\ stage' = IF validate_skills(Only(document).spec) THEN "validated" ELSE "refused"
  /\ UNCHANGED <<source, document, shelf>>

\* the skills are given to agent_host one after the other
Store ==
  /\ stage = "validated"
  /\ LET skills == Skills(Only(document).spec)
     IN  /\ Len(shelf) < Len(skills)
         /\ shelf' = Append(shelf, create_skill(skills[Len(shelf) + 1]))
  /\ UNCHANGED <<source, stage, document>>

BundleNext == parse_source \/ Validate \/ Store

BundleSpec == BundleInit /\ [][BundleNext]_bundleVars

----------------------------------------------------------------------------
(* Properties.                                                              *)

Loaded == stage \in {"loaded", "validated"} /\ source.form = "bundle"
SourcesOf(files, p) == Only(declared_source_dirs(files[p], parent_dir(p)))

\* the skills that a manifest takes from a place of the bundle, each with that place
Sourced(files, p) == {<<d.id, Only(resolve_relative(parent_dir(p), Only(d.path)))>> :
                        d \in {x \in Range(files[p]) : x.kind = "Skill" /\ x.path # None}}

\* A bundle that is accepted is read the same way from both sides: a manifest that was
\* read parses, is part of no source that a read manifest declares and of no skill; every
\* file of a skill with a source is a file of the bundle, with its text: the one that the
\* source names, or one below it that was not read as a manifest; and a YAML file that
\* could be a manifest and was not read lies under a place that some candidate declared.
BundleIsConsistent ==
  Loaded =>
    \A files \in Range(read_entries(source.archive)) : \A read \in {Manifests(files)} :
      /\ \A p, q \in read : \A d \in SourcesOf(files, q) : ~(d # <<>> /\ IsPrefix(d, p))
      /\ \A p \in read, s \in Range(Only(document).spec), q \in read :
           \A d \in SourcesOf(files, q) :
             (IsPrefix(d, p) /\ s.id \in {x.id : x \in Range(files[q])})
               => SubSeq(p, Len(d) + 1, Len(p)) \notin DOMAIN s.files
      /\ \A q \in read : \A taken \in Sourced(files, q) : \A s \in Range(Skills(Only(document).spec)) :
           s.id = taken[1] => \A f \in DOMAIN s.files :
             \/ taken[2] \o f \in DOMAIN files \ read /\ s.files[f] = files[taken[2] \o f]
             \/ taken[2] \in DOMAIN files /\ f = <<Last(taken[2])>> /\ s.files[f] = files[taken[2]]
      /\ \A p \in Candidates(files) \ read :
           \E q \in Candidates(files) :
             \E dirs \in Range(declared_source_dirs(files[q], parent_dir(q))) :
               \E d \in dirs : IsPrefix(d, p)

\* no two paths of a skill name the same place, or a file and a directory above it
Apart(files) ==
  \A p, q \in DOMAIN files : IsPrefix(Plain(p), Plain(q)) => p = q

\* A skill that passes client_service's validation is one that agent_host accepts and
\* keeps file by file, as long as its paths name different places.
ValidatedIsStored ==
  \A i \in DOMAIN shelf :
    LET files == Skills(Only(document).spec)[i].files
    IN  Apart(files) => /\ shelf[i] # None
                        /\ \A p \in DOMAIN files : Only(shelf[i])[Plain(p)] = files[p]
                        /\ Cardinality(DOMAIN Only(shelf[i])) = Cardinality(DOMAIN files)

\* "validates here is one that `agent_host` will also accept" (skill_validation.rs).  No run
\* checks it: it fails for a skill with a file and a file below it, a and a/b, whose paths
\* are checked one by one, and which agent_host cannot write.
ValidatedIsAccepted == \A i \in DOMAIN shelf : shelf[i] # None
=============================================================================
