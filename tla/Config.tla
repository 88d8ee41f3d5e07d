------------------------------- MODULE Config -------------------------------
(***************************************************************************)
(* internal/config and internal/resolve: from a YAML file to the           *)
(* configuration the other modules start from.                             *)
(*                                                                         *)
(* yaml.v3 hands over a tree of nodes.  A node keeps what the decoder      *)
(* looks at: its kind, its text (the anchor of an alias, nothing for a     *)
(* collection), the pairs of a mapping in their order (yaml.v3 does not    *)
(* refuse a key that comes twice), the items of a sequence.  A file is the *)
(* sequence of its documents.                                              *)
(*                                                                         *)
(* A decoder returns the set of its results: one, or none when it returns  *)
(* an error.  It walks over the pairs of a mapping, and every pair gives a *)
(* part of the result.  Blocks of an organization and of a repository are  *)
(* decoded alike, but for the visibility of an entry; the level says which *)
(* of the twin functions is meant.                                         *)
(***************************************************************************)
EXTENDS Plan, Sequences, FiniteSets, Functions

CONSTANTS
  Names,        \* the names of entries, sorted
  Owners,       \* the owners a file may have sections for
  Texts,        \* the texts of keys and scalars
  MaxDepth,     \* bound: how deep the nodes of a file are nested
  Environment,  \* what each environment variable holds, or Unset
  Files,        \* what the file at each path holds, or Unset
  BaseDir,      \* the directory of the YAML file
  Rooted,       \* the absolute ones of the paths
  Unparsable    \* a file that is no YAML

ASSUME NamesAssumption == Keys = Kinds \X DOMAIN Names

ASSUME DepthAssumption == MaxDepth \in Nat

\* A value may be any text, and so may the name of a repository.
ASSUME TextsAssumption == Texts \subseteq Values \cap RepoNames

ASSUME SourcesAssumption ==
  /\ Environment \in [Texts -> Values \cup {Unset}]
  /\ Files \in [{BaseDir, "/"} \X Texts -> Values \cup {Unset}]

Scalar(text)   == [kind |-> "scalar",   text |-> text,   pairs |-> <<>>,  items |-> <<>>]
Mapping(pairs) == [kind |-> "mapping",  text |-> "",     pairs |-> pairs, items |-> <<>>]
List(items)    == [kind |-> "sequence", text |-> "",     pairs |-> <<>>,  items |-> items]
Alias(anchor)  == [kind |-> "alias",    text |-> anchor, pairs |-> <<>>,  items |-> <<>>]

\* The nodes that files are made of.
Node(nodes) == [kind : {"scalar", "mapping", "sequence", "alias"}, text : Texts,
                pairs : Seq(Texts \X nodes), items : Seq(nodes)]

Nodes ==
  LET Trees[depth \in 0..MaxDepth] == IF depth = 0 THEN {} ELSE Node(Trees[depth - 1])
  IN Trees[MaxDepth]

-----------------------------------------------------------------------------
(* Decoding.                                                               *)

Refused == {}

\* The part of a result that one key gives.
As(key, results) == {[x \in {key} |-> r] : r \in results}

\* What came before, and the part on top of it.
Over(part, got) ==
  [x \in DOMAIN got \cup DOMAIN part |-> IF x \in DOMAIN part THEN part[x] ELSE got[x]]

\* One part after the other; the first error ends it.
Collect(zero, parts) ==
  LET got[i \in 0..Len(parts)] ==
        IF i = 0 THEN {zero} ELSE {Over(p, g) : p \in parts[i], g \in got[i - 1]}
  IN got[Len(parts)]

\* The loop every decoder has.
Decode(n, zero, Part(_, _)) ==
  IF n.kind # "mapping" THEN Refused
  ELSE Collect(zero, [i \in DOMAIN n.pairs |-> Part(n.pairs[i][1], n.pairs[i][2])])

\* Fault: an absolute path is taken for a relative one.
AbsPathJoined(text) == <<BaseDir, text>>

\* A path is absolute, or relative to the directory of the YAML file.
AbsPath(text) == IF text \in Rooted THEN <<"/", text>> ELSE <<BaseDir, text>>

IsText(n) == n.kind = "sequence" /\ \A i \in DOMAIN n.items : n.items[i].kind = "scalar"

DecodeStringList(n) == IF IsText(n) THEN {[i \in DOMAIN n.items |-> n.items[i].text]} ELSE Refused

\* "repo" is the model's word for no visibility.
BlankEntry(level) ==
  [hasValue |-> FALSE, value |-> "", env |-> "", file |-> "", fileAbs |-> <<"", "">>,
   vis |-> IF level = "org" THEN "all" ELSE "repo", repos |-> <<>>]

EntryPart(level, key, v) ==
  CASE key = "value" -> {[hasValue |-> TRUE, value |-> v.text]}
    [] key = "env"   -> {[env |-> v.text]}
    [] key = "file"  -> {IF v.text = "" THEN [file |-> ""]
                         ELSE [file |-> v.text, fileAbs |-> AbsPath(v.text)]}
    [] key = "scope" /\ level = "org" -> {[vis |-> v.text]}
    [] key = "repos" /\ level = "org" -> As("repos", DecodeStringList(v))
    [] OTHER -> Refused

\* Fault: an explicit empty value does not count.
ValidSourcesByText(e) == Cardinality({s \in {"value", "env", "file"} : e[s] # ""}) = 1

\* Exactly one of value, env and file; only a value may be empty.
ValidSources(e) ==
  Cardinality({s \in {"value", "env", "file"} :
                 IF s = "value" THEN e.hasValue ELSE e[s] # ""}) = 1

ValidVisibility(e) == /\ e.vis \in Visibilities
                      /\ e.vis = "selected" <=> e.repos # <<>>

DecodeEntry(level, n) ==
  {e \in Decode(n, BlankEntry(level), LAMBDA key, v : EntryPart(level, key, v)) :
     ValidSources(e) /\ (level = "org" => ValidVisibility(e))}

\* An empty map.
Nothing == [x \in {} |-> None]

DecodeEntries(level, n) == Decode(n, Nothing, LAMBDA name, v : As(name, DecodeEntry(level, v)))

NoEntries == [kind \in Kinds |-> Nothing]
NoLists   == [kind \in Kinds |-> <<>>]

DecodeManaged(level, n) ==
  Decode(n, NoEntries,
         LAMBDA kind, v : IF kind \in Kinds THEN As(kind, DecodeEntries(level, v)) ELSE Refused)

DecodeIgnored(n) ==
  Decode(n, NoLists,
         LAMBDA kind, v : IF kind \in Kinds THEN As(kind, DecodeStringList(v)) ELSE Refused)

\* Fault: only the variables are compared.
NoConflictOfVars(b) == Range(b.ignored["vars"]) \cap DOMAIN b.managed["vars"] = {}

\* No name of a section is both managed and ignored.
NoConflict(b) == \A kind \in Kinds : Range(b.ignored[kind]) \cap DOMAIN b.managed[kind] = {}

BlockPart(level, key, v) == CASE key = "managed" -> As(key, DecodeManaged(level, v))
                              [] key = "ignored" -> As(key, DecodeIgnored(v))
                              [] OTHER -> Refused

\* decodeRepo and decodeOrgScope.
DecodeBlock(level, n) ==
  {b \in Decode(n, [managed |-> NoEntries, ignored |-> NoLists],
                LAMBDA key, v : BlockPart(level, key, v)) : NoConflict(b)}

\* The blocks of an owner, by their key and, under `per-repo`, by the repository.
\* A second block replaces the first one; sections `per-repo` are merged.
OwnerPart(key, v) ==
  CASE key \in {"org", "all-repos"} ->
         As(<<key, "">>, DecodeBlock(IF key = "org" THEN "org" ELSE "repo", v))
    [] key = "per-repo" -> Decode(v, Nothing, LAMBDA r, b : As(<<key, r>>, DecodeBlock("repo", b)))
    [] OTHER -> Refused

DecodeOrg(n) == Decode(n, Nothing, OwnerPart)

\* The first document counts, and of it the first section github.com; an empty
\* file has no document, and its root no kind.
LoadBytes(content) ==
  IF content = Unparsable \/ content = <<>> THEN Refused
  ELSE LET root  == content[1]
           found == {i \in DOMAIN root.pairs : root.pairs[i][1] = "github.com"}
           first == CHOOSE i \in found : \A j \in found : i <= j
       IN CASE root.kind # "mapping" -> Refused
            [] root.kind = "mapping" /\ found = {} -> {Nothing}
            [] root.kind = "mapping" /\ found # {} ->
                 Decode(root.pairs[first][2], Nothing, LAMBDA owner, v : As(owner, DecodeOrg(v)))

-----------------------------------------------------------------------------
(* Resolving.                                                              *)

\* FileAbs is there whenever File is.
Resolve(e) == CASE e.hasValue                      -> e.value
                [] ~e.hasValue /\ e.file # ""      -> Files[e.fileAbs]
                [] ~e.hasValue /\ e.file = ""      -> Environment[e.env]

NameOf(k) == Names[k[2]]

SettledEntry(e) == [val |-> Resolve(e), vis |-> e.vis, repos |-> Range(e.repos)]

SettledBlock(b) ==
  [managed |-> [k \in Keys |-> IF NameOf(k) \in DOMAIN b.managed[Kind(k)]
                               THEN SettledEntry(b.managed[Kind(k)][NameOf(k)]) ELSE None],
   ignored |-> {k \in Keys : NameOf(k) \in Range(b.ignored[Kind(k)])}]

BlockOf(o, section) == IF section \in DOMAIN o THEN SettledBlock(o[section]) ELSE None

\* The section of an owner as the runner uses it: a configuration of Plan.
Settled(o) == [org |-> BlockOf(o, <<"org", "">>), all |-> BlockOf(o, <<"all-repos", "">>),
               per |-> [r \in Repos |-> BlockOf(o, <<"per-repo", r>>)]]

-----------------------------------------------------------------------------
(* What a file says, read without order: the properties are stated with    *)
(* this.  A path leads to a set of nodes, for a key may come twice.        *)

Children(n) == {n.pairs[i][2] : i \in DOMAIN n.pairs}

KeysOf(n) == {n.pairs[i][1] : i \in DOMAIN n.pairs}

TextsIn(l) == {l.items[i].text : i \in DOMAIN l.items}

Under(nodes, key) ==
  UNION {{n.pairs[i][2] : i \in {j \in DOMAIN n.pairs : n.pairs[j][1] = key}} : n \in nodes}

\* Nothing comes twice, nothing is an alias, and what should be text is.
IsPlainHere(n) ==
  /\ n.kind # "alias"
  /\ \A i, j \in DOMAIN n.pairs : n.pairs[i][1] = n.pairs[j][1] => i = j
  /\ \A i \in DOMAIN n.pairs :
       n.pairs[i][1] \in {"value", "env", "file", "scope"} => n.pairs[i][2].kind = "scalar"

NextLevel(nodes) == UNION {Children(n) : n \in nodes}

\* As deep as the decoders look: owners, layers, repositories, sections, kinds,
\* names, and the keys of an entry.
IsPlain(gh) ==
  LET owners  == NextLevel({gh})
      layers  == NextLevel(owners)
      blocks  == NextLevel(layers)
      parts   == NextLevel(blocks)
      kinds   == NextLevel(parts)
      entries == NextLevel(kinds)
  IN \A n \in {gh} \cup owners \cup layers \cup blocks \cup parts \cup kinds \cup entries : IsPlainHere(n)

IsMapping(n, keys) == n.kind = "mapping" /\ KeysOf(n) \subseteq keys

TextAt(n, field) == LET found == Under({n}, field)
                    IN IF found = {} THEN "" ELSE (CHOOSE v \in found : TRUE).text

SourcesIn(n) == (KeysOf(n) \cap {"value"}) \cup {s \in {"env", "file"} : TextAt(n, s) # ""}

EntryMakesSense(level, n) ==
  /\ IsMapping(n, {"value", "env", "file"} \cup IF level = "org" THEN {"scope", "repos"} ELSE {})
  /\ \E source \in {"value", "env", "file"} : SourcesIn(n) = {source}
  /\ "scope" \in KeysOf(n) => TextAt(n, "scope") \in Visibilities
  /\ \A l \in Under({n}, "repos") : IsText(l)
  /\ TextAt(n, "scope") = "selected" <=> \E l \in Under({n}, "repos") : l.items # <<>>

ManagedMakesSense(level, n) ==
  /\ IsMapping(n, Kinds)
  /\ \A entries \in Children(n) :
       entries.kind = "mapping" /\ \A e \in Children(entries) : EntryMakesSense(level, e)

IgnoredMakesSense(n) == IsMapping(n, Kinds) /\ \A l \in Children(n) : IsText(l)

\* What stands in the lists of ignored names of a kind.
IgnoredTexts(nodes, kind) == UNION {TextsIn(l) : l \in Under(Under(nodes, "ignored"), kind)}

BlockMakesSense(level, n) ==
  /\ IsMapping(n, {"managed", "ignored"})
  /\ \A section \in Under({n}, "managed") : ManagedMakesSense(level, section)
  /\ \A section \in Under({n}, "ignored") : IgnoredMakesSense(section)
  /\ \A kind \in Kinds : \A text \in IgnoredTexts({n}, kind) :
       Under(Under(Under({n}, "managed"), kind), text) = {}

OwnerMakesSense(n) ==
  /\ IsMapping(n, {"org", "all-repos", "per-repo"})
  /\ \A b \in Under({n}, "org") : BlockMakesSense("org", b)
  /\ \A b \in Under({n}, "all-repos") : BlockMakesSense("repo", b)
  /\ \A per \in Under({n}, "per-repo") :
       per.kind = "mapping" /\ \A b \in Children(per) : BlockMakesSense("repo", b)

\* Other sections of the file are not looked at.
MakesSense(root) ==
  /\ root.kind = "mapping"
  /\ \A gh \in Under({root}, "github.com") :
       gh.kind = "mapping" /\ \A o \in Children(gh) : OwnerMakesSense(o)

EntryRead(level, nodes) ==
  IF nodes = {} THEN None
  ELSE LET n == CHOOSE v \in nodes : TRUE
           path == TextAt(n, "file")
       IN [val   |-> IF "value" \in KeysOf(n) THEN TextAt(n, "value")
                     ELSE IF path = "" THEN Environment[TextAt(n, "env")]
                     ELSE IF path \in Rooted THEN Files[<<"/", path>>]
                     ELSE Files[<<BaseDir, path>>],
           vis   |-> IF level = "repo" THEN "repo"
                     ELSE IF "scope" \in KeysOf(n) THEN TextAt(n, "scope") ELSE "all",
           repos |-> UNION {TextsIn(l) : l \in Under({n}, "repos")}]

BlockRead(level, nodes) ==
  IF nodes = {} THEN None
  ELSE [managed |-> [k \in Keys |->
                       EntryRead(level, Under(Under(Under(nodes, "managed"), Kind(k)), NameOf(k)))],
        ignored |-> {k \in Keys : NameOf(k) \in IgnoredTexts(nodes, Kind(k))}]

Reading(nodes) == [org |-> BlockRead("org", Under(nodes, "org")),
                   all |-> BlockRead("repo", Under(nodes, "all-repos")),
                   per |-> [r \in Repos |-> BlockRead("repo", Under(Under(nodes, "per-repo"), r))]]

=============================================================================
