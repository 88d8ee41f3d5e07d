----------------------------- MODULE MCCommand ------------------------------
(* Files and invocations for TLC.  Every family of files varies one part and *)
(* keeps the rest, with up to three keys of every sort in every order,       *)
(* doubles included.                                                         *)
EXTENDS Command
LOCAL INSTANCE SequencesExt

TwoNames == <<"A", "B">>
AllKeys  == Kinds \X {1, 2}

V(text) == <<"value", Scalar(text)>>

\* Every text of the files below.
AllTexts ==
  {"", "A", "B", "SET", "UNSET", "all", "all-repos", "all/private/selected", "anchor", "api",
   "bogus", "dependabot", "env", "file", "github.com", "gitlab.com", "gone", "ignored", "key", "/key",
   "managed", "org", "per-repo", "private", "repo", "repos", "scope", "secrets", "selected",
   "them", "us", "value", "vars", "web", "x"}

AllValues == AllTexts \cup {"near", "far", "wrong"}

\* One variable is set and one is not; one file is there, one is not, and
\* beside the YAML file there is one with the name of an absolute path.
SomeEnvironment == [name \in AllTexts |-> IF name = "SET" THEN "env" ELSE Unset]

SomeFiles == [path \in {"dir", "/"} \X AllTexts |->
                CASE path = <<"dir", "key">>  -> "near"
                  [] path = <<"/", "/key">>   -> "far"
                  [] path = <<"dir", "/key">> -> "wrong"
                  [] OTHER -> Unset]

\* What an entry may hold.
Sources == {V("x"), V(""), <<"env", Scalar("SET")>>, <<"env", Scalar("UNSET")>>, <<"env", Scalar("")>>,
            <<"file", Scalar("key")>>, <<"file", Scalar("/key")>>, <<"file", Scalar("gone")>>}

Oddities == {<<"value", Mapping(<<>>)>>, <<"value", Alias("anchor")>>, <<"bogus", Scalar("x")>>}

Scopes == {<<"scope", Scalar(text)>> : text \in {"all", "private", "selected", "repo", ""}}
            \cup {<<"repos", n>> : n \in {List(<<>>), List(<<Scalar("web")>>), Scalar("web"),
                                          List(<<Scalar("web"), Alias("anchor")>>)}}

Managed1(section, name, e) == <<"managed", Mapping(<< <<section, Mapping(<< <<name, e>> >>)>> >>)>>
Ignored1(section, name)    == <<"ignored", Mapping(<< <<section, List(<<Scalar(name)>>)>> >>)>>

Simple == Mapping(<<V("x")>>)

InFile(gh)      == <<Mapping(<< <<"github.com", gh>> >>)>>
ForOwner(pairs) == InFile(Mapping(<< <<"us", Mapping(pairs)>> >>))
ForRepo(pairs)  == ForOwner(<< <<"per-repo", Mapping(<< <<"web", Mapping(pairs)>> >>)>> >>)

RepoEntryFiles == {ForRepo(<<Managed1("vars", "A", Mapping(pairs))>>) :
                     pairs \in SeqOf(Sources, 3) \cup SeqOf(Sources \cup Oddities, 2)}

OrgEntryFiles == {ForOwner(<< <<"org", Mapping(<<Managed1("secrets", "A", Mapping(pairs))>>)>> >>) :
                    pairs \in SeqOf(Sources, 2)
                        \cup {<<V("x")>> \o scopes : scopes \in SeqOf(Scopes \cup Oddities, 2)}
                        \cup {scopes \o <<V("x")>> : scopes \in SeqOf(Scopes, 2)}}

\* Sections of a block.
Sections1 == {Managed1("vars", "A", Simple), Managed1("secrets", "A", Simple),
              Managed1("vars", "A", Scalar("x")), Managed1("bogus", "A", Simple),
              Ignored1("vars", "A"), Ignored1("vars", "B"), Ignored1("secrets", "A"),
              Ignored1("bogus", "A"),
              <<"managed", Mapping(<< <<"vars", Mapping(<< <<"A", Simple>>, <<"B", Mapping(<<V("")>>)>> >>)>>,
                                      <<"dependabot", Mapping(<< <<"B", Simple>> >>)>> >>)>>,
              <<"ignored", Mapping(<< <<"vars", List(<<Scalar("A")>>)>>,
                                      <<"vars", List(<<Scalar("B")>>)>> >>)>>,
              <<"ignored", Mapping(<< <<"dependabot", List(<<Scalar("A"), Scalar("B")>>)>> >>)>>,
              <<"managed", Scalar("")>>, <<"bogus", Mapping(<<>>)>>}

BlockFiles ==
  UNION {{ForRepo(pairs), ForOwner(<< <<"all-repos", Mapping(pairs)>> >>),
          ForOwner(<< <<"org", Mapping(pairs)>> >>)} : pairs \in SeqOf(Sections1, 2)}
  \cup {ForRepo(pairs) : pairs \in SeqOf({Managed1("vars", "A", Simple), Ignored1("vars", "A"),
                                         Ignored1("secrets", "B")}, 3)}

\* Sections of an owner.
Per(r, section) == <<"per-repo", Mapping(<< <<r, Mapping(<<section>>)>> >>)>>

OwnerSections == {Per("web", Managed1("vars", "A", Simple)), Per("api", Ignored1("vars", "A")),
                  Per("web", Ignored1("vars", "A")), <<"per-repo", Scalar("")>>,
                  <<"all-repos", Mapping(<<Managed1("vars", "A", Mapping(<<V("")>>))>>)>>,
                  <<"all-repos", Mapping(<<>>)>>,
                  <<"org", Mapping(<<Managed1("vars", "A", Simple), Ignored1("secrets", "A")>>)>>,
                  <<"bogus", Mapping(<<>>)>>}

OwnerFiles == {ForOwner(pairs) : pairs \in SeqOf(OwnerSections, 3)}

\* Sections of a file, and files of several documents.
Section(owner, section) == <<"github.com", Mapping(<< <<owner, Mapping(<<section>>)>> >>)>>

TopSections == {Section("us", Per("web", Managed1("vars", "A", Simple))),
                Section("them", Per("web", Ignored1("vars", "A"))),
                Section("them", <<"bogus", Mapping(<<>>)>>),
                <<"github.com", Mapping(<< <<"us", Mapping(<<Per("web", Ignored1("vars", "A"))>>)>>,
                                           <<"us", Mapping(<<Per("api", Ignored1("vars", "A"))>>)>> >>)>>,
                <<"github.com", Mapping(<< <<"us", Scalar("")>> >>)>>,
                <<"github.com", Scalar("")>>, <<"gitlab.com", List(<<Scalar("x")>>)>>}

TopFiles == {<<Mapping(pairs)>> : pairs \in SeqOf(TopSections, 2)}
              \cup {<<Scalar("x")>>, <<List(<<>>)>>, <<Alias("anchor")>>}
              \cup {<<Mapping(<<a>>), Mapping(<<b>>)>> : a, b \in TopSections}

\* The embedded example.yml, entry by entry.
MultiSource == Mapping(<<V("x"), <<"env", Scalar("SET")>>, <<"file", Scalar("key")>> >>)

EmptyLists == <<"ignored", Mapping(<< <<"vars", List(<<>>)>>, <<"secrets", List(<<>>)>>,
                                      <<"dependabot", List(<<>>)>> >>)>>

StarterFile == ForOwner(<<
  <<"org", Mapping(<<
     <<"managed", Mapping(<<
        <<"vars", Mapping(<< <<"A", Mapping(<<V("x"), <<"file", Scalar("key")>>,
                                              <<"scope", Scalar("all/private/selected")>>,
                                              <<"repos", List(<<Scalar("web"), Scalar("api")>>)>> >>)>> >>)>>,
        <<"secrets", Mapping(<< <<"A", MultiSource>> >>)>>,
        <<"dependabot", Mapping(<< <<"A", Simple>> >>)>> >>)>>,
     <<"ignored", Mapping(<< <<"vars", List(<<Scalar("B")>>)>>, <<"secrets", List(<<Scalar("B")>>)>>,
                             <<"dependabot", List(<<Scalar("B")>>)>> >>)>> >>)>>,
  <<"per-repo", Mapping(<< <<"web", Mapping(<<
     <<"managed", Mapping(<<
        <<"vars", Mapping(<< <<"A", Scalar("x")>> >>)>>,
        <<"secrets", Mapping(<< <<"A", Mapping(<<V("x"), <<"env", Scalar("SET")>> >>)>> >>)>>,
        <<"dependabot", Mapping(<< <<"A", Mapping(<<V("x"), <<"env", Scalar("SET")>> >>)>> >>)>> >>)>>,
     EmptyLists >>)>> >>)>>,
  <<"all-repos", Mapping(<<
     <<"managed", Mapping(<<
        <<"vars", Mapping(<< <<"A", Mapping(<<V(""), <<"file", Scalar("key")>> >>)>> >>)>>,
        <<"secrets", Mapping(<< <<"A", MultiSource>> >>)>>,
        <<"dependabot", Mapping(<< <<"A", MultiSource>> >>)>> >>)>>,
     EmptyLists >>)>> >>)

SomeFile == ForRepo(<<Managed1("vars", "A", Simple)>>)

CommandLine(cmd, owner, path, flagsOK, force, token) ==
  [cmd |-> cmd, owner |-> owner, path |-> path, flagsOK |-> flagsOK, force |-> force, token |-> token]

AllFiles == RepoEntryFiles \cup OrgEntryFiles \cup BlockFiles \cup OwnerFiles \cup TopFiles

\* A run with each of the files.
Loads == {[args |-> CommandLine("enforce", "us", TRUE, TRUE, FALSE, TRUE), disk |-> file] :
            file \in AllFiles}

\* Every command line, with and without a file.
LoadsAndCommandLines ==
  Loads \cup {[args |-> a, disk |-> file] : a \in CommandLines, file \in {Absent, Unparsable, SomeFile}}

=============================================================================
