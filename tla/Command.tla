------------------------------ MODULE Command -------------------------------
(***************************************************************************)
(* cmd/ghsecretman: one invocation, from the arguments to the exit code,   *)
(* or to the point where the runner takes over with a configuration        *)
(* (modules Scope and OrgRun go on from there).                            *)
(*                                                                         *)
(* The path of the invocation is what -config or -o names.  Other programs *)
(* may write or remove the file at any time, writes may fail, and          *)
(* WriteFile is two steps: the file is emptied, then written.              *)
(***************************************************************************)
EXTENDS Config

CONSTANTS
  Invocations,  \* arguments and surroundings of the first states
  Example,      \* the embedded example.yml
  Absent,       \* there is no file, or none that can be read
  MaxTouches    \* bound: what others do to the file

RunCommands == {"audit", "apply", "enforce"}

ASSUME TouchesAssumption == MaxTouches \in Nat

\* A file is a sequence of documents.
Documents == Seq(Nodes)

CommandLines ==
  [cmd : RunCommands \cup {"example", "version", "help", "other"}, owner : Owners \cup {""},
   path : BOOLEAN, flagsOK : BOOLEAN, force : BOOLEAN, token : BOOLEAN]

ASSUME InvocationsAssumption ==
  \A i \in Invocations : i.args \in CommandLines /\ i.disk \in Documents \cup {Absent, Unparsable}

ASSUME ExampleAssumption == Example \in Documents

ASSUME ExitAssumption == None \notin {0, 1, 2}

VARIABLES
  args,      \* the command line, and whether a token is in the environment
  disk,      \* what is at the path
  step,      \* where run is
  loaded,    \* what config.Load returned
  exit,      \* the exit code, None before
  touches,   \* how much of the bound is used up
  standing   \* history: the file has been there all the time

vars == <<args, disk, step, loaded, exit, touches, standing>>

Steps == {"dispatch", "load", "backend", "lookup", "running", "stat", "open", "write", "exited"}

\* Types, and what the runner relies on when it takes over.
CommandTypeOK ==
  /\ args \in CommandLines
  /\ disk \in Documents \cup {Absent, Unparsable}
  /\ step \in Steps
  /\ step \in {"backend", "lookup", "running"} => loaded # Refused
  /\ step = "running" => args.token /\ \A orgs \in loaded : args.owner \in DOMAIN orgs
  /\ exit \in {0, 1, 2, None} /\ (exit = None <=> step # "exited")
  /\ touches \in 0..MaxTouches /\ standing \in BOOLEAN

Init == \E i \in Invocations :
  /\ args = i.args /\ disk = i.disk
  /\ step = "dispatch" /\ loaded = None /\ exit = None
  /\ touches = 0 /\ standing = (disk # Absent)

Goto(s) == step' = s /\ UNCHANGED <<exit, args, touches, standing>>

Exit(code) == step' = "exited" /\ exit' = code /\ UNCHANGED <<args, touches, standing>>

\* run: help and version succeed, anything that is no command is a usage error.
Dispatch ==
  /\ step = "dispatch" /\ args.cmd \notin RunCommands \cup {"example"}
  /\ Exit(IF args.cmd = "other" THEN 2 ELSE 0)
  /\ UNCHANGED <<disk, loaded>>

\* The head of runAudit, runApply and runEnforce: flags, and the required ones.
ParseFlags ==
  /\ step = "dispatch" /\ args.cmd \in RunCommands
  /\ IF args.flagsOK /\ args.path /\ args.owner # "" THEN Goto("load") ELSE Exit(2)
  /\ UNCHANGED <<disk, loaded>>

\* config.Load.
Load ==
  /\ step = "load"
  /\ loaded' = IF disk = Absent THEN Refused ELSE LoadBytes(disk)
  /\ IF loaded' = Refused THEN Exit(2) ELSE Goto("backend")
  /\ UNCHANGED disk

\* backendFactory: NewClientFromEnv needs a token.
NewBackend ==
  /\ step = "backend"
  /\ IF args.token THEN Goto("lookup") ELSE Exit(2)
  /\ UNCHANGED <<disk, loaded>>

\* Fault: the owner is not looked up.
LookUpNobody ==
  /\ step = "lookup" /\ Goto("running")
  /\ UNCHANGED <<disk, loaded>>

\* The runner looks the owner up before it does anything else.
LookUpOwner ==
  /\ step = "lookup"
  /\ IF \A orgs \in loaded : args.owner \in DOMAIN orgs THEN Goto("running") ELSE Exit(1)
  /\ UNCHANGED <<disk, loaded>>

\* The head of runExample; without -o the example is printed.
ParseExampleFlags ==
  /\ step = "dispatch" /\ args.cmd = "example"
  /\ CASE ~args.flagsOK             -> Exit(2)
       [] args.flagsOK /\ args.path -> Goto(IF args.force THEN "open" ELSE "stat")
       [] OTHER                     -> Exit(0) \/ Exit(1)
  /\ UNCHANGED <<disk, loaded>>

\* Fault: the existing file is only mentioned.
StatAndGoOn ==
  /\ step = "stat" /\ Goto("open")
  /\ UNCHANGED <<disk, loaded>>

\* An existing file is not overwritten.
Stat ==
  /\ step = "stat"
  /\ IF disk = Absent THEN Goto("open") ELSE Exit(2)
  /\ UNCHANGED <<disk, loaded>>

\* WriteFile opens the file, which empties it, or fails.
OpenOutput ==
  /\ step = "open"
  /\ \/ disk' = <<>> /\ Goto("write")
     \/ disk' = disk /\ Exit(1)
  /\ UNCHANGED loaded

\* Fault: the error of WriteFile is dropped.
WriteUnchecked ==
  /\ step = "write"
  /\ disk' \in {Example, <<>>, Unparsable} /\ Exit(0)
  /\ UNCHANGED loaded

\* WriteFile writes all, or fails with nothing or a part of it written.
WriteOutput ==
  /\ step = "write"
  /\ \/ disk' = Example /\ Exit(0)
     \/ disk' \in {<<>>, Unparsable} /\ Exit(1)
  /\ UNCHANGED loaded

\* Somebody else writes or removes the file.
OthersTouch ==
  /\ step # "exited" /\ touches < MaxTouches /\ touches' = touches + 1
  /\ disk' \in {Absent, Unparsable} \ {disk}
  /\ standing' = (standing /\ disk' # Absent)
  /\ UNCHANGED <<args, step, loaded, exit>>

Next == \/ Dispatch
        \/ ParseFlags \/ Load \/ NewBackend \/ LookUpOwner
        \/ ParseExampleFlags \/ Stat \/ OpenOutput \/ WriteOutput
        \/ OthersTouch

Spec == Init /\ [][Next]_vars

-----------------------------------------------------------------------------
(* Properties.                                                             *)

\* What config.Load accepts is a configuration the other modules start from:
\* with no entry both managed and ignored, one source per entry, and selected
\* repositories exactly with that visibility, for every owner of the file.
LoadedIsConfiguration ==
  loaded # None =>
    \A orgs \in loaded : \A owner \in DOMAIN orgs : Settled(orgs[owner]) \in Configuration

\* The file as it was read, unless others touched it.
Untouched == touches = 0 /\ disk \notin {Absent, Unparsable, <<>>}

Sections(owner) == Under(Under({disk[1]}, "github.com"), owner)

\* A file without doubles and aliases.
IsPlainFile == /\ \A i, j \in DOMAIN disk[1].pairs :
                    disk[1].pairs[i][1] = "github.com" /\ disk[1].pairs[j][1] = "github.com" => i = j
               /\ \A n \in Under({disk[1]}, "github.com") : IsPlain(n)

\* Nothing of an accepted file is lost, moved to another layer, kind, name or
\* owner, or given another source or visibility, wherever it stands in the file.
LoadKeepsMeaning ==
  loaded # None /\ Untouched /\ IsPlainFile =>
    \A orgs \in loaded : \A owner \in Owners :
      /\ owner \in DOMAIN orgs <=> Sections(owner) # {}
      /\ owner \in DOMAIN orgs => Settled(orgs[owner]) = Reading(Sections(owner))

\* A file is refused exactly when some owner's section does not make sense,
\* also another owner's, and in whatever order its keys come.
RefusesOnlyBadDocuments ==
  loaded # None /\ Untouched /\ IsPlainFile => (loaded # Refused <=> MakesSense(disk[1]))

\* Without --force the tool leaves a file alone that was there all the time
\* ("Existing files are not overwritten unless -f/--force is set").
SparesExisting ==
  [][standing /\ ~args.force /\ touches' = touches => disk' = disk]_vars

\* Exit code 0 of `example -o` means that the whole example was written.
ExampleZeroMeansWritten ==
  exit = 0 /\ args.cmd = "example" /\ args.path /\ touches = 0 => disk = Example

\* A name in a list of ignored names is never touched by the layer it stands in
\* (config.go: "Ignored lists names the tool must never touch").  A second
\* section of the same name replaces the first, so this does not hold; see the
\* README.
IgnoredIsNeverTouched ==
  step = "running" /\ Untouched =>
    \A orgs \in loaded : \A k \in Keys :
      LET o == Settled(orgs[args.owner])
          IsIgnoredIn(nodes) == NameOf(k) \in IgnoredTexts(nodes, Kind(k))
      IN /\ IsIgnoredIn(Under(Sections(args.owner), "org")) => k \in IgnoredFor(o.org)
         /\ IsIgnoredIn(Under(Sections(args.owner), "all-repos")) => k \in IgnoredFor(o.all)
         /\ \A r \in Repos : IsIgnoredIn(Under(Under(Sections(args.owner), "per-repo"), r)) =>
                               k \in IgnoredFor(o.per[r])

\* The example the tool writes is a file the tool accepts (README: "to write a
\* starter config").  It shows several sources for one entry, so this does not
\* hold; see the README.
StarterConfigLoads ==
  step = "exited" /\ args.cmd = "example" /\ disk = Example => LoadBytes(disk) # Refused

=============================================================================
