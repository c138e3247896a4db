-------------------------------- MODULE Cli ---------------------------------
(***************************************************************************)
(* Creating a project on disk: intellibiz init (packages/cli/src/commands  *)
(* /init.ts, prompt.ts, project.ts) and create-intellibiz (tools).  Both   *)
(* ask for options or take flags, look whether the directory is empty, and *)
(* then write the files one after the other.  Other programs use the same  *)
(* directory meanwhile, and any write may fail.                            *)
(***************************************************************************)
EXTENDS Scaffold

CONSTANTS
    Creators,   \* processes that create the project
    Paths       \* the sequence of the files of the project

\* The names of the users of the disk are told apart.
ASSUME CliAssumption ==
    /\ Paths \in Seq({Paths[i] : i \in DOMAIN Paths}) /\ Len(Paths) > 0
    /\ Creators \cap {"user", "absent"} = {}

VARIABLES
    creator,    \* the state of each process
    disk        \* the files: whose text each holds, or "absent"

cliVars == <<creator, disk>>

Steps == {"start", "check", "write", "done", "refused", "cancelled", "failed"}
PathSet == {Paths[i] : i \in DOMAIN Paths}

CliTypeOK ==
    /\ creator \in [Creators -> [ step : Steps, force : BOOLEAN, next : 1..(Len(Paths) + 1),
                                  seen : SUBSET PathSet ]]
    /\ disk \in [PathSet -> Creators \cup {"user", "absent"}]

CliInit ==
    /\ creator \in [Creators -> [step : {"start"}, force : BOOLEAN, next : {1}, seen : {{}}]]
    /\ disk = [f \in PathSet |-> "absent"]

Present == {f \in PathSet : disk[f] # "absent"}

At(p, step) == creator[p].step = step

Go(p, step) == creator' = [creator EXCEPT ![p].step = step]

\* Options come from flags, or from prompts; a prompt that is cancelled rejects.
promptScaffoldOptions(p) ==
    /\ At(p, "start")
    /\ Go(p, "check") \/ Go(p, "cancelled")
    /\ UNCHANGED disk

\* A plausible bug: only a directory that holds the whole project counts as in use.
isNonEmptyDir_Whole == Present = PathSet

isNonEmptyDir == Present # {}

\* What the directory held is kept as history.
checkTarget(p) ==
    /\ At(p, "check")
    /\ creator' = [creator EXCEPT
            ![p].step = IF ~creator[p].force /\ isNonEmptyDir THEN "refused" ELSE "write",
            ![p].seen = Present]
    /\ UNCHANGED disk

\* One turn of the loop: a file is written over whatever is there.
writeProject(p) ==
    LET f == Paths[creator[p].next]
    IN  /\ At(p, "write")
        /\ disk' = [disk EXCEPT ![f] = p]
        /\ creator' = [creator EXCEPT
                ![p].next = @ + 1,
                ![p].step = IF creator[p].next = Len(Paths) THEN "done" ELSE "write"]

\* mkdir or writeFile rejects: what was written stays.
WriteFails(p) ==
    /\ At(p, "write")
    /\ Go(p, "failed")
    /\ UNCHANGED disk

\* The command is run again, with or without --force.
RunAgain(p) ==
    /\ creator[p].step \in {"refused", "failed"}
    /\ \E force \in BOOLEAN :
         creator' = [creator EXCEPT ![p] = [step |-> "start", force |-> force, next |-> 1, seen |-> {}]]
    /\ UNCHANGED disk

\* The user, or another program, writes a file of its own.
UserWrites(f) ==
    /\ disk[f] = "absent"
    /\ disk' = [disk EXCEPT ![f] = "user"]
    /\ UNCHANGED creator

CliNext ==
    \/ \E p \in Creators : \/ promptScaffoldOptions(p) \/ checkTarget(p)
                           \/ writeProject(p) \/ WriteFails(p) \/ RunAgain(p)
    \/ \E f \in PathSet : UserWrites(f)

-----------------------------------------------------------------------------
(* Properties *)

(***************************************************************************)
(* Without --force a file that the directory held when it was looked at is *)
(* never written over; one that appeared after the check may be.           *)
(***************************************************************************)
FilesSeenAreKept ==
    [][\A f \in PathSet, p \in Creators :
        (disk[f] # "absent" /\ disk[f] # p /\ disk'[f] = p)
            => creator[p].force \/ f \notin creator[p].seen]_cliVars

\* What follows is about operators that no step changes: TLC evaluates it for all of
\* their arguments in one state, before any process (all with --force) has begun.
NotBegun ==
    /\ Present = {}
    /\ \A p \in Creators : creator[p].step = "start" /\ creator[p].force

(***************************************************************************)
(* The files of a generated project fit together, whatever options were    *)
(* chosen: what they import from each other is generated, what they import *)
(* from packages is a declared dependency and exported, every environment  *)
(* variable they read is in .env.example, every route that is mounted is   *)
(* listed and documented and no other.  One name is not exported: the type *)
(* RefundParams of the development payment provider.                       *)
(***************************************************************************)
GeneratedFilesFit == NotBegun => \A o \in ResolvedOptions : FilesFit(o)

(***************************************************************************)
(* The generated configuration passes defineConfig with every choice of    *)
(* modules but one: commerce without finance gives a commerce section that *)
(* requires finance.baseCurrency.                                          *)
(***************************************************************************)
GeneratedConfigBoots ==
    NotBegun => \A o \in ResolvedOptions, production \in BOOLEAN :
        Throws(defineConfig(buildConfigSource(o), production))
          <=> Commerce(o) /\ "finance" \notin o.modules

(***************************************************************************)
(* The workflow runs scripts of package.json, except that without tests    *)
(* there is no script "test"; and the database that .env.example points to *)
(* is the one docker-compose creates only if the project is called app.    *)
(***************************************************************************)
WorkflowRunsScripts ==
    NotBegun => \A o \in ResolvedOptions, name \in {"app", "shop"} :
        /\ o.ci => (buildCiWorkflow \subseteq scripts(o) <=> o.tests)
        /\ buildCompose(name) = EnvDatabase <=> name = "app"

(***************************************************************************)
(* The generated name of a file is stable under another conversion, so     *)
(* that generating from a file's name finds the file; the exported name is *)
(* an identifier if the given name has no foreign character and ends with  *)
(* no dash; and a name is refused only for want of letters.                *)
(***************************************************************************)
NamesAreUsable == NotBegun => \A n \in Names : IsUsable(n)

(***************************************************************************)
(* The two programs that create projects make the same of a command line,  *)
(* whether they ask, write over files and with which options, as long as   *)
(* its switches are written --yes and --force and no flag has an empty     *)
(* value.  Only create-intellibiz understands -y and -f; and it does not   *)
(* take --yes=true and --force=true for the switches, as init does.        *)
(***************************************************************************)
CreatorsAgree == NotBegun => \A argv \in ArgLists : ReadAlike(argv)

(***************************************************************************)
(* A flag that takes a value is read alike with "=" and without, and no    *)
(* word is read twice or dropped: each is the project's name or the value  *)
(* of a flag, unless the flag is given again.  So a name that follows a    *)
(* flag without a value is taken for that value.                           *)
(***************************************************************************)
ArgumentsAreReadOnce == NotBegun => \A argv \in ArgLists : IsReadOnce(argv)

(***************************************************************************)
(* What defineConfig returns it accepts again, unchanged: zod does not     *)
(* validate the defaults that it fills in, so a default outside its        *)
(* field's values would pass.                                              *)
(***************************************************************************)
ResolvedConfigsAreStable ==
    NotBegun => \A c \in SomeConfigs, production \in BOOLEAN : IsStable(c, production)

(***************************************************************************)
(* Whatever options a user chooses give a project that works, and both     *)
(* programs make the same of a command line, up to the exceptions that the *)
(* parts name.                                                             *)
(***************************************************************************)
GeneratedProjectsWork ==
    /\ GeneratedFilesFit /\ GeneratedConfigBoots /\ WorkflowRunsScripts
    /\ NamesAreUsable /\ CreatorsAgree /\ ArgumentsAreReadOnce

=============================================================================
