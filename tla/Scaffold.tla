------------------------------ MODULE Scaffold ------------------------------
(***************************************************************************)
(* The scaffold commands of the CLI (apps/cli/src/commands/scaffold) and   *)
(* the project they rewrite: workspaces on disk, the contract file that    *)
(* lists them, the identity that texts mention, generated instructions.    *)
(*                                                                         *)
(* One command runs at a time, a process of its own.  Every call of the    *)
(* file system is a step, which may fail (a fault) and before which the    *)
(* process may be killed; between commands people edit the project.        *)
(***************************************************************************)
EXTENDS Naturals, Sequences, SequencesExt

CONSTANTS
    Features,       \* the optional features
    Others,         \* other names given to add and remove: required, unknown
    Template,       \* per feature that has a template, the parts it brings
    Protected,      \* the feature the starter repository itself keeps
    Words,          \* the words that names are made of
    Starter,        \* the identity of the starter repository
    Options,        \* what scaffold init may be given
    Short,          \* the words of less than MIN_REPLACEMENT_LENGTH letters
    Mentions,       \* per text, the field it mentions and where it lies
    MaxCommands,    \* commands (a bound)
    MaxFaults,      \* failures and kills (a bound)
    MaxEdits        \* edits by hand (a bound)

ASSUME ScaffoldAssumption ==
    /\ Protected \in Features
    /\ Features \cap Others = {}
    /\ DOMAIN Template \subseteq Features
    /\ {MaxCommands, MaxFaults, MaxEdits} \subseteq Nat

NameFields == {"displayName", "brandName", "projectSlug", "rootPackageName",
               "repositoryUrl", "binaryName", "binaryLabel", "apiTitle",
               "webDescription"}

\* A name is a sequence of words.
Names == Seq(Words)

ASSUME NamesAssumption ==
    /\ {"-starter", "https", "tbs", "API", "WebApp"} \subseteq Words
    /\ Starter \in [NameFields -> Names]
    /\ \A o \in Options :
         {o.title, o.brand, o.slug, o.scope, o.repoUrl, o.bin} \subseteq Names

Parts == {"package.json", "sources"}
Targets == {"AGENTS.md", "CLAUDE.md"}

\* What a validator other than that of workspaces and instructions finds.
Flaws == {"required workspace missing", "forbidden dependency",
          "script missing", "file name"}

VARIABLES
    project,        \* the files, as far as the commands read or write them
    cmd,            \* the command that runs: its next step and its locals
    outcome,        \* exit code and verdict of the last command
    used,           \* commands, faults and edits so far
    broken,         \* history: features left half way by a fault, or edited
                    \* by hand, since the last command for them that succeeded
    drifted         \* history: an init was cut short, or met a name that the
                    \* replacement of texts does not handle

scaffoldVars == <<project, cmd, outcome, used, broken, drifted>>

Idle == [pc |-> "idle"]

ScaffoldTypeOK ==
    /\ project.dirs \subseteq Features
    /\ \A f \in Features : /\ project.files[f] \subseteq Parts
                           /\ project.files[f] # {} => f \in project.dirs
    /\ project.contract \in {"intact", "torn", "absent"}
    /\ project.listed \cup project.ruled \subseteq Features
    /\ project.generated \subseteq Targets
    /\ project.flaws \subseteq Flaws
    /\ outcome.exit \in {0, 1, 137}
    /\ used \in [commands : 0 .. MaxCommands, faults : 0 .. MaxFaults,
                edits : 0 .. MaxEdits]
    /\ broken \subseteq Features
    /\ drifted \in BOOLEAN

NotGiven == <<>>
Given(name, default) == IF name = NotGiven THEN default ELSE name

\* computeIdentity.  The options carry the slug, title and brand that came of
\* what was given; --repo-url and --bin may be left out.
Identity(o) ==
    [displayName |-> o.title, brandName |-> o.brand, projectSlug |-> o.slug,
     rootPackageName |-> o.scope \o o.slug \o <<"-starter">>,
     repositoryUrl |-> Given(o.repoUrl, <<"https">> \o o.scope \o o.slug),
     binaryName |-> Given(o.bin, <<"tbs">>), binaryLabel |-> o.brand,
     apiTitle |-> Append(o.brand, "API"),
     webDescription |-> Append(o.brand, "WebApp")]

FreshProject(installed, id) ==
    [dirs |-> installed,
     files |-> [f \in Features |-> IF f \in installed THEN Parts ELSE {}],
     contract |-> "intact", listed |-> installed, ruled |-> installed,
     backup |-> FALSE, identity |-> id, package |-> id.rootPackageName,
     texts |-> [m \in DOMAIN Mentions |-> id[Mentions[m].field]],
     generated |-> Targets, flaws |-> {}]

ValidOptions == {o \in Options : o.valid}

ScaffoldInit ==
    /\ \E installed \in SUBSET Features,
          id \in {Starter} \cup {Identity(o) : o \in ValidOptions} :
            project = FreshProject(installed, id)
    /\ cmd = Idle
    /\ outcome = [exit |-> 0, said |-> "nothing"]
    /\ used = [commands |-> 0, faults |-> 0, edits |-> 0]
    /\ broken = {}
    /\ drifted = FALSE

-----------------------------------------------------------------------------
\* What the steps of all commands are made of.

Begin ==
    /\ cmd = Idle
    /\ used.commands < MaxCommands
    /\ used' = [used EXCEPT !.commands = @ + 1]

Works == UNCHANGED used

Fails ==
    /\ used.faults < MaxFaults
    /\ used' = [used EXCEPT !.faults = @ + 1]

\* writeOutput and process.exitCode; the process ends.
Settle(code, said) ==
    /\ cmd' = Idle
    /\ outcome' = [exit |-> code, said |-> said]

Goto(pc) ==
    /\ cmd' = [cmd EXCEPT !.pc = pc]
    /\ UNCHANGED <<outcome, broken, drifted>>

\* An error or a preview: nothing was written.
Reject == Settle(1, "error") /\ UNCHANGED <<project, broken, drifted>>
Preview == Settle(0, "preview") /\ UNCHANGED <<project, broken, drifted>>

\* An exception nobody catches ends an add or a remove.
Throw ==
    /\ Settle(1, "thrown")
    /\ broken' = broken \cup {cmd.feature}
    /\ UNCHANGED drifted

Succeed ==
    /\ Settle(0, "success")
    /\ broken' = broken \ {cmd.feature}
    /\ UNCHANGED drifted

\* writeJson that fails: before or after it truncated the file.
TearContract == \E c \in {"intact", "torn"} :
                    project' = [project EXCEPT !.contract = c]

\* generate-instructions imports the contract, and then writes every target.
Regenerated(p) == IF p.contract = "intact" THEN Targets ELSE p.generated

-----------------------------------------------------------------------------
\* scaffold add.

\* A feature in the registry that is not required and not installed, and whose
\* template was generated.
Addable(f) ==
    f \in Features /\ f \notin project.dirs /\ f \in DOMAIN Template

AddFeature(f, dry) ==
    /\ Begin
    /\ \/ ~Addable(f) /\ Reject
       \/ Addable(f) /\ dry /\ Preview
       \/ /\ Addable(f) /\ ~dry
          /\ cmd' = [pc |-> "mkdir", feature |-> f, todo |-> Template[f],
                     copied |-> {}, made |-> FALSE, clean |-> TRUE,
                     failed |-> FALSE, start |-> project]
          /\ UNCHANGED <<project, outcome, broken, drifted>>

AddFails == cmd' = [cmd EXCEPT !.pc = "undo"]

\* (Mutation) The copy is left to make the directories.
MakeNoDirs ==
    /\ cmd.pc = "mkdir"
    /\ Goto("copy") /\ Works /\ UNCHANGED project

MakeDirs ==
    /\ cmd.pc = "mkdir"
    /\ \E made \in BOOLEAN :
         /\ \/ made /\ Works /\ cmd' = [cmd EXCEPT !.pc = "copy", !.made = TRUE]
            \/ Fails /\ cmd' = [cmd EXCEPT !.pc = "undo", !.made = made]
         /\ project' = IF made
                       THEN [project EXCEPT !.dirs = @ \cup {cmd.feature}]
                       ELSE project
    /\ UNCHANGED <<outcome, broken, drifted>>

\* A copy that fails may leave a part of the file, which copiedFiles does not
\* record.
CopyFile(p) ==
    /\ cmd.pc = "copy" /\ p \in cmd.todo
    /\ \E written \in BOOLEAN :
         /\ \/ /\ written /\ Works
               /\ cmd' = [cmd EXCEPT !.todo = @ \ {p}, !.copied = @ \cup {p},
                            !.pc = IF cmd.todo = {p} THEN "list" ELSE "copy"]
            \/ Fails /\ AddFails
         /\ project' = IF written
                       THEN [project EXCEPT !.files[cmd.feature] = @ \cup {p}]
                       ELSE project
    /\ UNCHANGED <<outcome, broken, drifted>>

UndoFile(p) ==
    /\ cmd.pc = "undo" /\ p \in cmd.copied
    /\ \/ /\ Works
          /\ project' = [project EXCEPT !.files[cmd.feature] = @ \ {p}]
          /\ cmd' = [cmd EXCEPT !.copied = @ \ {p}]
       \/ /\ Fails
          /\ cmd' = [cmd EXCEPT !.copied = @ \ {p}, !.clean = FALSE]
          /\ UNCHANGED project
    /\ UNCHANGED <<outcome, broken, drifted>>

WithoutDir(p, f) ==
    [p EXCEPT !.dirs = @ \ {f}, !.files[f] = {},
              !.flaws = IF f = Protected THEN @ \ {"forbidden dependency"} ELSE @]

\* (Mutation) The rollback removes a directory only if it is empty.
UndoEmptyDirs ==
    /\ cmd.pc = "undo" /\ cmd.copied = {}
    /\ project' = IF project.files[cmd.feature] = {}
                  THEN WithoutDir(project, cmd.feature) ELSE project
    /\ Works
    /\ cmd' = [cmd EXCEPT !.pc = "report"]
    /\ UNCHANGED <<outcome, broken, drifted>>

\* The directories that mkdir made go with all they hold.
UndoDirs ==
    /\ cmd.pc = "undo" /\ cmd.copied = {}
    /\ \/ /\ Works
          /\ project' = IF cmd.made THEN WithoutDir(project, cmd.feature)
                                    ELSE project
          /\ cmd' = [cmd EXCEPT !.pc = "report"]
       \/ /\ cmd.made /\ Fails
          /\ cmd' = [cmd EXCEPT !.pc = "report", !.clean = FALSE]
          /\ UNCHANGED project
    /\ UNCHANGED <<outcome, broken, drifted>>

ReportFailure ==
    /\ cmd.pc = "report"
    /\ Settle(1, "error")
    /\ broken' = IF cmd.clean THEN broken ELSE broken \cup {cmd.feature}
    /\ UNCHANGED <<project, used, drifted>>

\* updateAddContracts: read, back up, write, restore if the write failed.
ReadForAdd ==
    /\ cmd.pc = "list"
    /\ LET listed == cmd.feature \in project.listed IN
       \/ /\ project.contract # "torn" /\ (listed \/ project.contract = "absent")
          /\ Succeed /\ Works /\ UNCHANGED project
       \/ /\ project.contract = "torn"
          /\ Throw /\ Works /\ UNCHANGED project
       \/ /\ project.contract = "intact" /\ ~listed
          /\ \/ /\ project' = [project EXCEPT !.backup = TRUE]
                /\ Goto("write") /\ Works
             \/ Fails /\ Throw /\ UNCHANGED project

\* (Mutation) The contract is left to the user.
ForgetToList ==
    /\ cmd.pc = "write"
    /\ Goto("tidy") /\ Works /\ UNCHANGED project

WriteList ==
    /\ cmd.pc = "write"
    /\ \/ /\ project' = [project EXCEPT !.listed = @ \cup {cmd.feature}]
          /\ Goto("tidy") /\ Works
       \/ TearContract /\ Goto("restore") /\ Fails

RestoreContract ==
    /\ cmd.pc = "restore"
    /\ \/ project' = [project EXCEPT !.contract = "intact"] /\ Works
       \/ UNCHANGED project /\ Fails
    /\ cmd' = [cmd EXCEPT !.pc = "tidy", !.failed = TRUE]
    /\ UNCHANGED <<outcome, broken, drifted>>

Tidy ==
    /\ cmd.pc = "tidy"
    /\ \/ project' = [project EXCEPT !.backup = FALSE] /\ Works
       \/ UNCHANGED project /\ Fails
    /\ IF cmd.failed THEN Throw ELSE Succeed

-----------------------------------------------------------------------------
\* scaffold remove.

\* The starter keeps its web application; a torn contract ends the command
\* here as well, with the same exit code.
Blocked(f) ==
    /\ f = Protected
    /\ \/ project.package = Starter.rootPackageName
       \/ project.contract = "torn"
       \/ /\ project.contract = "intact"
          /\ project.identity.rootPackageName = Starter.rootPackageName

RemoveFeature(f, dry) ==
    /\ Begin
    /\ LET removable == f \in project.dirs /\ ~Blocked(f) IN
       \/ ~removable /\ Reject
       \/ removable /\ dry /\ Preview
       \/ /\ removable /\ ~dry
          /\ cmd' = [pc |-> "delete", feature |-> f]
          /\ UNCHANGED <<project, outcome, broken, drifted>>

DeleteWorkspace ==
    /\ cmd.pc = "delete"
    /\ \/ /\ project' = WithoutDir(project, cmd.feature)
          /\ Goto("unlist") /\ Works
       \/ /\ \E left \in SUBSET project.files[cmd.feature] :
               project' = [project EXCEPT !.files[cmd.feature] = left]
          /\ Throw /\ Fails

\* updateRemoveContracts: the contract is read only now, and has no backup.
Unlist ==
    /\ cmd.pc = "unlist"
    /\ \/ project.contract = "absent" /\ Goto("post") /\ Works /\ UNCHANGED project
       \/ project.contract = "torn" /\ Throw /\ Works /\ UNCHANGED project
       \/ /\ project.contract = "intact"
          /\ \/ /\ project' = [project EXCEPT !.listed = @ \ {cmd.feature},
                                              !.ruled = @ \ {cmd.feature}]
                /\ Goto("post") /\ Works
             \/ TearContract /\ Throw /\ Fails

\* bun install and the instructions: a failure is a warning.
PostRemove ==
    /\ cmd.pc = "post"
    /\ \/ Works /\ project' = [project EXCEPT !.generated = Regenerated(project)]
       \/ Fails /\ UNCHANGED project
    /\ Succeed

-----------------------------------------------------------------------------
\* scaffold init.

\* (Mutation) The brand is replaced before the title.
BrandFirst ==
    <<"brandName", "displayName", "projectSlug", "rootPackageName",
      "repositoryUrl", "binaryName", "binaryLabel", "apiTitle",
      "webDescription">>

\* The order of the replacements in stageInitChanges.
ReplacementOrder ==
    <<"displayName", "brandName", "projectSlug", "rootPackageName",
      "repositoryUrl", "binaryName", "binaryLabel", "apiTitle",
      "webDescription">>

\* An old name that replaceInContent passes over.
TooShort(name) == name = <<>> \/ (Len(name) = 1 /\ name[1] \in Short)

ReplacedOne(text, old, new, f) ==
    IF old[f] = new[f] \/ TooShort(old[f]) THEN text
    ELSE ReplaceAllSubSeqs(new[f], old[f], text)

\* The text after each of the replacements.
Stages(text, old, new) ==
    LET stage[k \in 0 .. Len(ReplacementOrder)] ==
            IF k = 0 THEN text
            ELSE ReplacedOne(stage[k - 1], old, new, ReplacementOrder[k])
    IN stage

\* replaceInContent, on a text that mentions one name.
Replaced(text, old, new) == Stages(text, old, new)[Len(ReplacementOrder)]

\* collectTextFilePaths: apps, packages, scripts, docs and five root files,
\* without what is built, installed or under tasks.
Collected == {m \in DOMAIN Mentions :
                Mentions[m].place \in {"apps", "packages", "scripts", "docs", "root"}}

\* The staged writes, in the order of pendingWrites.
StagedTexts(old, new) ==
    {m \in Collected : Replaced(project.texts[m], old, new) # project.texts[m]}

\* The names that are replaced before the title, the slug and the binary.
ReplacedBefore ==
    [displayName |-> {}, projectSlug |-> {"displayName", "brandName"},
     binaryName |-> {"displayName", "brandName", "projectSlug", "rootPackageName",
                     "repositoryUrl"}]

\* Names that the replacements do not handle: too short ones, and those of which
\* another replacement changes a part, in the old name before it is replaced or
\* in the new one after that.
Unhandled(old, new) ==
    \E f \in DOMAIN ReplacedBefore :
        \/ old[f] # new[f] /\ TooShort(old[f])
        \/ \E g \in NameFields \ {f} :
              /\ old[g] # new[g]
              /\ old[g] \in SubSeqs(IF g \in ReplacedBefore[f] THEN old[f] ELSE new[f])

InitProject(o, dry) ==
    /\ Begin
    /\ LET new == Identity(o)
           old == project.identity
           bad == o \notin ValidOptions \/ project.contract # "intact"
       IN \/ bad /\ Reject
          \/ ~bad /\ dry /\ Preview
          \/ /\ ~bad /\ ~dry
             /\ cmd' = [pc |-> "contract", old |-> old, new |-> new,
                        texts |-> StagedTexts(old, new), skip |-> o.skipCheck]
             /\ drifted' = (drifted \/ Unhandled(old, new))
             /\ UNCHANGED <<project, outcome, broken>>

InitThrows ==
    /\ Settle(1, "thrown")
    /\ drifted' = TRUE
    /\ UNCHANGED broken

WriteContract ==
    /\ cmd.pc = "contract"
    /\ \/ /\ project' = [project EXCEPT !.identity = cmd.new]
          /\ Goto("package") /\ Works
       \/ TearContract /\ InitThrows /\ Fails

WritePackage ==
    /\ cmd.pc = "package"
    /\ \/ /\ project' = [project EXCEPT !.package = cmd.new.rootPackageName]
          /\ Goto("texts") /\ Works
       \/ UNCHANGED project /\ InitThrows /\ Fails

WriteText(m) ==
    /\ cmd.pc = "texts" /\ m \in cmd.texts
    /\ \/ /\ project' = [project EXCEPT !.texts[m] = Replaced(@, cmd.old, cmd.new)]
          /\ cmd' = [cmd EXCEPT !.texts = @ \ {m}]
          /\ Works /\ UNCHANGED <<outcome, broken, drifted>>
       \/ UNCHANGED project /\ InitThrows /\ Fails

\* The scripts after init, the repository's check among them: a failure is a
\* warning and the exit code stays 0.
PostInit ==
    /\ cmd.pc = "texts" /\ cmd.texts = {}
    /\ \/ /\ ~cmd.skip /\ Works
          /\ project' = [project EXCEPT !.generated = Regenerated(project)]
       \/ cmd.skip /\ Works /\ UNCHANGED project
       \/ ~cmd.skip /\ Fails /\ UNCHANGED project
    /\ Settle(0, "success")
    /\ UNCHANGED <<broken, drifted>>

-----------------------------------------------------------------------------
\* scaffold validate and scaffold list.  An issue is <<category, severity,
\* subject>>.

WorkspaceIssues(p) ==
    {<<"workspace", "error", w>> : w \in p.flaws \cap {"required workspace missing"}}
    \cup {<<"workspace", "warning", f>> : f \in p.listed \ p.dirs}
    \cup {<<"workspace", "error", f>> : f \in p.dirs \ p.listed}
    \cup {<<"workspace", "error", f, "package.json">> :
             f \in {g \in p.listed \cap p.dirs : "package.json" \notin p.files[g]}}

\* The forbidden dependency is the protected feature's: seen only as long as
\* its workspace is listed, has a package.json and a rule.
DependencyIssues(p) ==
    IF /\ "forbidden dependency" \in p.flaws
       /\ Protected \in p.listed \cap p.ruled
       /\ "package.json" \in p.files[Protected]
    THEN {<<"workspace", "error", "forbidden dependency">>} ELSE {}

ScriptIssues(p) ==
    {<<"script", "error", w>> : w \in p.flaws \cap {"script missing"}}

NamingIssues(p) ==
    {<<"naming", "warning", w>> : w \in p.flaws \cap {"file name"}}

InstructionIssues(p) ==
    {<<"instructions", "warning", t>> : t \in Targets \ p.generated}

Fixable(i) == i[1] = "instructions"

\* Only the validators of the categories that had a fixable issue run again
\* after the fixes, whatever the others had found.
ReportedIssues(fix, after) ==
    LET found == WorkspaceIssues(project) \cup DependencyIssues(project)
                 \cup ScriptIssues(project) \cup NamingIssues(project)
                 \cup InstructionIssues(project)
    IN IF fix /\ \E i \in found : Fixable(i) THEN InstructionIssues(after)
                                             ELSE found

Verdict(issues) ==
    IF issues = {} THEN "passed"
    ELSE IF \E i \in issues : i[2] = "error" THEN "failed" ELSE "warned"

\* --dry-run is not read.  The result of writeOutput is dropped.
Validate(fix) ==
    /\ cmd = Idle
    /\ used.commands < MaxCommands
    /\ \E runs \in BOOLEAN :
         LET fixes == fix /\ project.generated # Targets
             after == IF fixes /\ runs
                      THEN [project EXCEPT !.generated = Regenerated(project)]
                      ELSE project
         IN /\ runs \/ (fixes /\ used.faults < MaxFaults)
            /\ used' = [used EXCEPT !.commands = @ + 1,
                                    !.faults = IF runs THEN @ ELSE @ + 1]
            /\ IF project.contract # "intact" THEN Reject
               ELSE /\ project' = after
                    /\ Settle(0, Verdict(ReportedIssues(fix, after)))
                    /\ UNCHANGED <<broken, drifted>>

List == Begin /\ Settle(0, "listed") /\ UNCHANGED <<project, broken, drifted>>

-----------------------------------------------------------------------------
\* The process is killed, or people edit the project.

Kill ==
    /\ cmd # Idle /\ Fails
    /\ Settle(137, "nothing")
    /\ IF "feature" \in DOMAIN cmd
       THEN broken' = broken \cup {cmd.feature} /\ UNCHANGED drifted
       ELSE drifted' = TRUE /\ UNCHANGED broken
    /\ UNCHANGED project

EditWorkspaces ==
    \E f \in Features :
        /\ \/ \E parts \in SUBSET Parts :
                project' = [project EXCEPT !.dirs = @ \cup {f}, !.files[f] = parts]
           \/ project' = WithoutDir(project, f)
        /\ broken' = broken \cup {f} /\ UNCHANGED drifted

EditContract ==
    /\ \/ project' = [project EXCEPT !.contract = "absent"]
       \/ \E listed \in SUBSET Features :
            project' = [project EXCEPT !.contract = "intact", !.listed = listed,
                                !.ruled = Features]
    /\ broken' = Features
    /\ drifted' = TRUE

EditOther ==
    /\ \/ \E w \in Flaws :
            /\ w = "forbidden dependency" => "package.json" \in project.files[Protected]
            /\ project' = [project EXCEPT !.flaws = @ \cup {w}]
       \/ \E t \in Targets : project' = [project EXCEPT !.generated = @ \ {t}]
    /\ UNCHANGED <<broken, drifted>>

Edit ==
    /\ cmd = Idle /\ used.edits < MaxEdits
    /\ used' = [used EXCEPT !.edits = @ + 1]
    /\ \/ EditWorkspaces
       \/ EditContract
       \/ EditOther
    /\ UNCHANGED <<cmd, outcome>>

ScaffoldNext ==
    \/ \E f \in Features \cup Others, dry \in BOOLEAN :
           AddFeature(f, dry) \/ RemoveFeature(f, dry)
    \/ MakeDirs \/ \E p \in Parts : CopyFile(p) \/ UndoFile(p)
    \/ UndoDirs \/ ReportFailure
    \/ ReadForAdd \/ WriteList \/ RestoreContract \/ Tidy
    \/ DeleteWorkspace \/ Unlist \/ PostRemove
    \/ \E o \in Options, dry \in BOOLEAN : InitProject(o, dry)
    \/ WriteContract \/ WritePackage \/ PostInit
    \/ \E m \in DOMAIN Mentions : WriteText(m)
    \/ \E fix \in BOOLEAN : Validate(fix)
    \/ List \/ Kill \/ Edit

ScaffoldSpec == ScaffoldInit /\ [][ScaffoldNext]_scaffoldVars

-----------------------------------------------------------------------------
\* Between commands the contract lists exactly the features that are on disk,
\* but for those that a fault or a hand left half way, and a command for such a
\* feature that reports success has put it right (scaffold-add.ts:133,
\* scaffold-remove.ts:79).
ContractMatchesDisk ==
    cmd = Idle /\ project.contract = "intact" =>
        \A f \in Features \ broken : f \in project.listed <=> f \in project.dirs

\* An add that fails while it copies, and whose rollback could remove what it
\* had to, leaves the project as it found it, the half-written file included
\* (scaffold-add.ts:106).
RollbackRestores ==
    cmd.pc = "report" /\ cmd.clean => project = cmd.start

\* As long as no init was cut short and no name was one that the replacement
\* does not handle, package.json has the contract's name and every text the
\* collection reaches shows its title, slug or binary, however often the project was
\* renamed (scaffold-init.ts:144).
TextsFollowTheIdentity ==
    cmd = Idle /\ ~drifted =>
        /\ project.package = project.identity.rootPackageName
        /\ \A m \in Collected :
            Mentions[m].field \in DOMAIN ReplacedBefore =>
                project.texts[m] = project.identity[Mentions[m].field]

\* A validation that failed exits with 1, as the manual says
\* (docs/03_USER_MANUAL.md:154).
ValidationFailureExitsOne == outcome.said = "failed" => outcome.exit = 1
=============================================================================
