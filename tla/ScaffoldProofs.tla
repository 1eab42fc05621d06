--------------------------- MODULE ScaffoldProofs ---------------------------
(***************************************************************************)
(* Proofs about Scaffold, for any features, templates, texts, names,       *)
(* options, commands, faults and edits: an add that fails is undone,       *)
(* between commands contract and disk agree but for what was left half     *)
(* way, and the texts follow the identity from one rename to the next.     *)
(***************************************************************************)
EXTENDS Scaffold, TLAPS

Fields == {"dirs", "files", "contract", "listed", "ruled", "backup", "identity",
           "package", "texts", "generated", "flaws"}

\* A project: files lie in directories, and the forbidden dependency is in the
\* package.json of the protected feature.
ProjectOK(p) ==
    /\ p = [x \in Fields |-> p[x]]
    /\ p.dirs \subseteq Features
    /\ p.files \in [Features -> SUBSET Parts]
    /\ \A f \in Features : p.files[f] # {} => f \in p.dirs
    /\ p.contract \in {"intact", "torn", "absent"}
    /\ p.listed \cup p.ruled \subseteq Features
    /\ p.generated \subseteq Targets
    /\ p.flaws \subseteq Flaws
    /\ "forbidden dependency" \in p.flaws => Protected \in p.dirs

AddFields == {"pc", "feature", "todo", "copied", "made", "clean", "failed", "start"}
CopyPcs == {"mkdir", "copy", "undo"}
ListPcs == {"list", "write", "restore", "tidy"}

\* While an add copies or undoes, the project differs from what it found by the
\* feature's directory and files only.
Copying ==
    /\ \A x \in Fields \ {"dirs", "files"} : project[x] = cmd.start[x]
    /\ project.dirs = IF cmd.made THEN cmd.start.dirs \cup {cmd.feature}
                                  ELSE cmd.start.dirs
    /\ \A g \in Features \ {cmd.feature} : project.files[g] = cmd.start.files[g]
    /\ ~cmd.made => project.files[cmd.feature] = {}
    /\ cmd.pc = "mkdir" => ~cmd.made
    /\ cmd.pc = "copy" => cmd.made

Adding ==
    /\ cmd = [x \in AddFields |-> cmd[x]]
    /\ cmd.pc \in CopyPcs \cup {"report"} \cup ListPcs
    /\ cmd.feature \in Features
    /\ cmd.made \in BOOLEAN
    /\ ProjectOK(cmd.start)
    /\ cmd.feature \notin cmd.start.dirs
    /\ cmd.feature \in cmd.start.listed =>
         cmd.feature \in broken \/ cmd.start.contract = "absent"
    /\ cmd.pc \in CopyPcs => Copying
    /\ cmd.pc = "report" /\ cmd.clean => project = cmd.start
    /\ cmd.pc \in ListPcs => cmd.feature \in project.dirs
    /\ cmd.pc \in {"write", "restore", "tidy"} => project.contract # "absent"
    /\ cmd.pc = "tidy" => cmd.failed \/ cmd.feature \in project.listed

Removing ==
    /\ cmd = [x \in {"pc", "feature"} |-> cmd[x]]
    /\ cmd.pc \in {"delete", "unlist", "post"}
    /\ cmd.feature \in Features
    /\ cmd.pc # "delete" => cmd.feature \notin project.dirs
    /\ cmd.pc = "post" =>
         cmd.feature \notin project.listed \/ project.contract = "absent"

Renaming ==
    /\ cmd = [x \in {"pc", "old", "new", "texts", "skip"} |-> cmd[x]]
    /\ cmd.pc \in {"contract", "package", "texts"}
    /\ project.contract # "absent"

InHand(f) == cmd # Idle /\ "feature" \in DOMAIN cmd /\ f = cmd.feature

\* Contract and disk agree on each feature that no command has in hand.
Agreement ==
    project.contract # "absent" =>
        \A f \in Features \ broken :
            ~InHand(f) => (f \in project.listed <=> f \in project.dirs)

ScaffoldInv ==
    /\ ProjectOK(project)
    /\ cmd = Idle \/ Adding \/ Removing \/ Renaming
    /\ Agreement

-----------------------------------------------------------------------------
LEMMA IdleFacts == DOMAIN Idle = {"pc"} /\ Idle.pc = "idle"
BY DEF Idle

LEMMA ScaffoldStarts == ScaffoldInit => ScaffoldInv
<1> SUFFICES ASSUME ScaffoldInit PROVE ScaffoldInv
    OBVIOUS
<1>1. PICK installed, id : /\ installed \in SUBSET Features
                           /\ project = FreshProject(installed, id)
    BY DEF ScaffoldInit
<1>2. project = [x \in Fields |-> project[x]]
    BY <1>1 DEF FreshProject, Fields
<1>3. project.files \in [Features -> SUBSET Parts]
      /\ \A f \in Features : project.files[f] # {} => f \in project.dirs
    BY <1>1 DEF FreshProject
<1>4. /\ project.dirs = installed /\ project.listed = installed
      /\ project.ruled = installed /\ project.contract = "intact"
      /\ project.generated = Targets /\ project.flaws = {}
    BY <1>1 DEF FreshProject
<1>5. ProjectOK(project)
  <2>1. installed \subseteq Features
      BY <1>1
  <2> QED  BY <1>2, <1>3, <1>4, <2>1 DEF ProjectOK
<1> QED BY <1>4, <1>5 DEF ScaffoldInit, ScaffoldInv, Agreement

\* A command that ends, or a step between commands: what it leaves is a
\* project, and each feature not broken that it had in hand is in order.
LEMMA BackToIdle ==
    ASSUME cmd' = Idle, ProjectOK(project)',
           project'.contract # "absent" =>
               \A f \in Features \ broken' :
                   f \in project'.listed <=> f \in project'.dirs
    PROVE  ScaffoldInv'
BY DEF ScaffoldInv, Agreement

\* What is known while a command has a feature in hand.
LEMMA HandFacts ==
    ASSUME ScaffoldInv, Adding \/ Removing
    PROVE  /\ project.contract # "absent" =>
                \A f \in Features \ broken :
                    f # cmd.feature => (f \in project.listed <=> f \in project.dirs)
           /\ cmd # Idle /\ cmd.feature \in Features
BY IdleFacts DEF ScaffoldInv, Agreement, InHand, Adding, Removing, AddFields

\* A step that leaves the other features as they were.
OthersStay ==
    /\ project.contract = "absent" => project'.contract = "absent"
    /\ \A f \in Features :
         f # cmd.feature =>
             /\ f \in project'.listed <=> f \in project.listed
             /\ f \in project'.dirs <=> f \in project.dirs

\* An exception ends the command of a feature.
LEMMA ThrowKeeps ==
    ASSUME ScaffoldInv, Adding \/ Removing, Throw, ProjectOK(project)', OthersStay
    PROVE  ScaffoldInv'
<1>1. cmd' = Idle /\ broken' = broken \cup {cmd.feature}
    BY DEF Throw, Settle
<1> QED BY <1>1, HandFacts, BackToIdle DEF OthersStay

\* Success does, and the feature is in order.
LEMMA SucceedKeeps ==
    ASSUME ScaffoldInv, Adding \/ Removing, Succeed, ProjectOK(project)', OthersStay,
           project'.contract # "absent" =>
               (cmd.feature \in project'.listed <=> cmd.feature \in project'.dirs)
    PROVE  ScaffoldInv'
<1>1. cmd' = Idle /\ broken' = broken \ {cmd.feature}
    BY DEF Succeed, Settle
<1> QED BY <1>1, HandFacts, BackToIdle DEF OthersStay

\* The command goes on with its feature.
LEMMA HandKeeps ==
    ASSUME ScaffoldInv, Adding \/ Removing, (Adding \/ Removing)',
           cmd'.feature = cmd.feature, broken' = broken,
           ProjectOK(project)', OthersStay
    PROVE  ScaffoldInv'
<1>1. "feature" \in DOMAIN cmd' /\ cmd' # Idle
    BY IdleFacts DEF Adding, Removing, AddFields
<1> QED BY <1>1, HandFacts DEF ScaffoldInv, Agreement, InHand, OthersStay

-----------------------------------------------------------------------------
(* scaffold add *)

LEMMA AddKeeps ==
    ASSUME ScaffoldInv, NEW f \in Features \cup Others, NEW dry \in BOOLEAN,
           AddFeature(f, dry)
    PROVE  ScaffoldInv'
<1>1. cmd = Idle /\ ProjectOK(project)
    BY DEF AddFeature, Begin, ScaffoldInv
<1>2. project' = project /\ broken' = broken
    BY DEF AddFeature, Reject, Preview
<1>3. \A g : ~InHand(g)
    BY <1>1 DEF InHand
<1>4. CASE cmd' = Idle
    BY <1>1, <1>2, <1>3, <1>4, BackToIdle DEF ScaffoldInv, Agreement, ProjectOK
<1>5. CASE /\ Addable(f)
           /\ cmd' = [pc |-> "mkdir", feature |-> f, todo |-> Template[f],
                     copied |-> {}, made |-> FALSE, clean |-> TRUE,
                     failed |-> FALSE, start |-> project]
  <2>1. f \in Features /\ f \notin project.dirs
      BY <1>5 DEF Addable
  <2>2. project.files[f] = {}
      BY <1>1, <2>1 DEF ProjectOK
  <2>3. f \in project.listed => f \in broken \/ project.contract = "absent"
      BY <1>3, <2>1 DEF ScaffoldInv, Agreement
  <2>4. Copying'
      BY <1>2, <1>5, <2>2 DEF Copying
  <2>5. cmd' = [x \in AddFields |-> cmd'[x]]
      BY <1>5 DEF AddFields
  <2>6. ProjectOK(project)'
      BY <1>1, <1>2 DEF ProjectOK
  <2>7. ProjectOK(cmd.start)'
      BY <1>1, <1>5 DEF ProjectOK
  <2>8. Adding'
      BY <1>2, <1>5, <2>1, <2>3, <2>4, <2>5, <2>7 DEF Adding, CopyPcs, ListPcs
  <2>9. Agreement'
      BY <1>2, <1>3 DEF ScaffoldInv, Agreement
  <2> QED  BY <2>6, <2>8, <2>9 DEF ScaffoldInv
<1> QED BY <1>4, <1>5 DEF AddFeature, Reject, Preview, Settle

LEMMA WhichCommand ==
    ASSUME ScaffoldInv
    PROVE  /\ cmd.pc \in CopyPcs \cup {"report"} \cup ListPcs => Adding
           /\ cmd.pc \in {"delete", "unlist", "post"} => Removing
           /\ cmd.pc \in {"contract", "package", "texts"} => Renaming
BY IdleFacts DEF ScaffoldInv, Adding, Removing, Renaming, CopyPcs, ListPcs

\* A step of the copy or of its undoing.
LEMMA CopyingGoesOn ==
    ASSUME ScaffoldInv, Adding, cmd.pc \in CopyPcs,
           cmd' = [x \in AddFields |-> cmd'[x]],
           cmd'.feature = cmd.feature, cmd'.start = cmd.start,
           cmd'.made \in BOOLEAN, cmd'.pc \in CopyPcs, Copying',
           broken' = broken, ProjectOK(project)', OthersStay
    PROVE  ScaffoldInv'
<1>1. ProjectOK(cmd.start)'
    BY DEF Adding, ProjectOK
<1>2. Adding'
    BY <1>1 DEF Adding, CopyPcs, ListPcs
<1> QED BY <1>2, HandKeeps

LEMMA MakeDirsKeeps == ScaffoldInv /\ MakeDirs => ScaffoldInv'
<1> SUFFICES ASSUME ScaffoldInv, MakeDirs PROVE ScaffoldInv'
    OBVIOUS
<1>1. Adding /\ Copying /\ ProjectOK(project) /\ cmd.feature \in Features /\ ~cmd.made
    BY WhichCommand DEF MakeDirs, CopyPcs, ScaffoldInv, Adding, Copying
<1>2. PICK made \in BOOLEAN :
        /\ cmd' \in {[cmd EXCEPT !.pc = "copy", !.made = TRUE],
                     [cmd EXCEPT !.pc = "undo", !.made = made]}
        /\ cmd'.pc = "copy" => made
        /\ project' = IF made
                       THEN [project EXCEPT !.dirs = @ \cup {cmd.feature}]
                       ELSE project
    BY <1>1 DEF MakeDirs, Adding, AddFields
<1>3. cmd.pc = "mkdir" /\ broken' = broken
    BY DEF MakeDirs
<1>4. /\ cmd' = [x \in AddFields |-> cmd'[x]]
      /\ cmd'.feature = cmd.feature /\ cmd'.start = cmd.start
      /\ cmd'.made = made /\ cmd'.pc \in {"copy", "undo"}
    BY <1>1, <1>2 DEF Adding, AddFields
<1>5. /\ project' = [x \in Fields |-> project'[x]]
      /\ \A x \in Fields \ {"dirs"} : project'[x] = project[x]
      /\ project'.dirs = IF made THEN project.dirs \cup {cmd.feature} ELSE project.dirs
    BY <1>1, <1>2 DEF ProjectOK, Fields
<1>6. ProjectOK(project)'
    BY <1>1, <1>5 DEF ProjectOK, Fields
<1>7. Copying'
    BY <1>1, <1>2, <1>4, <1>5 DEF Copying, Fields
<1>8. OthersStay
    BY <1>5 DEF OthersStay, Fields
<1> QED BY <1>1, <1>3, <1>4, <1>6, <1>7, <1>8, CopyingGoesOn DEF CopyPcs

\* A project whose files change for one feature that has a directory, or to
\* nothing, is a project.
LEMMA FilesOK ==
    ASSUME ProjectOK(project), cmd.feature \in Features, NEW S \in SUBSET Parts,
           S # {} => cmd.feature \in project.dirs,
           project' = [project EXCEPT !.files[cmd.feature] = S]
    PROVE  /\ ProjectOK(project)' /\ OthersStay
           /\ project' = [x \in Fields |-> project'[x]]
           /\ \A x \in Fields \ {"files"} : project'[x] = project[x]
           /\ project'.files = [project.files EXCEPT ![cmd.feature] = S]
<1>1. /\ project' = [x \in Fields |-> project'[x]]
      /\ \A x \in Fields \ {"files"} : project'[x] = project[x]
      /\ project'.files = [project.files EXCEPT ![cmd.feature] = S]
    BY DEF ProjectOK, Fields
<1>2. project.files \in [Features -> SUBSET Parts]
      /\ \A f \in Features : project.files[f] # {} => f \in project.dirs
    BY DEF ProjectOK
<1>3. project'.files \in [Features -> SUBSET Parts]
    BY <1>1, <1>2
<1>4. /\ project'.dirs = project.dirs /\ project'.contract = project.contract
      /\ project'.listed = project.listed /\ project'.ruled = project.ruled
      /\ project'.generated = project.generated /\ project'.flaws = project.flaws
    BY <1>1 DEF Fields
<1>5. \A f \in Features : project'.files[f] # {} => f \in project'.dirs
    BY <1>1, <1>2, <1>4
<1>6. ProjectOK(project')
    BY <1>1, <1>3, <1>4, <1>5 DEF ProjectOK
<1>7. OthersStay
    BY <1>4 DEF OthersStay
<1> QED BY <1>1, <1>6, <1>7 DEF ProjectOK

\* A step on a file of the feature.
LEMMA OneFile ==
    ASSUME ScaffoldInv, Adding, cmd.pc \in {"copy", "undo"},
           NEW S \in SUBSET Parts, S # {} => cmd.made,
           project' = [project EXCEPT !.files[cmd.feature] = S],
           cmd' = [x \in AddFields |-> cmd'[x]],
           cmd'.feature = cmd.feature, cmd'.start = cmd.start,
           cmd'.made = cmd.made, cmd'.pc \in CopyPcs \ {"mkdir"},
           cmd'.pc = "copy" => cmd.made, broken' = broken
    PROVE  ScaffoldInv'
<1>1. Copying /\ ProjectOK(project) /\ cmd.feature \in Features /\ cmd.made \in BOOLEAN
    BY DEF ScaffoldInv, Adding, CopyPcs
<1>2. S # {} => cmd.feature \in project.dirs
    BY <1>1 DEF Copying
<1>3. /\ ProjectOK(project)' /\ OthersStay
      /\ \A x \in Fields \ {"files"} : project'[x] = project[x]
      /\ project'.files = [project.files EXCEPT ![cmd.feature] = S]
    BY <1>1, <1>2, FilesOK
<1>4. Copying'
  <2>1. \A x \in Fields \ {"dirs", "files"} : project'[x] = cmd'.start[x]
      BY <1>1, <1>3 DEF Copying
  <2>2. project'.dirs = project.dirs
      BY <1>3 DEF Fields
  <2>3. project.files \in [Features -> SUBSET Parts]
      BY <1>1 DEF ProjectOK
  <2>4. project'.files[cmd.feature] = S
      BY <1>1, <1>3, <2>3
  <2>5. \A g \in Features \ {cmd.feature} : project'.files[g] = cmd'.start.files[g]
      BY <1>1, <1>3, <2>3 DEF Copying
  <2>6. cmd.made <=> cmd'.made
      OBVIOUS
  <2>7. project'.dirs = IF cmd'.made THEN cmd'.start.dirs \cup {cmd'.feature}
                                    ELSE cmd'.start.dirs
      BY <1>1, <2>2 DEF Copying
  <2> QED  BY <2>1, <2>4, <2>5, <2>6, <2>7 DEF Copying, CopyPcs
<1> QED BY <1>1, <1>3, <1>4, CopyingGoesOn DEF CopyPcs

LEMMA SameFiles ==
    ASSUME ProjectOK(project), NEW f \in Features
    PROVE  project = [project EXCEPT !.files[f] = project.files[f]]
<1>1. project.files = [project.files EXCEPT ![f] = project.files[f]]
    BY DEF ProjectOK
<1>2. project = [project EXCEPT !.files = project.files]
    BY DEF ProjectOK, Fields
<1> QED BY <1>1, <1>2

LEMMA CopyFileKeeps ==
    ASSUME ScaffoldInv, NEW p \in Parts, CopyFile(p)
    PROVE  ScaffoldInv'
<1>1. Adding /\ Copying /\ ProjectOK(project) /\ cmd.feature \in Features /\ cmd.made
      /\ cmd.pc = "copy"
    BY WhichCommand DEF CopyFile, CopyPcs, ScaffoldInv, Adding, Copying
<1> DEFINE S == project.files[cmd.feature]
<1>2. /\ S \in SUBSET Parts /\ S \cup {p} \in SUBSET Parts
      /\ project = [project EXCEPT !.files[cmd.feature] = S]
    BY <1>1, SameFiles DEF ProjectOK
<1>3. \/ project' = [project EXCEPT !.files[cmd.feature] = S]
      \/ project' = [project EXCEPT !.files[cmd.feature] = S \cup {p}]
    BY <1>2 DEF CopyFile
<1>4. CASE cmd' = [cmd EXCEPT !.pc = "undo"]
  <2>1. /\ cmd' = [x \in AddFields |-> cmd'[x]]
        /\ cmd'.feature = cmd.feature /\ cmd'.start = cmd.start
        /\ cmd'.made = cmd.made /\ cmd'.pc = "undo"
      BY <1>1, <1>4 DEF Adding, AddFields
  <2> HIDE DEF S
  <2> QED  BY <1>1, <1>2, <1>3, <2>1, OneFile DEF CopyFile, CopyPcs
<1>5. CASE cmd' = [cmd EXCEPT !.todo = @ \ {p}, !.copied = @ \cup {p},
                            !.pc = IF cmd.todo = {p} THEN "list" ELSE "copy"]
  <2>1. /\ cmd' = [x \in AddFields |-> cmd'[x]]
        /\ cmd'.feature = cmd.feature /\ cmd'.start = cmd.start
        /\ cmd'.made = cmd.made /\ cmd'.pc \in {"list", "copy"}
      BY <1>1, <1>5 DEF Adding, AddFields
  <2>2. CASE cmd'.pc = "copy"
    <3> HIDE DEF S
    <3> QED  BY <1>1, <1>2, <1>3, <2>1, <2>2, OneFile DEF CopyFile, CopyPcs
  <2>3. CASE cmd'.pc = "list"
    <3>1. cmd.feature \in project.dirs
        BY <1>1 DEF Copying
    <3>2. ProjectOK(project)' /\ OthersStay
          /\ \A x \in Fields \ {"files"} : project'[x] = project[x]
      <4> HIDE DEF S
      <4> QED  BY <1>1, <1>2, <1>3, <3>1, FilesOK
    <3>4. ProjectOK(cmd.start)'
        BY <1>1, <2>1 DEF Adding, ProjectOK
    <3>5. broken' = broken
        BY DEF CopyFile
    <3>6. Adding'
        BY <1>1, <2>1, <2>3, <3>1, <3>2, <3>4, <3>5
           DEF Adding, CopyPcs, ListPcs, Fields
    <3> QED  BY <1>1, <2>1, <3>2, <3>5, <3>6, HandKeeps
  <2> QED  BY <2>1, <2>2, <2>3
<1> QED BY <1>4, <1>5 DEF CopyFile, AddFails

LEMMA UndoFileKeeps ==
    ASSUME ScaffoldInv, NEW p \in Parts, UndoFile(p)
    PROVE  ScaffoldInv'
<1>1. Adding /\ Copying /\ ProjectOK(project) /\ cmd.feature \in Features
      /\ cmd.pc = "undo" /\ broken' = broken
    BY WhichCommand DEF UndoFile, CopyPcs, ScaffoldInv, Adding
<1> DEFINE S == project.files[cmd.feature]
<1>2. /\ S \in SUBSET Parts /\ S \ {p} \in SUBSET Parts
      /\ project = [project EXCEPT !.files[cmd.feature] = S]
    BY <1>1, SameFiles DEF ProjectOK
<1>6. S # {} => cmd.made
    BY <1>1 DEF Copying
<1>3. \/ project' = [project EXCEPT !.files[cmd.feature] = S]
      \/ project' = [project EXCEPT !.files[cmd.feature] = S \ {p}]
    BY <1>2 DEF UndoFile
<1>4. /\ cmd' = [x \in AddFields |-> cmd'[x]]
      /\ cmd'.feature = cmd.feature /\ cmd'.start = cmd.start
      /\ cmd'.made = cmd.made /\ cmd'.pc = "undo"
    BY <1>1 DEF UndoFile, Adding, AddFields
<1>5. S \ {p} # {} => cmd.made
    BY <1>6
<1> HIDE DEF S
<1> QED BY <1>1, <1>2, <1>3, <1>4, <1>5, <1>6, OneFile DEF CopyPcs

\* Taking a feature's directory away leaves a project.
LEMMA WithoutDirOK ==
    ASSUME ProjectOK(project), NEW f \in Features, project' = WithoutDir(project, f)
    PROVE  /\ ProjectOK(project)'
           /\ \A x \in Fields \ {"dirs", "files", "flaws"} : project'[x] = project[x]
           /\ project'.dirs = project.dirs \ {f}
           /\ project'.files = [project.files EXCEPT ![f] = {}]
           /\ project'.flaws = IF f = Protected
                               THEN project.flaws \ {"forbidden dependency"}
                               ELSE project.flaws
<1>1. /\ project' = [x \in Fields |-> project'[x]]
      /\ \A x \in Fields \ {"dirs", "files", "flaws"} : project'[x] = project[x]
      /\ project'.dirs = project.dirs \ {f}
      /\ project'.files = [project.files EXCEPT ![f] = {}]
      /\ project'.flaws = IF f = Protected
                          THEN project.flaws \ {"forbidden dependency"}
                          ELSE project.flaws
    BY DEF WithoutDir, ProjectOK, Fields
<1>2. /\ project.files \in [Features -> SUBSET Parts]
      /\ project.dirs \subseteq Features
      /\ project.flaws \subseteq Flaws
      /\ \A g \in Features : project.files[g] # {} => g \in project.dirs
      /\ "forbidden dependency" \in project.flaws => Protected \in project.dirs
    BY DEF ProjectOK
<1>3. project'.files \in [Features -> SUBSET Parts]
      /\ \A g \in Features : project'.files[g] # {} => g \in project'.dirs
    BY <1>1, <1>2
<1>4. /\ project'.flaws \subseteq Flaws
      /\ "forbidden dependency" \in project'.flaws => Protected \in project'.dirs
    BY <1>1, <1>2
<1>5. /\ project'.contract = project.contract /\ project'.listed = project.listed
      /\ project'.ruled = project.ruled /\ project'.generated = project.generated
    BY <1>1 DEF Fields
<1>6. project'.dirs \subseteq Features
    BY <1>1, <1>2
<1>7. ProjectOK(project')
    BY <1>1, <1>3, <1>4, <1>5, <1>6 DEF ProjectOK
<1> QED BY <1>1, <1>7 DEF ProjectOK

LEMMA SameProject ==
    ASSUME NEW a, NEW b, ProjectOK(a), ProjectOK(b), \A x \in Fields : a[x] = b[x]
    PROVE  a = b
<1>1. a = [x \in Fields |-> a[x]] /\ b = [x \in Fields |-> b[x]]
    BY DEF ProjectOK
<1>2. [x \in Fields |-> a[x]] = [x \in Fields |-> b[x]]
    OBVIOUS
<1> QED BY <1>1, <1>2

LEMMA SameFunction ==
    ASSUME NEW a \in [Features -> SUBSET Parts], NEW b \in [Features -> SUBSET Parts],
           \A g \in Features : a[g] = b[g]
    PROVE  a = b
OBVIOUS

LEMMA UndoDirsKeeps == ScaffoldInv /\ UndoDirs => ScaffoldInv'
<1> SUFFICES ASSUME ScaffoldInv, UndoDirs PROVE ScaffoldInv'
    OBVIOUS
<1>1. /\ Adding /\ Copying /\ ProjectOK(project) /\ ProjectOK(cmd.start)
      /\ cmd.feature \in Features /\ cmd.feature \notin cmd.start.dirs
      /\ cmd.pc = "undo" /\ broken' = broken
    BY WhichCommand DEF UndoDirs, CopyPcs, ScaffoldInv, Adding
<1>2. /\ cmd' = [x \in AddFields |-> cmd'[x]]
      /\ cmd'.feature = cmd.feature /\ cmd'.start = cmd.start
      /\ cmd'.made = cmd.made /\ cmd'.pc = "report"
    BY <1>1 DEF UndoDirs, Adding, AddFields
<1>3. \A g \in Features \ {cmd.feature} : project.files[g] = cmd.start.files[g]
    BY <1>1 DEF Copying
<1>4. /\ cmd.start.files \in [Features -> SUBSET Parts]
      /\ project.files \in [Features -> SUBSET Parts]
      /\ cmd.start.files[cmd.feature] = {}
      /\ cmd.feature = Protected => "forbidden dependency" \notin cmd.start.flaws
    BY <1>1 DEF ProjectOK
<1>5. CASE cmd.made /\ project' = WithoutDir(project, cmd.feature)
  <2>1. /\ ProjectOK(project)'
        /\ \A x \in Fields \ {"dirs", "files", "flaws"} : project'[x] = project[x]
        /\ project'.dirs = project.dirs \ {cmd.feature}
        /\ project'.files = [project.files EXCEPT ![cmd.feature] = {}]
        /\ project'.flaws = IF cmd.feature = Protected
                            THEN project.flaws \ {"forbidden dependency"}
                            ELSE project.flaws
      BY <1>1, <1>5, WithoutDirOK
  <2>2. project'.files = cmd.start.files
    <3>1. project'.files \in [Features -> SUBSET Parts]
        BY <2>1 DEF ProjectOK
    <3>2. \A g \in Features : project'.files[g] = cmd.start.files[g]
        BY <1>3, <1>4, <2>1
    <3> QED  BY <1>4, <3>1, <3>2, SameFunction
  <2>3. project'.dirs = cmd.start.dirs
      BY <1>1, <1>5, <2>1 DEF Copying
  <2>4. project.flaws = cmd.start.flaws
      BY <1>1 DEF Copying, Fields
  <2>12. /\ project'.flaws \in {project.flaws, project.flaws \ {"forbidden dependency"}}
         /\ cmd.feature # Protected => project'.flaws = project.flaws
      BY <2>1
  <2>5. project'.flaws = cmd.start.flaws
    <3>1. CASE cmd.feature # Protected
        BY <2>4, <2>12, <3>1
    <3>2. CASE cmd.feature = Protected
      <4>1. "forbidden dependency" \notin project.flaws
          BY <1>4, <2>4, <3>2
      <4>2. project.flaws \ {"forbidden dependency"} = project.flaws
          BY <4>1
      <4> QED  BY <2>4, <2>12, <4>2
    <3> QED  BY <3>1, <3>2
  <2>6. \A x \in Fields : project'[x] = cmd.start[x]
      BY <1>1, <2>1, <2>2, <2>3, <2>5 DEF Copying
  <2>11. ProjectOK(project')
      BY <2>1 DEF ProjectOK
  <2>7. project' = cmd.start
      BY <1>1, <2>6, <2>11, SameProject
  <2>8. ProjectOK(cmd.start)'
      BY <1>1, <1>2 DEF ProjectOK
  <2>9. Adding'
      BY <1>1, <1>2, <2>7, <2>8 DEF Adding, CopyPcs, ListPcs
  <2>10. OthersStay
      BY <2>1 DEF OthersStay, Fields
  <2> QED  BY <1>1, <1>2, <2>1, <2>9, <2>10, HandKeeps
<1>6. CASE project' = project /\ (cmd.made => ~cmd'.clean)
  <2>1. ProjectOK(project)' /\ ProjectOK(cmd.start)' /\ OthersStay
      BY <1>1, <1>2, <1>6 DEF ProjectOK, OthersStay
  <2>2. CASE cmd.made
    <3>1. Adding'
        BY <1>1, <1>2, <1>6, <2>1, <2>2 DEF Adding, CopyPcs, ListPcs
    <3> QED  BY <1>1, <1>2, <2>1, <3>1, HandKeeps
  <2>3. CASE ~cmd.made
    <3>6. project.files[cmd.feature] = {}
        BY <1>1, <2>3 DEF Copying
    <3>7. \A g \in Features : project.files[g] = cmd.start.files[g]
        BY <1>3, <1>4, <3>6
    <3>1. project.files = cmd.start.files
        BY <1>4, <3>7, SameFunction
    <3>2. project.dirs = cmd.start.dirs
        BY <1>1, <2>3 DEF Copying
    <3>3. \A x \in Fields : project[x] = cmd.start[x]
        BY <1>1, <3>1, <3>2 DEF Copying
    <3>4. project = cmd.start
        BY <1>1, <3>3, SameProject
    <3>5. Adding'
        BY <1>1, <1>2, <1>6, <2>1, <3>4 DEF Adding, CopyPcs, ListPcs
    <3> QED  BY <1>1, <1>2, <2>1, <3>5, HandKeeps
  <2> QED  BY <2>2, <2>3
<1>7. cmd.made \in BOOLEAN
    BY <1>1 DEF Adding
<1>8. cmd' = [cmd EXCEPT !.pc = "report", !.clean = FALSE] => ~cmd'.clean
    BY <1>1 DEF Adding, AddFields
<1> QED BY <1>5, <1>6, <1>7, <1>8 DEF UndoDirs

LEMMA ReportFailureKeeps == ScaffoldInv /\ ReportFailure => ScaffoldInv'
<1> SUFFICES ASSUME ScaffoldInv, ReportFailure PROVE ScaffoldInv'
    OBVIOUS
<1>1. /\ Adding /\ ProjectOK(project) /\ cmd.feature \in Features
      /\ cmd.pc = "report" /\ cmd' = Idle /\ project' = project
    BY WhichCommand DEF ReportFailure, Settle, ScaffoldInv, Adding
<1>2. ProjectOK(project)'
    BY <1>1 DEF ProjectOK
<1>3. CASE cmd.clean
  <2>1. project = cmd.start /\ broken' = broken
      BY <1>1, <1>3 DEF ReportFailure, Adding
  <2> QED  BY <1>1, <1>2, <2>1, HandFacts, BackToIdle DEF Adding
<1>4. CASE ~cmd.clean
  <2>1. broken' = broken \cup {cmd.feature}
      BY <1>4 DEF ReportFailure
  <2> QED  BY <1>1, <1>2, <2>1, HandFacts, BackToIdle
<1> QED BY <1>3, <1>4

\* A step on the contract, its backup or what is generated from it.
LEMMA ContractOK ==
    ASSUME ProjectOK(project), project' = [x \in Fields |-> project'[x]],
           \A x \in {"dirs", "files", "flaws"} : project'[x] = project[x],
           project'.contract \in {"intact", "torn", "absent"},
           project'.listed \cup project'.ruled \subseteq Features,
           project'.generated \subseteq Targets
    PROVE  ProjectOK(project)'
BY DEF ProjectOK

LEMMA ListingFacts ==
    ASSUME ScaffoldInv, cmd.pc \in ListPcs
    PROVE  /\ Adding /\ ProjectOK(project) /\ cmd.feature \in Features
           /\ cmd.feature \in project.dirs
BY WhichCommand DEF ScaffoldInv, Adding

LEMMA ReadForAddKeeps == ScaffoldInv /\ ReadForAdd => ScaffoldInv'
<1> SUFFICES ASSUME ScaffoldInv, ReadForAdd PROVE ScaffoldInv'
    OBVIOUS
<1>1. /\ Adding /\ ProjectOK(project) /\ cmd.feature \in Features
      /\ cmd.feature \in project.dirs /\ cmd.pc = "list"
    BY ListingFacts DEF ReadForAdd, ListPcs
<1>2. project' = project => ProjectOK(project)' /\ OthersStay
    BY <1>1 DEF ProjectOK, OthersStay
<1>3. CASE /\ cmd.feature \in project.listed \/ project.contract = "absent"
           /\ Succeed /\ project' = project
    BY <1>1, <1>2, <1>3, SucceedKeeps
<1>4. CASE Throw /\ project' = project
    BY <1>1, <1>2, <1>4, ThrowKeeps
<1>5. CASE /\ project' = [project EXCEPT !.backup = TRUE]
           /\ Goto("write") /\ project.contract = "intact"
  <2>1. /\ cmd' = [x \in AddFields |-> cmd'[x]]
        /\ \A x \in AddFields \ {"pc"} : cmd'[x] = cmd[x]
        /\ cmd'.pc = "write" /\ broken' = broken
      BY <1>1, <1>5 DEF Goto, Adding, AddFields
  <2>2. /\ project' = [x \in Fields |-> project'[x]]
        /\ \A x \in Fields \ {"backup"} : project'[x] = project[x]
      BY <1>1, <1>5 DEF ProjectOK, Fields
  <2>3. ProjectOK(project)' /\ OthersStay
      BY <1>1, <2>2, ContractOK DEF ProjectOK, OthersStay, Fields
  <2>4. ProjectOK(cmd.start)'
      BY <1>1, <2>1 DEF Adding, AddFields, ProjectOK
  <2>5. Adding'
      BY <1>1, <1>5, <2>1, <2>2, <2>4 DEF Adding, AddFields, Fields, CopyPcs, ListPcs
  <2> QED  BY <1>1, <2>1, <2>3, <2>5, HandKeeps DEF AddFields
<1> QED BY <1>3, <1>4, <1>5 DEF ReadForAdd

\* The command goes on at another step of the listing.
LEMMA ListingGoesOn ==
    ASSUME ScaffoldInv, cmd.pc \in ListPcs,
           cmd' = [x \in AddFields |-> cmd'[x]],
           \A x \in AddFields \ {"pc", "failed"} : cmd'[x] = cmd[x],
           cmd'.pc \in {"restore", "tidy"}, broken' = broken,
           project' = [x \in Fields |-> project'[x]],
           \A x \in Fields \ {"contract", "listed"} : project'[x] = project[x],
           project.contract # "absent", project'.contract \in {"intact", "torn"},
           project'.listed \subseteq Features,
           \A f \in Features \ {cmd.feature} :
               f \in project'.listed <=> f \in project.listed,
           cmd'.pc = "tidy" => cmd'.failed \/ cmd.feature \in project'.listed
    PROVE  ScaffoldInv'
<1>1. /\ Adding /\ ProjectOK(project) /\ cmd.feature \in Features
      /\ cmd.feature \in project.dirs
    BY ListingFacts
<1>2. ProjectOK(project)' /\ OthersStay
    BY <1>1, ContractOK DEF ProjectOK, OthersStay, Fields
<1>3. ProjectOK(cmd.start)'
    BY <1>1 DEF Adding, AddFields, ProjectOK
<1>4. Adding'
    BY <1>1, <1>3 DEF Adding, AddFields, Fields, CopyPcs, ListPcs
<1> QED BY <1>1, <1>2, <1>4, HandKeeps DEF AddFields

LEMMA WriteListKeeps == ScaffoldInv /\ WriteList => ScaffoldInv'
<1> SUFFICES ASSUME ScaffoldInv, WriteList PROVE ScaffoldInv'
    OBVIOUS
<1>1. /\ Adding /\ ProjectOK(project) /\ cmd.feature \in Features
      /\ cmd.pc = "write" /\ cmd.pc \in ListPcs /\ project.contract # "absent"
    BY ListingFacts DEF WriteList, ListPcs, Adding
<1>2. CASE /\ project' = [project EXCEPT !.listed = @ \cup {cmd.feature}]
           /\ Goto("tidy")
  <2>1. /\ cmd' = [x \in AddFields |-> cmd'[x]]
        /\ \A x \in AddFields \ {"pc"} : cmd'[x] = cmd[x]
        /\ cmd'.pc = "tidy" /\ broken' = broken
      BY <1>1, <1>2 DEF Goto, Adding, AddFields
  <2>2. /\ project' = [x \in Fields |-> project'[x]]
        /\ \A x \in Fields \ {"listed"} : project'[x] = project[x]
        /\ project'.listed = project.listed \cup {cmd.feature}
      BY <1>1, <1>2 DEF ProjectOK, Fields
  <2>3. project'.contract \in {"intact", "torn"} /\ project'.listed \subseteq Features
      BY <1>1, <2>2 DEF ProjectOK, Fields
  <2> QED  BY <1>1, <2>1, <2>2, <2>3, ListingGoesOn
<1>3. CASE TearContract /\ Goto("restore")
  <2>1. /\ cmd' = [x \in AddFields |-> cmd'[x]]
        /\ \A x \in AddFields \ {"pc"} : cmd'[x] = cmd[x]
        /\ cmd'.pc = "restore" /\ broken' = broken
      BY <1>1, <1>3 DEF Goto, Adding, AddFields
  <2>2. /\ project' = [x \in Fields |-> project'[x]]
        /\ \A x \in Fields \ {"contract"} : project'[x] = project[x]
        /\ project'.contract \in {"intact", "torn"}
      BY <1>1, <1>3 DEF TearContract, ProjectOK, Fields
  <2>3. project'.listed = project.listed /\ project.listed \subseteq Features
      BY <1>1, <2>2 DEF ProjectOK, Fields
  <2> QED  BY <1>1, <2>1, <2>2, <2>3, ListingGoesOn
<1> QED BY <1>2, <1>3 DEF WriteList

LEMMA RestoreContractKeeps == ScaffoldInv /\ RestoreContract => ScaffoldInv'
<1> SUFFICES ASSUME ScaffoldInv, RestoreContract PROVE ScaffoldInv'
    OBVIOUS
<1>1. /\ Adding /\ ProjectOK(project) /\ cmd.feature \in Features
      /\ cmd.pc = "restore" /\ cmd.pc \in ListPcs /\ project.contract # "absent"
    BY ListingFacts DEF RestoreContract, ListPcs, Adding
<1>2. /\ cmd' = [x \in AddFields |-> cmd'[x]]
      /\ \A x \in AddFields \ {"pc", "failed"} : cmd'[x] = cmd[x]
      /\ cmd'.pc = "tidy" /\ cmd'.failed /\ broken' = broken
    BY <1>1 DEF RestoreContract, Adding, AddFields
<1>3. /\ project' = [x \in Fields |-> project'[x]]
      /\ \A x \in Fields \ {"contract"} : project'[x] = project[x]
      /\ project'.contract \in {"intact", project.contract}
    BY <1>1 DEF RestoreContract, ProjectOK, Fields
<1>4. /\ project'.listed = project.listed /\ project.listed \subseteq Features
      /\ project'.contract \in {"intact", "torn"}
    BY <1>1, <1>3 DEF ProjectOK, Fields
<1> QED BY <1>1, <1>2, <1>3, <1>4, ListingGoesOn

LEMMA TidyKeeps == ScaffoldInv /\ Tidy => ScaffoldInv'
<1> SUFFICES ASSUME ScaffoldInv, Tidy PROVE ScaffoldInv'
    OBVIOUS
<1>1. /\ Adding /\ ProjectOK(project) /\ cmd.feature \in Features
      /\ cmd.pc = "tidy" /\ cmd.feature \in project.dirs
      /\ cmd.failed \/ cmd.feature \in project.listed
    BY ListingFacts DEF Tidy, ListPcs, Adding
<1>2. /\ project' = [x \in Fields |-> project'[x]]
      /\ \A x \in Fields \ {"backup"} : project'[x] = project[x]
    BY <1>1 DEF Tidy, ProjectOK, Fields
<1>3. ProjectOK(project)' /\ OthersStay
    BY <1>1, <1>2, ContractOK DEF ProjectOK, OthersStay, Fields
<1>4. project'.listed = project.listed /\ project'.dirs = project.dirs
    BY <1>2 DEF Fields
<1>5. CASE cmd.failed
    BY <1>1, <1>3, <1>5, ThrowKeeps DEF Tidy
<1>6. CASE ~cmd.failed
    BY <1>1, <1>3, <1>4, <1>6, SucceedKeeps DEF Tidy
<1> QED BY <1>5, <1>6

-----------------------------------------------------------------------------
(* scaffold remove *)

LEMMA RemoveKeeps ==
    ASSUME ScaffoldInv, NEW f \in Features \cup Others, NEW dry \in BOOLEAN,
           RemoveFeature(f, dry)
    PROVE  ScaffoldInv'
<1>1. cmd = Idle /\ ProjectOK(project)
    BY DEF RemoveFeature, Begin, ScaffoldInv
<1>2. project' = project /\ broken' = broken
    BY DEF RemoveFeature, Reject, Preview
<1>3. \A g : ~InHand(g)
    BY <1>1 DEF InHand
<1>4. CASE cmd' = Idle
    BY <1>1, <1>2, <1>3, <1>4, BackToIdle DEF ScaffoldInv, Agreement, ProjectOK
<1>5. CASE f \in project.dirs /\ cmd' = [pc |-> "delete", feature |-> f]
  <2>1. f \in Features
      BY <1>1, <1>5 DEF ProjectOK
  <2>2. cmd' = [x \in {"pc", "feature"} |-> cmd'[x]]
      BY <1>5
  <2>3. Removing'
      BY <1>5, <2>1, <2>2 DEF Removing
  <2>4. ProjectOK(project)' /\ Agreement'
      BY <1>1, <1>2, <1>3 DEF ScaffoldInv, Agreement, ProjectOK
  <2> QED  BY <2>3, <2>4 DEF ScaffoldInv
<1> QED BY <1>4, <1>5 DEF RemoveFeature, Reject, Preview, Settle

LEMMA RemovingFacts ==
    ASSUME ScaffoldInv, cmd.pc \in {"delete", "unlist", "post"}
    PROVE  /\ Removing /\ ProjectOK(project) /\ cmd.feature \in Features
           /\ cmd.pc # "delete" => cmd.feature \notin project.dirs
           /\ cmd.pc = "post" =>
                cmd.feature \notin project.listed \/ project.contract = "absent"
BY WhichCommand DEF ScaffoldInv, Removing

LEMMA RemoveGoto ==
    ASSUME Removing, NEW pc, Goto(pc)
    PROVE  /\ cmd' = [x \in {"pc", "feature"} |-> cmd'[x]]
           /\ cmd'.pc = pc /\ cmd'.feature = cmd.feature /\ broken' = broken
BY DEF Removing, Goto

LEMMA DeleteWorkspaceKeeps == ScaffoldInv /\ DeleteWorkspace => ScaffoldInv'
<1> SUFFICES ASSUME ScaffoldInv, DeleteWorkspace PROVE ScaffoldInv'
    OBVIOUS
<1>1. Removing /\ ProjectOK(project) /\ cmd.feature \in Features
    BY RemovingFacts DEF DeleteWorkspace
<1>2. CASE project' = WithoutDir(project, cmd.feature) /\ Goto("unlist")
  <2>1. /\ cmd' = [x \in {"pc", "feature"} |-> cmd'[x]]
        /\ cmd'.pc = "unlist" /\ cmd'.feature = cmd.feature /\ broken' = broken
      BY <1>1, <1>2, RemoveGoto
  <2>2. /\ ProjectOK(project)'
        /\ \A x \in Fields \ {"dirs", "files", "flaws"} : project'[x] = project[x]
        /\ project'.dirs = project.dirs \ {cmd.feature}
      BY <1>1, <1>2, WithoutDirOK
  <2>3. OthersStay
      BY <2>2 DEF OthersStay, Fields
  <2>4. Removing'
      BY <1>1, <2>1, <2>2 DEF Removing
  <2> QED  BY <1>1, <2>1, <2>2, <2>3, <2>4, HandKeeps
<1>3. ASSUME NEW left \in SUBSET project.files[cmd.feature],
             project' = [project EXCEPT !.files[cmd.feature] = left], Throw
      PROVE  ScaffoldInv'
  <2>1. left \in SUBSET Parts /\ (left # {} => cmd.feature \in project.dirs)
      BY <1>1, <1>3 DEF ProjectOK
  <2>2. ProjectOK(project)' /\ OthersStay
      BY <1>1, <1>3, <2>1, FilesOK
  <2> QED  BY <1>1, <1>3, <2>2, ThrowKeeps
<1> QED BY <1>2, <1>3 DEF DeleteWorkspace

LEMMA UnlistKeeps == ScaffoldInv /\ Unlist => ScaffoldInv'
<1> SUFFICES ASSUME ScaffoldInv, Unlist PROVE ScaffoldInv'
    OBVIOUS
<1>1. /\ Removing /\ ProjectOK(project) /\ cmd.feature \in Features
      /\ cmd.feature \notin project.dirs
    BY RemovingFacts DEF Unlist
<1>2. project' = project => ProjectOK(project)' /\ OthersStay
    BY <1>1 DEF ProjectOK, OthersStay
<1>3. CASE project.contract = "absent" /\ Goto("post") /\ project' = project
  <2>1. /\ cmd' = [x \in {"pc", "feature"} |-> cmd'[x]]
        /\ cmd'.pc = "post" /\ cmd'.feature = cmd.feature /\ broken' = broken
      BY <1>1, <1>3, RemoveGoto
  <2>2. Removing'
      BY <1>1, <1>3, <2>1 DEF Removing
  <2> QED  BY <1>1, <1>2, <1>3, <2>1, <2>2, HandKeeps
<1>4. CASE Throw /\ project' = project
    BY <1>1, <1>2, <1>4, ThrowKeeps
<1>5. CASE /\ project' = [project EXCEPT !.listed = @ \ {cmd.feature},
                                         !.ruled = @ \ {cmd.feature}]
           /\ Goto("post")
  <2>1. /\ cmd' = [x \in {"pc", "feature"} |-> cmd'[x]]
        /\ cmd'.pc = "post" /\ cmd'.feature = cmd.feature /\ broken' = broken
      BY <1>1, <1>5, RemoveGoto
  <2>2. /\ project' = [x \in Fields |-> project'[x]]
        /\ \A x \in Fields \ {"listed", "ruled"} : project'[x] = project[x]
        /\ project'.listed = project.listed \ {cmd.feature}
        /\ project'.ruled = project.ruled \ {cmd.feature}
      BY <1>1, <1>5 DEF ProjectOK, Fields
  <2>3. ProjectOK(project)' /\ OthersStay
      BY <1>1, <2>2, ContractOK DEF ProjectOK, OthersStay, Fields
  <2>4. Removing'
      BY <1>1, <2>1, <2>2 DEF Removing, Fields
  <2> QED  BY <1>1, <2>1, <2>3, <2>4, HandKeeps
<1>6. CASE TearContract /\ Throw /\ project.contract = "intact"
  <2>1. /\ project' = [x \in Fields |-> project'[x]]
        /\ \A x \in Fields \ {"contract"} : project'[x] = project[x]
        /\ project'.contract \in {"intact", "torn"}
      BY <1>1, <1>6 DEF TearContract, ProjectOK, Fields
  <2>2. ProjectOK(project)' /\ OthersStay
      BY <1>1, <1>6, <2>1, ContractOK DEF ProjectOK, OthersStay, Fields
  <2> QED  BY <1>1, <1>6, <2>2, ThrowKeeps
<1> QED BY <1>3, <1>4, <1>5, <1>6 DEF Unlist

\* What the scripts that run after a command may generate.
LEMMA RegeneratedOK ==
    ASSUME ProjectOK(project),
           \/ project' = [project EXCEPT !.generated = Regenerated(project)]
           \/ project' = project
    PROVE  /\ ProjectOK(project)'
           /\ \A x \in Fields \ {"generated"} : project'[x] = project[x]
<1>1. /\ project' = [x \in Fields |-> project'[x]]
      /\ \A x \in Fields \ {"generated"} : project'[x] = project[x]
      /\ project'.generated \in {project.generated, Targets}
    BY DEF ProjectOK, Fields, Regenerated
<1>2. project'.generated \subseteq Targets
    BY <1>1 DEF ProjectOK
<1> QED BY <1>1, <1>2, ContractOK DEF ProjectOK, Fields

LEMMA PostRemoveKeeps == ScaffoldInv /\ PostRemove => ScaffoldInv'
<1> SUFFICES ASSUME ScaffoldInv, PostRemove PROVE ScaffoldInv'
    OBVIOUS
<1>1. /\ Removing /\ ProjectOK(project) /\ cmd.feature \notin project.dirs
      /\ cmd.feature \notin project.listed \/ project.contract = "absent"
    BY RemovingFacts DEF PostRemove
<1>2. /\ ProjectOK(project)'
      /\ \A x \in Fields \ {"generated"} : project'[x] = project[x]
    BY <1>1, RegeneratedOK DEF PostRemove
<1>3. /\ project'.dirs = project.dirs /\ project'.listed = project.listed
      /\ project'.contract = project.contract
    BY <1>2 DEF Fields
<1> QED BY <1>1, <1>2, <1>3, SucceedKeeps DEF PostRemove, OthersStay

-----------------------------------------------------------------------------
(* scaffold init, validate and list, which have no feature in hand *)

LEMMA NoHandKeeps ==
    ASSUME ScaffoldInv, cmd = Idle \/ Renaming, (cmd = Idle \/ Renaming)',
           broken' = broken, ProjectOK(project)',
           project'.dirs = project.dirs, project'.listed = project.listed,
           project.contract = "absent" => project'.contract = "absent"
    PROVE  ScaffoldInv'
<1>1. \A f : ~InHand(f)
    BY DEF InHand, Renaming
<1> QED BY <1>1 DEF ScaffoldInv, Agreement

LEMMA InitProjectKeeps ==
    ASSUME ScaffoldInv, NEW o \in Options, NEW dry \in BOOLEAN, InitProject(o, dry)
    PROVE  ScaffoldInv'
<1>1. /\ cmd = Idle /\ ProjectOK(project) /\ project' = project
      /\ broken' = broken
    BY DEF InitProject, Begin, Reject, Preview, ScaffoldInv
<1>2. ProjectOK(project)'
    BY <1>1 DEF ProjectOK
<1>3. CASE cmd' = Idle
    BY <1>1, <1>2, <1>3, NoHandKeeps
<1>4. CASE /\ project.contract = "intact"
           /\ cmd' = [pc |-> "contract", old |-> project.identity, new |-> Identity(o),
                      texts |-> StagedTexts(project.identity, Identity(o)),
                      skip |-> o.skipCheck]
  <2>1. cmd' = [x \in {"pc", "old", "new", "texts", "skip"} |-> cmd'[x]]
        /\ cmd'.pc = "contract"
      BY <1>4
  <2>2. Renaming'
      BY <1>1, <1>4, <2>1 DEF Renaming
  <2> QED  BY <1>1, <1>2, <2>2, NoHandKeeps
<1> QED BY <1>3, <1>4 DEF InitProject, Reject, Preview, Settle

LEMMA RenamingFacts ==
    ASSUME ScaffoldInv, cmd.pc \in {"contract", "package", "texts"}
    PROVE  /\ Renaming /\ ProjectOK(project)
           /\ project.contract \in {"intact", "torn"}
BY WhichCommand DEF ScaffoldInv, Renaming, ProjectOK

\* A step of init writes the identity, package.json or a text, or tears the
\* contract.
LEMMA WritingKeeps ==
    ASSUME ScaffoldInv, Renaming, (cmd = Idle \/ Renaming)', broken' = broken,
           project' = [x \in Fields |-> project'[x]],
           \A x \in Fields \ {"identity", "package", "texts", "contract", "generated"} :
               project'[x] = project[x],
           project'.contract \in {"intact", "torn"},
           project'.generated \subseteq Targets
    PROVE  ScaffoldInv'
<1>1. ProjectOK(project)
    BY DEF ScaffoldInv
<1>2. /\ project'.listed = project.listed /\ project'.ruled = project.ruled
      /\ project'.dirs = project.dirs
      /\ \A x \in {"dirs", "files", "flaws"} : project'[x] = project[x]
    BY DEF Fields
<1>3. project'.listed \cup project'.ruled \subseteq Features
    BY <1>1, <1>2 DEF ProjectOK
<1>4. ProjectOK(project)'
    BY <1>1, <1>2, <1>3, ContractOK
<1> QED BY <1>2, <1>4, NoHandKeeps DEF Renaming

LEMMA InitGoto ==
    ASSUME Renaming, NEW pc \in {"package", "texts"}, Goto(pc),
           project'.contract # "absent"
    PROVE  Renaming' /\ broken' = broken
<1>1. cmd' = [x \in {"pc", "old", "new", "texts", "skip"} |-> cmd'[x]]
      /\ cmd'.pc = pc
    BY DEF Renaming, Goto
<1> QED BY <1>1 DEF Renaming, Goto

LEMMA WriteContractKeeps == ScaffoldInv /\ WriteContract => ScaffoldInv'
<1> SUFFICES ASSUME ScaffoldInv, WriteContract PROVE ScaffoldInv'
    OBVIOUS
<1>1. Renaming /\ ProjectOK(project) /\ project.contract \in {"intact", "torn"}
    BY RenamingFacts DEF WriteContract
<1>2. /\ project' = [x \in Fields |-> project'[x]]
      /\ \A x \in Fields \ {"identity", "contract"} : project'[x] = project[x]
      /\ project'.contract \in {project.contract, "intact", "torn"}
    BY <1>1 DEF WriteContract, TearContract, ProjectOK, Fields
<1>3. project'.contract \in {"intact", "torn"} /\ project'.generated \subseteq Targets
    BY <1>1, <1>2 DEF ProjectOK, Fields
<1>4. (cmd = Idle \/ Renaming)' /\ broken' = broken
    BY <1>1, <1>3, InitGoto DEF WriteContract, InitThrows, Settle, Goto
<1> QED BY <1>1, <1>2, <1>3, <1>4, WritingKeeps

LEMMA WritePackageKeeps == ScaffoldInv /\ WritePackage => ScaffoldInv'
<1> SUFFICES ASSUME ScaffoldInv, WritePackage PROVE ScaffoldInv'
    OBVIOUS
<1>1. Renaming /\ ProjectOK(project) /\ project.contract \in {"intact", "torn"}
    BY RenamingFacts DEF WritePackage
<1>2. /\ project' = [x \in Fields |-> project'[x]]
      /\ \A x \in Fields \ {"package"} : project'[x] = project[x]
    BY <1>1 DEF WritePackage, ProjectOK, Fields
<1>3. project'.contract \in {"intact", "torn"} /\ project'.generated \subseteq Targets
    BY <1>1, <1>2 DEF ProjectOK, Fields
<1>4. (cmd = Idle \/ Renaming)' /\ broken' = broken
    BY <1>1, <1>3, InitGoto DEF WritePackage, InitThrows, Settle, Goto
<1> QED BY <1>1, <1>2, <1>3, <1>4, WritingKeeps

LEMMA WriteTextKeeps ==
    ASSUME ScaffoldInv, NEW m \in DOMAIN Mentions, WriteText(m)
    PROVE  ScaffoldInv'
<1>1. Renaming /\ ProjectOK(project) /\ project.contract \in {"intact", "torn"}
    BY RenamingFacts DEF WriteText
<1>2. /\ project' = [x \in Fields |-> project'[x]]
      /\ \A x \in Fields \ {"texts"} : project'[x] = project[x]
    BY <1>1 DEF WriteText, ProjectOK, Fields
<1>3. project'.contract \in {"intact", "torn"} /\ project'.generated \subseteq Targets
    BY <1>1, <1>2 DEF ProjectOK, Fields
<1>4. broken' = broken
    BY DEF WriteText, InitThrows
<1>5. CASE cmd' = [cmd EXCEPT !.texts = @ \ {m}]
  <2>1. cmd' = [x \in {"pc", "old", "new", "texts", "skip"} |-> cmd'[x]]
        /\ cmd'.pc = cmd.pc
      BY <1>1, <1>5 DEF Renaming
  <2>2. Renaming'
      BY <1>1, <1>3, <2>1 DEF Renaming
  <2> QED  BY <1>1, <1>2, <1>3, <1>4, <2>2, WritingKeeps
<1>6. CASE cmd' = Idle
    BY <1>1, <1>2, <1>3, <1>4, <1>6, WritingKeeps
<1> QED BY <1>5, <1>6 DEF WriteText, InitThrows, Settle

LEMMA PostInitKeeps == ScaffoldInv /\ PostInit => ScaffoldInv'
<1> SUFFICES ASSUME ScaffoldInv, PostInit PROVE ScaffoldInv'
    OBVIOUS
<1>1. Renaming /\ ProjectOK(project) /\ project.contract \in {"intact", "torn"}
    BY RenamingFacts DEF PostInit
<1>2. /\ ProjectOK(project)'
      /\ \A x \in Fields \ {"generated"} : project'[x] = project[x]
    BY <1>1, RegeneratedOK DEF PostInit
<1>3. /\ project'.dirs = project.dirs /\ project'.listed = project.listed
      /\ project'.contract = project.contract
    BY <1>2 DEF Fields
<1>4. cmd' = Idle /\ broken' = broken
    BY DEF PostInit, Settle
<1> QED BY <1>1, <1>2, <1>3, <1>4, NoHandKeeps

LEMMA ValidateKeeps ==
    ASSUME ScaffoldInv, NEW fix \in BOOLEAN, Validate(fix)
    PROVE  ScaffoldInv'
<1>1. cmd = Idle /\ ProjectOK(project)
    BY DEF Validate, ScaffoldInv
<1>2. /\ cmd' = Idle /\ broken' = broken
      /\ \/ project' = [project EXCEPT !.generated = Regenerated(project)]
         \/ project' = project
    BY DEF Validate, Reject, Settle
<1>3. /\ ProjectOK(project)'
      /\ \A x \in Fields \ {"generated"} : project'[x] = project[x]
    BY <1>1, <1>2, RegeneratedOK
<1>4. /\ project'.dirs = project.dirs /\ project'.listed = project.listed
      /\ project'.contract = project.contract
    BY <1>3 DEF Fields
<1> QED BY <1>1, <1>2, <1>3, <1>4, NoHandKeeps

LEMMA ListKeeps == ScaffoldInv /\ List => ScaffoldInv'
<1> SUFFICES ASSUME ScaffoldInv, List PROVE ScaffoldInv'
    OBVIOUS
<1>1. /\ cmd = Idle /\ cmd' = Idle /\ broken' = broken /\ project' = project
      /\ ProjectOK(project)
    BY DEF List, Begin, Settle, ScaffoldInv
<1> QED BY <1>1, NoHandKeeps DEF ProjectOK

-----------------------------------------------------------------------------
(* the process is killed, or people edit *)

LEMMA KillKeeps == ScaffoldInv /\ Kill => ScaffoldInv'
<1> SUFFICES ASSUME ScaffoldInv, Kill PROVE ScaffoldInv'
    OBVIOUS
<1>1. /\ cmd # Idle /\ cmd' = Idle /\ project' = project
      /\ ProjectOK(project) /\ ProjectOK(project)'
    BY DEF Kill, Settle, ScaffoldInv, ProjectOK
<1>2. CASE Adding \/ Removing
  <2>1. broken' = broken \cup {cmd.feature}
      BY <1>2 DEF Kill, Adding, Removing, AddFields
  <2> QED  BY <1>1, <1>2, <2>1, HandFacts, BackToIdle
<1>3. CASE Renaming
  <2>1. broken' = broken
      BY <1>3 DEF Kill, Renaming
  <2> QED  BY <1>1, <1>3, <2>1, NoHandKeeps
<1> QED BY <1>1, <1>2, <1>3 DEF ScaffoldInv

\* Between commands, a step that calls broken what it puts out of order.
LEMMA EditKeepsOthers ==
    ASSUME ScaffoldInv, cmd = Idle, cmd' = Idle, NEW F,
           broken' = broken \cup F, ProjectOK(project)',
           project.contract = "absent" => project'.contract = "absent",
           \A g \in Features \ F : /\ g \in project'.listed <=> g \in project.listed
                                   /\ g \in project'.dirs <=> g \in project.dirs
    PROVE  ScaffoldInv'
<1>1. \A f : ~InHand(f)
    BY DEF InHand
<1> QED BY <1>1, BackToIdle DEF ScaffoldInv, Agreement

LEMMA EditWorkspacesKeeps ==
    ASSUME ScaffoldInv, cmd = Idle, cmd' = Idle, EditWorkspaces
    PROVE  ScaffoldInv'
<1>1. ProjectOK(project)
    BY DEF ScaffoldInv
<1>2. PICK f \in Features :
        /\ \/ \E parts \in SUBSET Parts :
                project' = [project EXCEPT !.dirs = @ \cup {f}, !.files[f] = parts]
           \/ project' = WithoutDir(project, f)
        /\ broken' = broken \cup {f}
    BY DEF EditWorkspaces
<1>3. ASSUME NEW parts \in SUBSET Parts,
             project' = [project EXCEPT !.dirs = @ \cup {f}, !.files[f] = parts]
      PROVE  ScaffoldInv'
  <2>1. /\ project' = [x \in Fields |-> project'[x]]
        /\ \A x \in Fields \ {"dirs", "files"} : project'[x] = project[x]
        /\ project'.dirs = project.dirs \cup {f}
        /\ project'.files = [project.files EXCEPT ![f] = parts]
      BY <1>1, <1>3 DEF ProjectOK, Fields
  <2>2. /\ project.files \in [Features -> SUBSET Parts]
        /\ \A g \in Features : project.files[g] # {} => g \in project.dirs
        /\ "forbidden dependency" \in project.flaws => Protected \in project.dirs
        /\ project.dirs \subseteq Features
      BY <1>1 DEF ProjectOK
  <2>3. /\ project'.files \in [Features -> SUBSET Parts]
        /\ \A g \in Features : project'.files[g] # {} => g \in project'.dirs
        /\ project'.dirs \subseteq Features
      BY <2>1, <2>2
  <2>4. /\ project'.contract = project.contract /\ project'.listed = project.listed
        /\ project'.ruled = project.ruled /\ project'.generated = project.generated
        /\ project'.flaws = project.flaws
      BY <2>1 DEF Fields
  <2>5. ProjectOK(project')
      BY <1>1, <2>1, <2>2, <2>3, <2>4 DEF ProjectOK
  <2>6. ProjectOK(project)'
      BY <2>5 DEF ProjectOK
  <2>7. \A g \in Features \ {f} : /\ g \in project'.listed <=> g \in project.listed
                                  /\ g \in project'.dirs <=> g \in project.dirs
      BY <2>1, <2>4
  <2> QED  BY <1>2, <2>4, <2>6, <2>7, EditKeepsOthers
<1>4. CASE project' = WithoutDir(project, f)
  <2>1. /\ ProjectOK(project)'
        /\ \A x \in Fields \ {"dirs", "files", "flaws"} : project'[x] = project[x]
        /\ project'.dirs = project.dirs \ {f}
      BY <1>1, <1>4, WithoutDirOK
  <2>2. project'.contract = project.contract /\ project'.listed = project.listed
      BY <2>1 DEF Fields
  <2> QED  BY <1>2, <2>1, <2>2, EditKeepsOthers
<1> QED BY <1>2, <1>3, <1>4

LEMMA EditContractKeeps ==
    ASSUME ScaffoldInv, cmd' = Idle, EditContract
    PROVE  ScaffoldInv'
<1>1. ProjectOK(project) /\ broken' = Features
    BY DEF ScaffoldInv, EditContract
<1>2. /\ project' = [x \in Fields |-> project'[x]]
      /\ \A x \in Fields \ {"contract", "listed", "ruled"} : project'[x] = project[x]
      /\ project'.contract \in {"intact", "absent"}
      /\ project'.listed \cup project'.ruled \subseteq Features
  <2>1. CASE project' = [project EXCEPT !.contract = "absent"]
      BY <1>1, <2>1 DEF ProjectOK, Fields
  <2>2. CASE \E listed \in SUBSET Features :
               project' = [project EXCEPT !.contract = "intact", !.listed = listed,
                                !.ruled = Features]
    <3>1. PICK listed \in SUBSET Features :
               project' = [project EXCEPT !.contract = "intact", !.listed = listed,
                                !.ruled = Features]
        BY <2>2
    <3>2. /\ project' = [x \in Fields |-> project'[x]]
          /\ \A x \in Fields \ {"contract", "listed", "ruled"} : project'[x] = project[x]
        BY <1>1, <3>1 DEF ProjectOK, Fields
    <3>3. /\ project'.contract = "intact" /\ project'.listed = listed
          /\ project'.ruled = Features
        BY <1>1, <3>1 DEF ProjectOK, Fields
    <3> QED  BY <3>2, <3>3
  <2>3. \/ project' = [project EXCEPT !.contract = "absent"]
        \/ \E listed \in SUBSET Features :
             project' = [project EXCEPT !.contract = "intact", !.listed = listed,
                                !.ruled = Features]
      BY Zenon DEF EditContract
  <2> QED  BY <2>1, <2>2, <2>3, Zenon
<1>4. project'.generated \subseteq Targets
    BY <1>1, <1>2 DEF ProjectOK, Fields
<1>5. ProjectOK(project)'
    BY <1>1, <1>2, <1>4, ContractOK DEF Fields
<1> QED BY <1>1, <1>5, BackToIdle

LEMMA EditOtherKeeps ==
    ASSUME ScaffoldInv, cmd = Idle, cmd' = Idle, EditOther
    PROVE  ScaffoldInv'
<1>1. ProjectOK(project) /\ broken' = broken
    BY DEF ScaffoldInv, EditOther
<1>2. /\ project' = [x \in Fields |-> project'[x]]
      /\ \A x \in Fields \ {"flaws", "generated"} : project'[x] = project[x]
      /\ project'.generated \subseteq Targets
    BY <1>1 DEF EditOther, ProjectOK, Fields
<1>3. /\ project'.flaws \subseteq Flaws
      /\ "forbidden dependency" \in project'.flaws =>
           \/ "forbidden dependency" \in project.flaws
           \/ "package.json" \in project.files[Protected]
  <2>1. CASE \E w \in Flaws :
               /\ w = "forbidden dependency" =>
                    "package.json" \in project.files[Protected]
               /\ project' = [project EXCEPT !.flaws = @ \cup {w}]
    <3>1. PICK w \in Flaws :
               /\ w = "forbidden dependency" =>
                    "package.json" \in project.files[Protected]
               /\ project' = [project EXCEPT !.flaws = @ \cup {w}]
        BY <2>1
    <3>2. project'.flaws = project.flaws \cup {w} /\ project.flaws \subseteq Flaws
        BY <1>1, <3>1 DEF ProjectOK, Fields
    <3> QED  BY <3>1, <3>2
  <2>2. CASE \E t \in Targets : project' = [project EXCEPT !.generated = @ \ {t}]
    <3>1. project'.flaws = project.flaws /\ project.flaws \subseteq Flaws
        BY <1>1, <2>2 DEF ProjectOK, Fields
    <3> QED  BY <3>1
  <2> QED  BY <2>1, <2>2, Zenon DEF EditOther
<1>4. "forbidden dependency" \in project'.flaws => Protected \in project.dirs
    BY <1>1, <1>3, ScaffoldAssumption DEF ProjectOK
<1>5. /\ project'.dirs = project.dirs /\ project'.files = project.files
      /\ project'.contract = project.contract /\ project'.listed = project.listed
      /\ project'.ruled = project.ruled
    BY <1>2 DEF Fields
<1>6. ProjectOK(project')
    BY <1>1, <1>2, <1>3, <1>4, <1>5 DEF ProjectOK
<1>7. ProjectOK(project)'
    BY <1>6 DEF ProjectOK
<1> QED BY <1>1, <1>5, <1>7, NoHandKeeps

-----------------------------------------------------------------------------
LEMMA ScaffoldKeep == ScaffoldInv /\ [ScaffoldNext]_scaffoldVars => ScaffoldInv'
<1> SUFFICES ASSUME ScaffoldInv, [ScaffoldNext]_scaffoldVars PROVE ScaffoldInv'
    OBVIOUS
<1>1. CASE UNCHANGED scaffoldVars
  <2>1. /\ project' = project /\ cmd' = cmd /\ broken' = broken
      BY <1>1 DEF scaffoldVars
  <2>2. ProjectOK(project)' /\ Agreement'
      BY <2>1 DEF ScaffoldInv, ProjectOK, Agreement, InHand
  <2>3. Adding => Adding'
      BY <2>1 DEF Adding, Copying, ProjectOK
  <2>4. (Removing => Removing') /\ (Renaming => Renaming')
      BY <2>1 DEF Removing, Renaming
  <2> QED  BY <2>1, <2>2, <2>3, <2>4 DEF ScaffoldInv
<1>2. CASE \E f \in Features \cup Others, dry \in BOOLEAN :
              AddFeature(f, dry) \/ RemoveFeature(f, dry)
    BY <1>2, AddKeeps, RemoveKeeps
<1>3. CASE \E p \in Parts : CopyFile(p) \/ UndoFile(p)
    BY <1>3, CopyFileKeeps, UndoFileKeeps
<1>4. CASE MakeDirs \/ UndoDirs \/ ReportFailure
    BY <1>4, MakeDirsKeeps, UndoDirsKeeps, ReportFailureKeeps
<1>5. CASE ReadForAdd \/ WriteList \/ RestoreContract \/ Tidy
    BY <1>5, ReadForAddKeeps, WriteListKeeps, RestoreContractKeeps, TidyKeeps
<1>6. CASE DeleteWorkspace \/ Unlist \/ PostRemove
    BY <1>6, DeleteWorkspaceKeeps, UnlistKeeps, PostRemoveKeeps
<1>7. CASE \E o \in Options, dry \in BOOLEAN : InitProject(o, dry)
    BY <1>7, InitProjectKeeps
<1>8. CASE WriteContract \/ WritePackage \/ PostInit
    BY <1>8, WriteContractKeeps, WritePackageKeeps, PostInitKeeps
<1>9. CASE \E m \in DOMAIN Mentions : WriteText(m)
    BY <1>9, WriteTextKeeps
<1>10. CASE (\E fix \in BOOLEAN : Validate(fix)) \/ List \/ Kill
    BY <1>10, ValidateKeeps, ListKeeps, KillKeeps
<1>11. CASE Edit
  <2>1. cmd = Idle /\ cmd' = Idle
      BY <1>11 DEF Edit
  <2> QED  BY <1>11, <2>1, EditWorkspacesKeeps, EditContractKeeps, EditOtherKeeps
           DEF Edit
<1> QED BY <1>1, <1>2, <1>3, <1>4, <1>5, <1>6, <1>7, <1>8, <1>9, <1>10, <1>11
        DEF ScaffoldNext

LEMMA ScaffoldAlways == ScaffoldSpec => []ScaffoldInv
BY ScaffoldStarts, ScaffoldKeep, PTL DEF ScaffoldSpec

\* An add that fails while it copies, and whose rollback could remove what it
\* had to, leaves the project as it found it (scaffold-add.ts:106).
THEOREM RollbackAlwaysRestores == ScaffoldSpec => []RollbackRestores
<1>1. ScaffoldInv => RollbackRestores
    BY IdleFacts DEF ScaffoldInv, Adding, Removing, Renaming, RollbackRestores
<1> QED BY <1>1, ScaffoldAlways, PTL

\* Between commands the contract lists exactly the features on disk, but for
\* those that a fault, a kill or a hand left half way (scaffold-add.ts:133,
\* scaffold-remove.ts:79).
THEOREM ContractAndDiskAgree == ScaffoldSpec => []ContractMatchesDisk
<1>1. ScaffoldInv => ContractMatchesDisk
    BY DEF ScaffoldInv, Agreement, InHand, ContractMatchesDisk
<1> QED BY <1>1, ScaffoldAlways, PTL
-----------------------------------------------------------------------------
(* types of what ScaffoldInv does not speak of *)

UsedOK == used \in [commands : 0 .. MaxCommands, faults : 0 .. MaxFaults,
                    edits : 0 .. MaxEdits]

RestOK ==
    /\ outcome.exit \in {0, 1, 137}
    /\ broken \subseteq Features
    /\ drifted \in BOOLEAN

TypeInv == ScaffoldInv /\ UsedOK /\ RestOK

\* However a step counts itself.
LEMMA CountKeeps ==
    ASSUME UsedOK,
           \/ UNCHANGED used
           \/ Begin \/ Works \/ Fails
           \/ \E fix \in BOOLEAN : Validate(fix)
           \/ Edit
    PROVE  UsedOK'
<1>1. /\ MaxCommands \in Nat /\ MaxFaults \in Nat /\ MaxEdits \in Nat
      /\ used.commands \in 0 .. MaxCommands /\ used.faults \in 0 .. MaxFaults
      /\ used.edits \in 0 .. MaxEdits
    BY ScaffoldAssumption DEF ScaffoldAssumption, UsedOK
<1>2. CASE UNCHANGED used \/ Works
    BY <1>2 DEF Works, UsedOK
<1>3. CASE Begin \/ Fails \/ Edit
    BY <1>1, <1>3 DEF Begin, Fails, Edit, UsedOK
<1>4. CASE \E fix \in BOOLEAN : Validate(fix)
  <2>1. PICK fix \in BOOLEAN : Validate(fix)
      BY <1>4
  <2>2. PICK runs \in BOOLEAN :
          /\ used.commands < MaxCommands
          /\ runs \/ used.faults < MaxFaults
          /\ used' = [used EXCEPT !.commands = @ + 1,
                                  !.faults = IF runs THEN @ ELSE @ + 1]
      BY <2>1 DEF Validate
  <2>3. CASE runs
    <3>1. used' = [used EXCEPT !.commands = used.commands + 1, !.faults = used.faults]
        BY <2>2, <2>3
    <3>2. used.commands + 1 \in 0 .. MaxCommands
        BY <1>1, <2>2
    <3> QED  BY <1>1, <3>1, <3>2 DEF UsedOK
  <2>4. CASE ~runs
    <3>1. used' = [used EXCEPT !.commands = used.commands + 1,
                               !.faults = used.faults + 1]
        BY <2>2, <2>4
    <3>2. used.commands + 1 \in 0 .. MaxCommands /\ used.faults + 1 \in 0 .. MaxFaults
        BY <1>1, <2>2, <2>4
    <3> QED  BY <1>1, <3>1, <3>2 DEF UsedOK
  <2> QED  BY <2>3, <2>4
<1> QED BY <1>2, <1>3, <1>4

\* A step that ends the command of a feature, or goes on with it.
LEMMA FeatureRest ==
    ASSUME ScaffoldInv, RestOK, Adding \/ Removing,
           \/ Throw \/ Succeed
           \/ UNCHANGED <<outcome, broken, drifted>>
           \/ ReportFailure
    PROVE  RestOK'
<1>1. cmd.feature \in Features
    BY HandFacts
<1>2. CASE Throw \/ Succeed
    BY <1>1, <1>2 DEF Throw, Succeed, Settle, RestOK
<1>3. CASE UNCHANGED <<outcome, broken, drifted>>
    BY <1>3 DEF RestOK
<1>4. CASE ReportFailure
    BY <1>1, <1>4 DEF ReportFailure, Settle, RestOK
<1> QED BY <1>2, <1>3, <1>4

LEMMA AddRest ==
    ASSUME TypeInv,
           \/ MakeDirs \/ (\E p \in Parts : CopyFile(p) \/ UndoFile(p))
           \/ UndoDirs \/ ReportFailure
    PROVE  UsedOK' /\ RestOK'
<1>1. Adding
    BY WhichCommand DEF TypeInv, MakeDirs, CopyFile, UndoFile, UndoDirs, ReportFailure,
                        CopyPcs
<1>2. ReportFailure \/ UNCHANGED <<outcome, broken, drifted>>
    BY DEF MakeDirs, CopyFile, UndoFile, UndoDirs
<1>3. UNCHANGED used \/ Works \/ Fails
    BY DEF MakeDirs, CopyFile, UndoFile, UndoDirs, ReportFailure
<1> QED BY <1>1, <1>2, <1>3, FeatureRest, CountKeeps DEF TypeInv

LEMMA ListRest ==
    ASSUME TypeInv, ReadForAdd \/ WriteList \/ RestoreContract \/ Tidy
    PROVE  UsedOK' /\ RestOK'
<1>1. Adding
    BY WhichCommand DEF TypeInv, ReadForAdd, WriteList, RestoreContract, Tidy, ListPcs
<1>2. Throw \/ Succeed \/ UNCHANGED <<outcome, broken, drifted>>
    BY DEF ReadForAdd, WriteList, RestoreContract, Tidy, Goto
<1>3. Works \/ Fails
    BY DEF ReadForAdd, WriteList, RestoreContract, Tidy
<1> QED BY <1>1, <1>2, <1>3, FeatureRest, CountKeeps DEF TypeInv

LEMMA RemoveRest ==
    ASSUME TypeInv, DeleteWorkspace \/ Unlist \/ PostRemove
    PROVE  UsedOK' /\ RestOK'
<1>1. Removing
    BY WhichCommand DEF TypeInv, DeleteWorkspace, Unlist, PostRemove
<1>2. Throw \/ Succeed \/ UNCHANGED <<outcome, broken, drifted>>
    BY DEF DeleteWorkspace, Unlist, PostRemove, Goto
<1>3. Works \/ Fails
    BY DEF DeleteWorkspace, Unlist, PostRemove
<1> QED BY <1>1, <1>2, <1>3, FeatureRest, CountKeeps DEF TypeInv

\* Commands that begin, and those of one step.
LEMMA BeginRest ==
    ASSUME TypeInv,
           \/ \E f \in Features \cup Others, dry \in BOOLEAN :
                  AddFeature(f, dry) \/ RemoveFeature(f, dry)
           \/ \E o \in Options, dry \in BOOLEAN : InitProject(o, dry)
           \/ \E fix \in BOOLEAN : Validate(fix)
           \/ List
    PROVE  UsedOK' /\ RestOK'
<1>1. Begin \/ \E fix \in BOOLEAN : Validate(fix)
    BY DEF AddFeature, RemoveFeature, InitProject, List
<1>2. broken' = broken
    BY Zenon DEF AddFeature, RemoveFeature, InitProject, Validate, List, Reject, Preview
<1>3. outcome'.exit \in {0, 1, 137}
  <2>1. outcome' = outcome \/ \E code \in {0, 1} : \E said : Settle(code, said)
      BY Zenon DEF AddFeature, RemoveFeature, InitProject, Validate, List, Reject, Preview
  <2> QED  BY <2>1 DEF TypeInv, RestOK, Settle
<1>4. drifted' \in BOOLEAN
  <2>1. drifted \in BOOLEAN
      BY DEF TypeInv, RestOK
  <2>2. CASE \E o \in Options, dry \in BOOLEAN : InitProject(o, dry)
    <3>1. PICK o \in Options, dry \in BOOLEAN : InitProject(o, dry)
        BY <2>2
    <3>2. \/ drifted' = drifted
          \/ drifted' = (drifted \/ Unhandled(project.identity, Identity(o)))
        BY <3>1, Zenon DEF InitProject, Reject, Preview
    <3> QED  BY <2>1, <3>2
  <2>3. CASE drifted' = drifted
      BY <2>1, <2>3
  <2> QED  BY <2>2, <2>3 DEF AddFeature, RemoveFeature, Validate, List, Reject, Preview
<1> QED BY <1>1, <1>2, <1>3, <1>4, CountKeeps DEF TypeInv, RestOK

LEMMA InitRest ==
    ASSUME TypeInv,
           \/ WriteContract \/ WritePackage \/ PostInit
           \/ \E m \in DOMAIN Mentions : WriteText(m)
    PROVE  UsedOK' /\ RestOK'
<1>1. Works \/ Fails
    BY DEF WriteContract, WritePackage, PostInit, WriteText
<1>2. broken' = broken /\ (outcome' = outcome \/ outcome'.exit \in {0, 1})
    BY DEF WriteContract, WritePackage, PostInit, WriteText, InitThrows, Goto, Settle
<1>3. drifted' \in {drifted, TRUE}
    BY Zenon DEF WriteContract, WritePackage, PostInit, WriteText, InitThrows, Goto
<1> QED BY <1>1, <1>2, <1>3, CountKeeps DEF TypeInv, RestOK

LEMMA KillEditRest ==
    ASSUME TypeInv, Kill \/ Edit
    PROVE  UsedOK' /\ RestOK'
<1>1. CASE Kill
  <2>1. Fails /\ outcome'.exit = 137
      BY <1>1 DEF Kill, Settle
  <2>2. broken' = broken \/ broken' = broken \cup {cmd.feature}
      BY <1>1 DEF Kill
  <2>3. "feature" \in DOMAIN cmd => cmd.feature \in Features
      BY HandFacts, IdleFacts DEF TypeInv, ScaffoldInv, Renaming
  <2>4. broken' \subseteq Features
      BY <1>1, <2>3 DEF Kill, TypeInv, RestOK
  <2>5. drifted' \in {drifted, TRUE}
      BY <1>1, Zenon DEF Kill
  <2> QED  BY <2>1, <2>4, <2>5, CountKeeps DEF TypeInv, RestOK
<1>2. CASE Edit
  <2>1. outcome' = outcome /\ drifted' \in {drifted, TRUE}
      BY <1>2 DEF Edit, EditWorkspaces, EditContract, EditOther
  <2>2. broken' \subseteq Features
      BY <1>2 DEF Edit, EditWorkspaces, EditContract, EditOther, TypeInv, RestOK
  <2> QED  BY <1>2, <2>1, <2>2, CountKeeps DEF TypeInv, RestOK
<1> QED BY <1>1, <1>2

LEMMA TypeStarts == ScaffoldInit => TypeInv
<1> SUFFICES ASSUME ScaffoldInit PROVE TypeInv
    OBVIOUS
<1>1. UsedOK
    BY ScaffoldAssumption DEF ScaffoldAssumption, ScaffoldInit, UsedOK
<1>2. RestOK
    BY DEF ScaffoldInit, RestOK
<1> QED BY <1>1, <1>2, ScaffoldStarts DEF TypeInv

LEMMA TypeKeep == TypeInv /\ [ScaffoldNext]_scaffoldVars => TypeInv'
<1> SUFFICES ASSUME TypeInv, [ScaffoldNext]_scaffoldVars PROVE TypeInv'
    OBVIOUS
<1>1. ScaffoldInv'
    BY ScaffoldKeep DEF TypeInv
<1>2. CASE UNCHANGED scaffoldVars
    BY <1>1, <1>2 DEF scaffoldVars, TypeInv, UsedOK, RestOK
<1>3. CASE ScaffoldNext
  <2>1. UsedOK' /\ RestOK'
      BY <1>3, AddRest, ListRest, RemoveRest, BeginRest, InitRest, KillEditRest
         DEF ScaffoldNext
  <2> QED  BY <1>1, <2>1 DEF TypeInv
<1> QED BY <1>1, <1>2, <1>3 DEF TypeInv

LEMMA TypeAlways == ScaffoldSpec => []TypeInv
BY TypeStarts, TypeKeep, PTL DEF ScaffoldSpec

\* The project stays one that the commands can read, whatever fails: files lie
\* in the workspaces that exist, the contract lists features only, exit codes
\* are 0 and 1, or 137 when the process was killed (scaffold-add.ts:66,
\* scaffold-remove.ts:52, scaffold-init.ts:39).
THEOREM ScaffoldTyped == ScaffoldSpec => []ScaffoldTypeOK
<1>1. TypeInv => ScaffoldTypeOK
    BY DEF TypeInv, ScaffoldInv, ProjectOK, UsedOK, RestOK, ScaffoldTypeOK
<1> QED BY <1>1, TypeAlways, PTL
-----------------------------------------------------------------------------
(* what the replacements do to a text that is a name *)

Naming == [NameFields -> Names]

LEMMA NothingToReplace ==
    ASSUME NEW text \in Names, NEW old \in Naming, NEW new, NEW f \in NameFields,
           old[f] = new[f] \/ old[f] \notin SubSeqs(text)
    PROVE  ReplacedOne(text, old, new, f) = text
<1>1. CASE old[f] = new[f] \/ TooShort(old[f])
    BY <1>1 DEF ReplacedOne
<1>2. CASE old[f] # new[f] /\ ~TooShort(old[f])
  <2>1. old[f] \notin SubSeqs(text)
      BY <1>2
  <2>2. text \in SubSeqs(text)
    <3>1. Len(text) \in Nat /\ SubSeq(text, 0 + 1, Len(text)) = text
        BY DEF Names
    <3> QED  BY <3>1 DEF SubSeqs
  <2>3. old[f] # text
      BY <2>1, <2>2
  <2>4. Len(old[f]) \in Nat /\ Len(old[f]) # 0
      BY <1>2 DEF Naming, Names, TooShort
  <2>5. ReplaceAllSubSeqs(new[f], old[f], text) = text
      BY <2>1, <2>3, <2>4, Zenon DEF ReplaceAllSubSeqs
  <2> QED  BY <2>5 DEF ReplacedOne
<1> QED BY <1>1, <1>2

LEMMA AllReplaced ==
    ASSUME NEW old, NEW new, NEW f, old[f] # new[f], ~TooShort(old[f])
    PROVE  ReplacedOne(old[f], old, new, f) = new[f]
<1>1. ReplaceAllSubSeqs(new[f], old[f], old[f]) = new[f]
    BY Zenon DEF ReplaceAllSubSeqs
<1> QED BY <1>1 DEF ReplacedOne

\* The text after each replacement is that of the replacement on the text before.
LEMMA StageEquation ==
    ASSUME NEW text, NEW old, NEW new
    PROVE  /\ Stages(text, old, new)[0] = text
           /\ \A k \in 1 .. 9 :
                Stages(text, old, new)[k] =
                  ReplacedOne(Stages(text, old, new)[k - 1], old, new, ReplacementOrder[k])
<1> DEFINE R(t, k) == ReplacedOne(t, old, new, ReplacementOrder[k])
           Is(s) == s = [k \in 0 .. Len(ReplacementOrder) |->
                           IF k = 0 THEN text ELSE R(s[k - 1], k)]
           t1 == R(text, 1)
           t2 == R(t1, 2)
           t3 == R(t2, 3)
           t4 == R(t3, 4)
           t5 == R(t4, 5)
           t6 == R(t5, 6)
           t7 == R(t6, 7)
           t8 == R(t7, 8)
           t9 == R(t8, 9)
           w == [k \in 0 .. 9 |->
                   CASE k = 0 -> text [] k = 1 -> t1 [] k = 2 -> t2 [] k = 3 -> t3
                     [] k = 4 -> t4 [] k = 5 -> t5 [] k = 6 -> t6 [] k = 7 -> t7
                     [] k = 8 -> t8 [] k = 9 -> t9]
<1>1. Len(ReplacementOrder) = 9
    BY DEF ReplacementOrder
<1>2. Stages(text, old, new) = CHOOSE s : Is(s)
    BY DEF Stages
<1>3. /\ w[0] = text /\ w[1] = R(w[0], 1) /\ w[2] = R(w[1], 2) /\ w[3] = R(w[2], 3)
      /\ w[4] = R(w[3], 4) /\ w[5] = R(w[4], 5) /\ w[6] = R(w[5], 6)
      /\ w[7] = R(w[6], 7) /\ w[8] = R(w[7], 8) /\ w[9] = R(w[8], 9)
  <2> HIDE DEF R
  <2> QED  OBVIOUS
<1>4. w = [k \in 0 .. 9 |-> w[k]]
    OBVIOUS
<1>5. Is(w)
  <2> HIDE DEF R, w
  <2>1. \A k \in 0 .. 9 : w[k] = IF k = 0 THEN text ELSE R(w[k - 1], k)
      BY <1>3
  <2> QED  BY <1>1, <1>4, <2>1
<1>6. Is(CHOOSE s : Is(s))
  <2> HIDE DEF w, Is
  <2> QED  BY <1>5
<1>7. Is(Stages(text, old, new))
  <2> HIDE DEF Is
  <2> QED  BY <1>2, <1>6
<1>8. /\ Stages(text, old, new)[0] = text
      /\ \A k \in 1 .. 9 :
           Stages(text, old, new)[k] = R(Stages(text, old, new)[k - 1], k)
  <2> HIDE DEF R
  <2> QED  BY <1>1, <1>7
<1> QED BY <1>8
LEMMA OrderFields ==
    /\ ReplacementOrder[1] = "displayName"
    /\ ReplacementOrder[2] = "brandName"
    /\ ReplacementOrder[3] = "projectSlug"
    /\ ReplacementOrder[6] = "binaryName"
    /\ \A k \in 1 .. 9 : ReplacementOrder[k] \in NameFields
    /\ Len(ReplacementOrder) = 9
BY DEF ReplacementOrder, NameFields

\* The names whose texts are followed, and where they are replaced.
Followed == DOMAIN ReplacedBefore
Turn == [displayName |-> 1, projectSlug |-> 3, binaryName |-> 6]

\* What is replaced before a name comes before it in the order, the rest after it.
LEMMA TurnOrder ==
    ASSUME NEW f \in Followed
    PROVE  /\ f \in NameFields /\ Turn[f] \in {1, 3, 6}
           /\ ReplacementOrder[Turn[f]] = f
           /\ \A k \in 1 .. 9 : k < Turn[f] =>
                 ReplacementOrder[k] \in ReplacedBefore[f] \cap (NameFields \ {f})
           /\ \A k \in 1 .. 9 : k > Turn[f] =>
                 ReplacementOrder[k] \in (NameFields \ {f}) \ ReplacedBefore[f]
<1>1. f \in {"displayName", "projectSlug", "binaryName"}
    BY DEF Followed, ReplacedBefore
<1>2. CASE f = "displayName"
    BY <1>2 DEF Turn, ReplacementOrder, ReplacedBefore, NameFields
<1>3. CASE f = "projectSlug"
    BY <1>3 DEF Turn, ReplacementOrder, ReplacedBefore, NameFields
<1>4. CASE f = "binaryName"
    BY <1>4 DEF Turn, ReplacementOrder, ReplacedBefore, NameFields
<1> QED BY <1>1, <1>2, <1>3, <1>4

\* A replacement of a name that did not change or does not occur.
LEMMA PassedOver ==
    ASSUME NEW text, NEW old \in Naming, NEW new, NEW k \in 1 .. 9,
           Stages(text, old, new)[k - 1] \in Names,
           \/ old[ReplacementOrder[k]] = new[ReplacementOrder[k]]
           \/ old[ReplacementOrder[k]] \notin SubSeqs(Stages(text, old, new)[k - 1])
    PROVE  Stages(text, old, new)[k] = Stages(text, old, new)[k - 1]
<1>1. ReplacementOrder[k] \in NameFields
    BY OrderFields
<1> DEFINE value == Stages(text, old, new)[k - 1]
<1>2. ReplacedOne(value, old, new, ReplacementOrder[k]) = value
    BY <1>1, NothingToReplace
<1> QED BY <1>2, StageEquation

\* A name becomes the new one at its own replacement.
LEMMA OwnTurn ==
    ASSUME NEW old \in Naming, NEW new \in Naming, NEW k \in 1 .. 9, NEW f \in NameFields,
           ReplacementOrder[k] = f, Stages(old[f], old, new)[k - 1] = old[f],
           old[f] # new[f] => ~TooShort(old[f])
    PROVE  Stages(old[f], old, new)[k] = new[f]
<1>1. Stages(old[f], old, new)[k] = ReplacedOne(old[f], old, new, f)
    BY StageEquation
<1>2. CASE old[f] = new[f]
    BY <1>1, <1>2 DEF ReplacedOne
<1>3. CASE old[f] # new[f]
    BY <1>1, <1>3, AllReplaced
<1> QED BY <1>2, <1>3

\* Before its own replacement nothing changes the name.
LEMMA StaysOld ==
    ASSUME NEW old \in Naming, NEW new, NEW f \in NameFields, NEW n \in {1, 3, 6},
           \A k \in 1 .. 9 : k < n =>
               \/ old[ReplacementOrder[k]] = new[ReplacementOrder[k]]
               \/ old[ReplacementOrder[k]] \notin SubSeqs(old[f])
    PROVE  Stages(old[f], old, new)[n - 1] = old[f]
<1> DEFINE Stage(k) == Stages(old[f], old, new)[k]
<1>1. Stage(0) = old[f]
    BY StageEquation
<1>2. \A k \in 1 .. 9 : k < n /\ Stage(k - 1) = old[f] => Stage(k) = old[f]
  <2>1. SUFFICES ASSUME NEW k \in 1 .. 9, k < n, Stage(k - 1) = old[f]
                 PROVE  Stage(k) = old[f]
      OBVIOUS
  <2>2. old[f] \in Names
      BY DEF Naming
  <2>3. Stages(old[f], old, new)[k] = Stages(old[f], old, new)[k - 1]
      BY <2>1, <2>2, PassedOver
  <2> QED  BY <2>1, <2>3
<1>3. Stage(n - 1) = old[f]
  <2> HIDE DEF Stage
  <2>1. 1 < n => Stage(1) = old[f]
      BY <1>1, <1>2
  <2>2. 2 < n => Stage(2) = old[f]
      BY <1>2, <2>1
  <2>3. 3 < n => Stage(3) = old[f]
      BY <1>2, <2>2
  <2>4. 4 < n => Stage(4) = old[f]
      BY <1>2, <2>3
  <2>5. 5 < n => Stage(5) = old[f]
      BY <1>2, <2>4
  <2> QED  BY <1>1, <2>2, <2>5
<1> QED BY <1>3

\* After its own replacement nothing changes the name again.
LEMMA StaysNew ==
    ASSUME NEW old \in Naming, NEW new \in Naming, NEW f \in NameFields, NEW n \in {1, 3, 6},
           Stages(old[f], old, new)[n] = new[f],
           \A k \in 1 .. 9 : k > n =>
               \/ old[ReplacementOrder[k]] = new[ReplacementOrder[k]]
               \/ old[ReplacementOrder[k]] \notin SubSeqs(new[f])
    PROVE  Replaced(old[f], old, new) = new[f]
<1> DEFINE Stage(k) == Stages(old[f], old, new)[k]
<1>1. \A k \in 1 .. 9 : k > n /\ Stage(k - 1) = new[f] => Stage(k) = new[f]
  <2>1. SUFFICES ASSUME NEW k \in 1 .. 9, k > n, Stage(k - 1) = new[f]
                 PROVE  Stage(k) = new[f]
      OBVIOUS
  <2>2. new[f] \in Names
      BY DEF Naming
  <2>3. Stages(old[f], old, new)[k] = Stages(old[f], old, new)[k - 1]
      BY <2>1, <2>2, PassedOver
  <2> QED  BY <2>1, <2>3
<1>2. Stage(n) = new[f]
    OBVIOUS
<1>3. Stage(9) = new[f]
  <2> HIDE DEF Stage
  <2>1. n = 1 => Stage(2) = new[f]
      BY <1>1, <1>2
  <2>2. n <= 3 => Stage(3) = new[f]
      BY <1>1, <1>2, <2>1
  <2>3. n <= 3 => Stage(4) = new[f]
      BY <1>1, <2>2
  <2>4. n <= 3 => Stage(5) = new[f]
      BY <1>1, <2>3
  <2>5. Stage(6) = new[f]
      BY <1>1, <1>2, <2>4
  <2>6. Stage(7) = new[f]
      BY <1>1, <2>5
  <2>7. Stage(8) = new[f]
      BY <1>1, <2>6
  <2> QED  BY <1>1, <2>7
<1> QED BY <1>3, OrderFields DEF Replaced

\* A text that shows the title, slug or binary shows the new one afterwards,
\* unless the names are such that another replacement interferes.
LEMMA ReplacedShows ==
    ASSUME NEW old \in Naming, NEW new \in Naming, ~Unhandled(old, new),
           NEW f \in Followed
    PROVE  Replaced(old[f], old, new) = new[f]
<1> DEFINE n == Turn[f]
<1>1. /\ f \in NameFields /\ n \in {1, 3, 6} /\ ReplacementOrder[n] = f
    BY TurnOrder
<1>2. old[f] # new[f] => ~TooShort(old[f])
    BY DEF Unhandled, Followed
<1>3. \A g \in NameFields \ {f} :
         \/ old[g] = new[g]
         \/ old[g] \notin SubSeqs(IF g \in ReplacedBefore[f] THEN old[f] ELSE new[f])
    BY DEF Unhandled, Followed
<1>4. \A k \in 1 .. 9 : k < n =>
         \/ old[ReplacementOrder[k]] = new[ReplacementOrder[k]]
         \/ old[ReplacementOrder[k]] \notin SubSeqs(old[f])
  <2>1. SUFFICES ASSUME NEW k \in 1 .. 9, k < n
                 PROVE  \/ old[ReplacementOrder[k]] = new[ReplacementOrder[k]]
                        \/ old[ReplacementOrder[k]] \notin SubSeqs(old[f])
      OBVIOUS
  <2>2. ReplacementOrder[k] \in ReplacedBefore[f] \cap (NameFields \ {f})
      BY <2>1, TurnOrder
  <2> QED  BY <1>3, <2>2
<1>5. \A k \in 1 .. 9 : k > n =>
         \/ old[ReplacementOrder[k]] = new[ReplacementOrder[k]]
         \/ old[ReplacementOrder[k]] \notin SubSeqs(new[f])
  <2>1. SUFFICES ASSUME NEW k \in 1 .. 9, k > n
                 PROVE  \/ old[ReplacementOrder[k]] = new[ReplacementOrder[k]]
                        \/ old[ReplacementOrder[k]] \notin SubSeqs(new[f])
      OBVIOUS
  <2>2. ReplacementOrder[k] \in (NameFields \ {f}) \ ReplacedBefore[f]
      BY <2>1, TurnOrder
  <2> QED  BY <1>3, <2>2
<1> HIDE DEF n
<1>6. Stages(old[f], old, new)[n - 1] = old[f]
    BY <1>1, <1>4, StaysOld
<1>7. Stages(old[f], old, new)[n] = new[f]
    BY <1>1, <1>2, <1>6, OwnTurn
<1> QED BY <1>1, <1>5, <1>7, StaysNew
-----------------------------------------------------------------------------
(* a rename, from one write to the next *)

RenamePcs == {"contract", "package", "texts"}

\* The texts that init has to keep in step with the identity.
Shown == {m \in Collected : Mentions[m].field \in Followed}

Following ==
    /\ project.package = project.identity.rootPackageName
    /\ \A m \in Shown : project.texts[m] = project.identity[Mentions[m].field]

\* While init writes, each text shows the old name as long as its write is
\* staged and the new one after that, or from the start if it needs no write.
HalfRenamed ==
    /\ ~Unhandled(cmd.old, cmd.new)
    /\ project.identity = IF cmd.pc = "contract" THEN cmd.old ELSE cmd.new
    /\ project.package = IF cmd.pc = "texts" THEN cmd.new.rootPackageName
                                             ELSE cmd.old.rootPackageName
    /\ \A m \in Shown :
         project.texts[m] = IF m \in cmd.texts THEN cmd.old[Mentions[m].field]
                                               ELSE cmd.new[Mentions[m].field]

NamesInv ==
    /\ project.identity \in Naming
    /\ DOMAIN project.texts = DOMAIN Mentions
    /\ cmd.pc \in RenamePcs => cmd.old \in Naming /\ cmd.new \in Naming
    /\ ~drifted => IF cmd.pc \in RenamePcs THEN HalfRenamed ELSE Following

\* What the steps of the other commands leave alone.
SameNames ==
    /\ project'.identity = project.identity
    /\ project'.package = project.package
    /\ project'.texts = project.texts

LEMMA IdentityNames == \A o \in Options : Identity(o) \in Naming
<1> SUFFICES ASSUME NEW o \in Options PROVE Identity(o) \in Naming
    OBVIOUS
<1>1. /\ o.title \in Names /\ o.brand \in Names /\ o.slug \in Names /\ o.scope \in Names
      /\ o.repoUrl \in Names /\ o.bin \in Names
    BY NamesAssumption DEF NamesAssumption
<1>2. <<"-starter">> \in Names /\ <<"https">> \in Names /\ <<"tbs">> \in Names
    BY NamesAssumption DEF NamesAssumption, Names
<1>3. \A a, b \in Names : a \o b \in Names
    BY DEF Names
<1>4. \A a \in Names : Append(a, "API") \in Names /\ Append(a, "WebApp") \in Names
    BY NamesAssumption DEF NamesAssumption, Names
<1>5. o.scope \o o.slug \in Names /\ <<"https">> \o o.scope \in Names
    BY <1>1, <1>2, <1>3
<1>6. /\ o.scope \o o.slug \o <<"-starter">> \in Names
      /\ <<"https">> \o o.scope \o o.slug \in Names
    BY <1>1, <1>2, <1>3, <1>5
<1>7. /\ Append(o.brand, "API") \in Names
      /\ Append(o.brand, "WebApp") \in Names
    BY <1>1, <1>4
<1>8. DOMAIN Identity(o) = NameFields
    BY DEF Identity, NameFields
<1>9. \A x \in NameFields : Identity(o)[x] \in Names
  <2>1. /\ Identity(o).displayName = o.title /\ Identity(o).brandName = o.brand
        /\ Identity(o).projectSlug = o.slug
        /\ Identity(o).rootPackageName = o.scope \o o.slug \o <<"-starter">>
        /\ Identity(o).repositoryUrl \in {o.repoUrl, <<"https">> \o o.scope \o o.slug}
        /\ Identity(o).binaryName \in {o.bin, <<"tbs">>}
        /\ Identity(o).binaryLabel = o.brand
        /\ Identity(o).apiTitle = Append(o.brand, "API")
        /\ Identity(o).webDescription = Append(o.brand, "WebApp")
      BY DEF Identity, Given
  <2> QED  BY <1>1, <1>2, <1>6, <1>7, <2>1 DEF NameFields
<1>10. Identity(o) = [x \in NameFields |-> Identity(o)[x]]
    BY <1>8 DEF Identity
<1> QED BY <1>9, <1>10 DEF Naming

LEMMA NamesStart == ScaffoldInit => NamesInv
<1> SUFFICES ASSUME ScaffoldInit PROVE NamesInv
    OBVIOUS
<1>1. PICK installed \in SUBSET Features,
           id \in {Starter} \cup {Identity(o) : o \in ValidOptions} :
             project = FreshProject(installed, id)
    BY DEF ScaffoldInit
<1>2. id \in Naming
    BY <1>1, IdentityNames, NamesAssumption DEF NamesAssumption, Naming, ValidOptions
<1>3. /\ project.identity = id /\ project.package = id.rootPackageName
      /\ project.texts = [m \in DOMAIN Mentions |-> id[Mentions[m].field]]
    BY <1>1 DEF FreshProject
<1>4. cmd.pc \notin RenamePcs
    BY IdleFacts DEF ScaffoldInit, RenamePcs
<1>5. Following
    BY <1>3 DEF Following, Shown, Collected
<1> QED BY <1>2, <1>3, <1>4, <1>5 DEF NamesInv

\* A step that renames nothing.
LEMMA Elsewhere ==
    ASSUME NamesInv, cmd.pc \notin RenamePcs, cmd'.pc \notin RenamePcs, SameNames,
           drifted' \in {drifted, TRUE}
    PROVE  NamesInv'
BY DEF NamesInv, Following, SameNames

\* A rename that ends before its last write, by an exception or a kill.
LEMMA CutShort ==
    ASSUME NamesInv, cmd' = Idle, drifted' = TRUE,
           project'.identity \in Naming, DOMAIN project'.texts = DOMAIN Mentions
    PROVE  NamesInv'
BY IdleFacts DEF NamesInv, RenamePcs

LEMMA WithoutDirNames ==
    ASSUME ProjectOK(project), NEW f, project' = WithoutDir(project, f)
    PROVE  SameNames
BY DEF SameNames, WithoutDir, ProjectOK, Fields

LEMMA AddNames ==
    ASSUME ScaffoldInv, NamesInv,
           \/ MakeDirs \/ (\E p \in Parts : CopyFile(p) \/ UndoFile(p))
           \/ UndoDirs \/ ReportFailure
    PROVE  NamesInv'
<1>1. Adding /\ ProjectOK(project)
    BY WhichCommand DEF MakeDirs, CopyFile, UndoFile, UndoDirs, ReportFailure,
                        CopyPcs, ScaffoldInv
<1>2. cmd.pc \notin RenamePcs
    BY <1>1 DEF Adding, CopyPcs, ListPcs, RenamePcs
<1>3. drifted' = drifted
    BY DEF MakeDirs, CopyFile, UndoFile, UndoDirs, ReportFailure
<1>4. cmd'.pc \in {"idle", "copy", "list", "undo", "report"}
    BY <1>1, IdleFacts DEF Adding, AddFields, MakeDirs, CopyFile, UndoFile, UndoDirs,
                           ReportFailure, AddFails, Settle
<1>5. SameNames
  <2>1. CASE MakeDirs
      BY <1>1, <2>1 DEF MakeDirs, SameNames, ProjectOK, Fields
  <2>2. CASE \E p \in Parts : CopyFile(p) \/ UndoFile(p)
      BY <1>1, <2>2 DEF CopyFile, UndoFile, SameNames, ProjectOK, Fields
  <2>3. CASE UndoDirs \/ ReportFailure
    <3>1. project' = project \/ project' = WithoutDir(project, cmd.feature)
        BY <2>3 DEF UndoDirs, ReportFailure
    <3> QED  BY <1>1, <3>1, WithoutDirNames DEF SameNames
  <2> QED  BY <2>1, <2>2, <2>3
<1> QED BY <1>2, <1>3, <1>4, <1>5, Elsewhere DEF RenamePcs

LEMMA ListNames ==
    ASSUME ScaffoldInv, NamesInv, ReadForAdd \/ WriteList \/ RestoreContract \/ Tidy
    PROVE  NamesInv'
<1>1. Adding /\ ProjectOK(project)
    BY WhichCommand DEF ReadForAdd, WriteList, RestoreContract, Tidy, ListPcs, ScaffoldInv
<1>2. cmd.pc \notin RenamePcs
    BY <1>1 DEF Adding, CopyPcs, ListPcs, RenamePcs
<1>3. drifted' = drifted
    BY DEF ReadForAdd, WriteList, RestoreContract, Tidy, Goto, Throw, Succeed
<1>4. cmd'.pc \in {"idle", "write", "tidy", "restore"}
    BY <1>1, IdleFacts DEF Adding, AddFields, ReadForAdd, WriteList, RestoreContract, Tidy,
                           Goto, Throw, Succeed, Settle
<1>5. SameNames
    BY <1>1 DEF ReadForAdd, WriteList, RestoreContract, Tidy, TearContract, SameNames,
                ProjectOK, Fields
<1> QED BY <1>2, <1>3, <1>4, <1>5, Elsewhere DEF RenamePcs

LEMMA RemoveNames ==
    ASSUME ScaffoldInv, NamesInv, DeleteWorkspace \/ Unlist \/ PostRemove
    PROVE  NamesInv'
<1>1. Removing /\ ProjectOK(project)
    BY WhichCommand DEF DeleteWorkspace, Unlist, PostRemove, ScaffoldInv
<1>2. cmd.pc \notin RenamePcs
    BY <1>1 DEF Removing, RenamePcs
<1>3. drifted' = drifted
    BY DEF DeleteWorkspace, Unlist, PostRemove, Goto, Throw, Succeed
<1>4. cmd'.pc \in {"idle", "unlist", "post"}
    BY <1>1, IdleFacts DEF Removing, DeleteWorkspace, Unlist, PostRemove,
                           Goto, Throw, Succeed, Settle
<1>5. SameNames
  <2>1. CASE DeleteWorkspace
    <3>1. \/ project' = WithoutDir(project, cmd.feature)
          \/ \E left \in SUBSET project.files[cmd.feature] :
               project' = [project EXCEPT !.files[cmd.feature] = left]
        BY <2>1 DEF DeleteWorkspace
    <3>2. CASE \E left \in SUBSET project.files[cmd.feature] :
                 project' = [project EXCEPT !.files[cmd.feature] = left]
        BY <1>1, <3>2 DEF SameNames, ProjectOK, Fields
    <3> QED  BY <1>1, <3>1, <3>2, WithoutDirNames
  <2>2. CASE Unlist \/ PostRemove
      BY <1>1, <2>2 DEF Unlist, PostRemove, TearContract, SameNames, ProjectOK, Fields
  <2> QED  BY <2>1, <2>2
<1> QED BY <1>2, <1>3, <1>4, <1>5, Elsewhere DEF RenamePcs

LEMMA BeginNames ==
    ASSUME ScaffoldInv, NamesInv,
           \/ \E f \in Features \cup Others, dry \in BOOLEAN :
                  AddFeature(f, dry) \/ RemoveFeature(f, dry)
           \/ \E fix \in BOOLEAN : Validate(fix)
           \/ List
    PROVE  NamesInv'
<1>1. cmd = Idle /\ ProjectOK(project)
    BY DEF AddFeature, RemoveFeature, Validate, List, Begin, ScaffoldInv
<1>2. cmd.pc \notin RenamePcs
    BY <1>1, IdleFacts DEF RenamePcs
<1>3. drifted' = drifted
    BY Zenon DEF AddFeature, RemoveFeature, Validate, List, Reject, Preview
<1>4. cmd'.pc \in {"idle", "mkdir", "delete"}
  <2>1. CASE \E f \in Features \cup Others, dry \in BOOLEAN : AddFeature(f, dry)
      BY <2>1, IdleFacts DEF AddFeature, Reject, Preview, Settle
  <2>2. CASE \E f \in Features \cup Others, dry \in BOOLEAN : RemoveFeature(f, dry)
      BY <2>2, IdleFacts DEF RemoveFeature, Reject, Preview, Settle
  <2>3. CASE \E fix \in BOOLEAN : Validate(fix)
      BY <2>3, IdleFacts, Zenon DEF Validate, Reject, Settle
  <2>4. CASE List
      BY <2>4, IdleFacts DEF List, Settle
  <2> QED  BY <2>1, <2>2, <2>3, <2>4
<1>5. \/ project' = project
      \/ project' = [project EXCEPT !.generated = Regenerated(project)]
  <2>1. CASE \E fix \in BOOLEAN : Validate(fix)
    <3>1. PICK fix \in BOOLEAN : Validate(fix)
        BY <2>1
    <3>2. PICK runs \in BOOLEAN :
            \/ project' = project
            \/ project' = IF fix /\ project.generated # Targets /\ runs
                          THEN [project EXCEPT !.generated = Regenerated(project)]
                          ELSE project
        BY <3>1, Zenon DEF Validate, Reject
    <3> QED  BY <3>2
  <2>2. CASE \E f \in Features \cup Others, dry \in BOOLEAN : AddFeature(f, dry)
      BY <2>2, Zenon DEF AddFeature, Reject, Preview
  <2>3. CASE \E f \in Features \cup Others, dry \in BOOLEAN : RemoveFeature(f, dry)
      BY <2>3, Zenon DEF RemoveFeature, Reject, Preview
  <2>4. CASE List
      BY <2>4 DEF List
  <2> QED  BY <2>1, <2>2, <2>3, <2>4
<1>6. SameNames
    BY <1>1, <1>5 DEF SameNames, ProjectOK, Fields
<1> QED BY <1>2, <1>3, <1>4, <1>6, Elsewhere DEF RenamePcs

LEMMA EditNames ==
    ASSUME ScaffoldInv, NamesInv, Edit
    PROVE  NamesInv'
<1>1. cmd = Idle /\ cmd' = cmd /\ ProjectOK(project)
    BY DEF Edit, ScaffoldInv
<1>2. cmd.pc \notin RenamePcs /\ cmd'.pc \notin RenamePcs
    BY <1>1, IdleFacts DEF RenamePcs
<1>3. drifted' \in {drifted, TRUE}
    BY Zenon DEF Edit, EditWorkspaces, EditContract, EditOther
<1>4. SameNames
  <2>1. CASE EditWorkspaces
    <3>1. PICK f \in Features :
           \/ \E parts \in SUBSET Parts :
                project' = [project EXCEPT !.dirs = @ \cup {f}, !.files[f] = parts]
           \/ project' = WithoutDir(project, f)
        BY <2>1 DEF EditWorkspaces
    <3>2. CASE \E parts \in SUBSET Parts :
                project' = [project EXCEPT !.dirs = @ \cup {f}, !.files[f] = parts]
        BY <1>1, <3>2 DEF SameNames, ProjectOK, Fields
    <3> QED  BY <1>1, <3>1, <3>2, WithoutDirNames
  <2>2. CASE EditContract
      BY <1>1, <2>2 DEF EditContract, SameNames, ProjectOK, Fields
  <2>3. CASE EditOther
      BY <1>1, <2>3 DEF EditOther, SameNames, ProjectOK, Fields
  <2> QED  BY <2>1, <2>2, <2>3 DEF Edit
<1> QED BY <1>2, <1>3, <1>4, Elsewhere
LEMMA InitProjectNames ==
    ASSUME ScaffoldInv, NamesInv, NEW o \in Options, NEW dry \in BOOLEAN,
           InitProject(o, dry)
    PROVE  NamesInv'
<1>1. cmd = Idle /\ project' = project
    BY DEF InitProject, Begin, Reject, Preview
<1>2. cmd.pc \notin RenamePcs
    BY <1>1, IdleFacts DEF RenamePcs
<1>3. CASE cmd' = Idle /\ drifted' = drifted
    BY <1>1, <1>2, <1>3, IdleFacts, Elsewhere DEF SameNames, RenamePcs
<1> DEFINE old == project.identity
           new == Identity(o)
<1>4. CASE /\ cmd' = [pc |-> "contract", old |-> old, new |-> new,
                     texts |-> StagedTexts(old, new), skip |-> o.skipCheck]
           /\ drifted' = (drifted \/ Unhandled(old, new))
  <2>1. old \in Naming /\ new \in Naming
      BY IdentityNames DEF NamesInv
  <2>2. /\ cmd'.pc = "contract" /\ cmd'.old = old /\ cmd'.new = new
        /\ cmd'.texts = StagedTexts(old, new)
      BY <1>4
  <2> HIDE DEF new
  <2>3. ASSUME ~drifted'
        PROVE  HalfRenamed'
    <3>1. ~drifted /\ ~Unhandled(old, new)
        BY <1>4, <2>3
    <3>2. Following
        BY <1>2, <3>1 DEF NamesInv
    <3>3. ASSUME NEW m \in Shown
          PROVE  project.texts[m] = IF m \in StagedTexts(old, new)
                                    THEN old[Mentions[m].field] ELSE new[Mentions[m].field]
      <4>1. /\ m \in Collected /\ Mentions[m].field \in Followed
            /\ project.texts[m] = old[Mentions[m].field]
          BY <3>2 DEF Shown, Following
      <4>2. Replaced(project.texts[m], old, new) = new[Mentions[m].field]
          BY <2>1, <3>1, <4>1, ReplacedShows
      <4> QED  BY <4>1, <4>2 DEF StagedTexts
    <3>4. project.package = old.rootPackageName
        BY <3>2 DEF Following
    <3>5. ~Unhandled(cmd'.old, cmd'.new)
        BY <2>2, <3>1
    <3>6. \A m \in Shown :
             project'.texts[m] = IF m \in cmd'.texts THEN cmd'.old[Mentions[m].field]
                                                     ELSE cmd'.new[Mentions[m].field]
        BY <1>1, <2>2, <3>3
    <3> QED  BY <1>1, <2>2, <3>4, <3>5, <3>6 DEF HalfRenamed
  <2>4. cmd'.pc \in RenamePcs
      BY <2>2 DEF RenamePcs
  <2>5. project'.identity \in Naming /\ DOMAIN project'.texts = DOMAIN Mentions
      BY <1>1 DEF NamesInv
  <2>6. cmd'.old \in Naming /\ cmd'.new \in Naming
      BY <2>1, <2>2
  <2> QED  BY <2>3, <2>4, <2>5, <2>6 DEF NamesInv
<1> QED BY <1>3, <1>4, Zenon DEF InitProject, Reject, Preview, Settle

\* The writes of init.
LEMMA RenameWrites ==
    ASSUME ScaffoldInv, NamesInv, cmd.pc \in RenamePcs
    PROVE  /\ cmd = [x \in {"pc", "old", "new", "texts", "skip"} |-> cmd[x]]
           /\ project = [x \in Fields |-> project[x]]
           /\ cmd.old \in Naming /\ cmd.new \in Naming
           /\ ~drifted => HalfRenamed
BY WhichCommand DEF RenamePcs, ScaffoldInv, ProjectOK, Renaming, NamesInv

LEMMA WriteContractNames == ScaffoldInv /\ NamesInv /\ WriteContract => NamesInv'
<1> SUFFICES ASSUME ScaffoldInv, NamesInv, WriteContract PROVE NamesInv'
    OBVIOUS
<1>1. cmd.pc = "contract" /\ cmd.pc \in RenamePcs
    BY DEF WriteContract, RenamePcs
<1>2. CASE /\ project' = [project EXCEPT !.identity = cmd.new]
           /\ cmd' = [cmd EXCEPT !.pc = "package"] /\ drifted' = drifted
  <2>1. /\ project'.identity = cmd.new /\ project'.package = project.package
        /\ project'.texts = project.texts
      BY <1>1, <1>2, RenameWrites DEF Fields
  <2>2. /\ cmd'.pc = "package" /\ cmd'.old = cmd.old /\ cmd'.new = cmd.new
        /\ cmd'.texts = cmd.texts
      BY <1>1, <1>2, RenameWrites
  <2>3. ~drifted => HalfRenamed'
      BY <1>1, <2>1, <2>2, RenameWrites DEF HalfRenamed
  <2> QED  BY <1>1, <1>2, <2>1, <2>2, <2>3, RenameWrites DEF NamesInv, RenamePcs
<1>3. CASE TearContract /\ InitThrows
  <2>1. project'.identity = project.identity /\ project'.texts = project.texts
      BY <1>1, <1>3, RenameWrites DEF TearContract, Fields
  <2> QED  BY <1>3, <2>1, CutShort DEF InitThrows, Settle, NamesInv
<1> QED BY <1>2, <1>3 DEF WriteContract, Goto

LEMMA WritePackageNames == ScaffoldInv /\ NamesInv /\ WritePackage => NamesInv'
<1> SUFFICES ASSUME ScaffoldInv, NamesInv, WritePackage PROVE NamesInv'
    OBVIOUS
<1>1. cmd.pc = "package" /\ cmd.pc \in RenamePcs
    BY DEF WritePackage, RenamePcs
<1>2. CASE /\ project' = [project EXCEPT !.package = cmd.new.rootPackageName]
           /\ cmd' = [cmd EXCEPT !.pc = "texts"] /\ drifted' = drifted
  <2>1. /\ project'.package = cmd.new.rootPackageName
        /\ project'.identity = project.identity /\ project'.texts = project.texts
      BY <1>1, <1>2, RenameWrites DEF Fields
  <2>2. /\ cmd'.pc = "texts" /\ cmd'.old = cmd.old /\ cmd'.new = cmd.new
        /\ cmd'.texts = cmd.texts
      BY <1>1, <1>2, RenameWrites
  <2>3. ~drifted => HalfRenamed'
      BY <1>1, <2>1, <2>2, RenameWrites DEF HalfRenamed
  <2> QED  BY <1>1, <1>2, <2>1, <2>2, <2>3, RenameWrites DEF NamesInv, RenamePcs
<1>3. CASE project' = project /\ InitThrows
    BY <1>3, CutShort DEF InitThrows, Settle, NamesInv
<1> QED BY <1>2, <1>3 DEF WritePackage, Goto

LEMMA WriteTextNames ==
    ASSUME ScaffoldInv, NamesInv, NEW m \in DOMAIN Mentions, WriteText(m)
    PROVE  NamesInv'
<1>1. cmd.pc = "texts" /\ m \in cmd.texts /\ cmd.pc \in RenamePcs
    BY DEF WriteText, RenamePcs
<1>2. CASE /\ project' = [project EXCEPT !.texts[m] = Replaced(@, cmd.old, cmd.new)]
           /\ cmd' = [cmd EXCEPT !.texts = @ \ {m}] /\ drifted' = drifted
  <2>1. /\ project'.identity = project.identity /\ project'.package = project.package
        /\ project'.texts = [project.texts EXCEPT
                               ![m] = Replaced(project.texts[m], cmd.old, cmd.new)]
      BY <1>1, <1>2, RenameWrites DEF Fields
  <2>2. /\ cmd'.pc = "texts" /\ cmd'.old = cmd.old /\ cmd'.new = cmd.new
        /\ cmd'.texts = cmd.texts \ {m}
      BY <1>1, <1>2, RenameWrites
  <2>3. DOMAIN project'.texts = DOMAIN Mentions
      BY <2>1 DEF NamesInv
  <2>4. ASSUME ~drifted
        PROVE  HalfRenamed'
    <3>1. HalfRenamed
        BY <1>1, <2>4, RenameWrites
    <3>2. ASSUME NEW n \in Shown
          PROVE  project'.texts[n] = IF n \in cmd'.texts THEN cmd'.old[Mentions[n].field]
                                                         ELSE cmd'.new[Mentions[n].field]
      <4>1. Mentions[n].field \in Followed /\ n \in DOMAIN Mentions
          BY DEF Shown, Collected
      <4>2. CASE n = m
        <5>1. project.texts[n] = cmd.old[Mentions[n].field]
            BY <1>1, <3>1, <4>2 DEF HalfRenamed
        <5>2. Replaced(project.texts[n], cmd.old, cmd.new) = cmd.new[Mentions[n].field]
            BY <1>1, <3>1, <4>1, <5>1, RenameWrites, ReplacedShows DEF HalfRenamed
        <5>3. project'.texts[n] = cmd.new[Mentions[n].field]
            BY <2>1, <4>2, <5>2 DEF NamesInv
        <5> QED  BY <2>2, <4>2, <5>3
      <4>3. CASE n # m
          BY <2>1, <2>2, <3>1, <4>1, <4>3 DEF HalfRenamed, NamesInv
      <4> QED  BY <4>2, <4>3
    <3>3. ~Unhandled(cmd'.old, cmd'.new)
        BY <2>2, <3>1 DEF HalfRenamed
    <3> QED  BY <1>1, <2>1, <2>2, <3>1, <3>2, <3>3 DEF HalfRenamed
  <2> QED  BY <1>1, <1>2, <2>1, <2>2, <2>3, <2>4 DEF NamesInv, RenamePcs
<1>3. CASE project' = project /\ InitThrows
    BY <1>3, CutShort DEF InitThrows, Settle, NamesInv
<1> QED BY <1>2, <1>3 DEF WriteText

\* When the last text is written, all show the new names.
LEMMA PostInitNames == ScaffoldInv /\ NamesInv /\ PostInit => NamesInv'
<1> SUFFICES ASSUME ScaffoldInv, NamesInv, PostInit PROVE NamesInv'
    OBVIOUS
<1>1. /\ cmd.pc = "texts" /\ cmd.texts = {} /\ cmd.pc \in RenamePcs
      /\ cmd' = Idle /\ drifted' = drifted
    BY DEF PostInit, Settle, RenamePcs
<1>2. SameNames
    BY <1>1, RenameWrites DEF PostInit, SameNames, Fields
<1>3. ~drifted => Following
    BY <1>1, RenameWrites DEF HalfRenamed, Following
<1>4. ~drifted => Following'
    BY <1>2, <1>3 DEF Following, SameNames
<1>5. cmd'.pc \notin RenamePcs
    BY <1>1, IdleFacts DEF RenamePcs
<1> QED BY <1>1, <1>2, <1>4, <1>5 DEF NamesInv, SameNames

LEMMA KillNames == ScaffoldInv /\ NamesInv /\ Kill => NamesInv'
<1> SUFFICES ASSUME ScaffoldInv, NamesInv, Kill PROVE NamesInv'
    OBVIOUS
<1>1. cmd' = Idle /\ project' = project
    BY DEF Kill, Settle
<1>2. CASE cmd.pc \in RenamePcs
  <2>1. "feature" \notin DOMAIN cmd
      BY <1>2, RenameWrites
  <2>2. drifted' = TRUE
      BY <2>1, Zenon DEF Kill
  <2> QED  BY <1>1, <2>2, CutShort DEF NamesInv
<1>3. CASE cmd.pc \notin RenamePcs
  <2>1. drifted' \in {drifted, TRUE}
      BY Zenon DEF Kill
  <2>2. cmd'.pc \notin RenamePcs
      BY <1>1, IdleFacts DEF RenamePcs
  <2> QED  BY <1>1, <1>3, <2>1, <2>2, Elsewhere DEF SameNames
<1> QED BY <1>2, <1>3

LEMMA NamesKeep ==
    ScaffoldInv /\ NamesInv /\ [ScaffoldNext]_scaffoldVars => NamesInv'
<1> SUFFICES ASSUME ScaffoldInv, NamesInv, [ScaffoldNext]_scaffoldVars PROVE NamesInv'
    OBVIOUS
<1>1. CASE UNCHANGED scaffoldVars
    BY <1>1 DEF scaffoldVars, NamesInv, HalfRenamed, Following
<1>2. CASE \E o \in Options, dry \in BOOLEAN : InitProject(o, dry)
    BY <1>2, InitProjectNames
<1>3. CASE \E m \in DOMAIN Mentions : WriteText(m)
    BY <1>3, WriteTextNames
<1> QED BY <1>1, <1>2, <1>3, BeginNames, AddNames, ListNames, RemoveNames, EditNames,
           WriteContractNames, WritePackageNames, PostInitNames, KillNames
        DEF ScaffoldNext

LEMMA NamesAlways == ScaffoldSpec => [](ScaffoldInv /\ NamesInv)
BY ScaffoldStarts, ScaffoldKeep, NamesStart, NamesKeep, PTL DEF ScaffoldSpec

\* However often a project is renamed, package.json has the contract's name and
\* every text that the collection reaches shows the contract's title and slug,
\* unless an init was cut short or a name was one that the replacements do not
\* handle (scaffold-init.ts:144).
THEOREM TextsAlwaysFollow == ScaffoldSpec => []TextsFollowTheIdentity
<1>1. NamesInv => TextsFollowTheIdentity
    BY IdleFacts DEF NamesInv, RenamePcs, Following, Shown, Followed, TextsFollowTheIdentity
<1> QED BY NamesAlways, <1>1, PTL
=============================================================================
