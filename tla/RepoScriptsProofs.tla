-------------------------- MODULE RepoScriptsProofs --------------------------
(***************************************************************************)
(* Proofs about the two scripts on the files of a project, with edits,     *)
(* upgrades, failures and kills in between, for any files, packages,       *)
(* policies and bounds: nothing is overwritten that the answers kept, an   *)
(* --apply that exits with 0 has installed its plan, and a policy check    *)
(* that exits with 0 leaves nothing behind that its rules would find.      *)
(***************************************************************************)
EXTENDS RepoScripts, TLAPS

\* What is agreed is what the plan does to files that were there.
Agreed(action, there, given) ==
    \A p \in DOMAIN action :
        action[p] # "skip" /\ p \in there => p \in given

\* No group answer was given yet, and only single answers gave files up.
Questions ==
    /\ {"pc", "action", "left", "answers", "there", "modified"} \subseteq DOMAIN proc
    /\ proc.answers \in Seq(proc.modified \X {"o", "k"})
    /\ proc.left \subseteq proc.modified
    /\ \A p \in DOMAIN proc.action :
         proc.action[p] # "skip" /\ p \in proc.there =>
             \E i \in DOMAIN proc.answers : proc.answers[i] = <<p, "o">>

Installed(p) == p \in DOMAIN tree /\ p \in DOMAIN source /\ tree[p] = source[p]

\* What --apply has done so far, if no copy failed.
Application ==
    /\ {"pc", "left", "bad"} \subseteq DOMAIN proc
    /\ proc.left \subseteq Actionable
    /\ ~proc.bad => \A p \in Actionable \ proc.left : Installed(p)

ScriptsInv ==
    /\ "pc" \in DOMAIN proc
    /\ proc.pc = "ask" => Questions
    /\ proc.pc = "save" => Agreed(proc.action, proc.there, GivenUp)
    /\ proc.pc = "apply" => Application
    /\ "action" \in DOMAIN plan
    /\ Agreed(plan.action, agreed.there, agreed.given)
    /\ OverwritesAreConsented
    /\ AppliedMeansInstalled

-----------------------------------------------------------------------------
LEMMA ScriptsStart == ScriptsInit => ScriptsInv
BY DEF ScriptsInit, TreeInit, MigrationInit, ScriptsInv, Idle, Unsettled, Agreed,
       OverwritesAreConsented, AppliedMeansInstalled

\* A step of a policy check is none of the migration's, and if it ends the
\* process the exit code is the check's.
LEMMA PolicySteps ==
    ASSUME "pc" \in DOMAIN proc, PolicyNext
    PROVE  /\ "pc" \in DOMAIN proc'
           /\ proc'.pc \in {"idle", "discover", "rule", "file"}
           /\ proc' = Idle => outcome'.script = "policy"
<1>1. ASSUME NEW names \in Selections, NEW dirExists \in BOOLEAN, NEW fix \in BOOLEAN,
             NEW preview \in BOOLEAN, NEW failFast \in BOOLEAN,
             CheckPolicies(names, dirExists, fix, preview, failFast)
      PROVE  /\ "pc" \in DOMAIN proc'
             /\ proc'.pc \in {"idle", "discover", "rule", "file"}
             /\ proc' = Idle => outcome'.script = "policy"
    BY <1>1 DEF CheckPolicies, Settle, Idle
<1>2. CASE Discover
  <2>0. PICK first \in proc.queue :
          LET d == Policies[proc.names[first]]
              p == [proc EXCEPT !.queue = @ \ {first}, !.pc = "rule"]
          IN \/ proc' = [p EXCEPT !.rules = d.rules, !.files = Discovered(d),
                                  !.failed = FALSE]
             \/ proc' = [WithError(p) EXCEPT !.rules = <<>>, !.files = {}]
      BY <1>2 DEF Discover
  <2> DEFINE d == Policies[proc.names[first]]
             p == [proc EXCEPT !.queue = @ \ {first}, !.pc = "rule"]
  <2>1. "pc" \in DOMAIN p /\ p.pc = "rule"
      OBVIOUS
  <2>2. \/ proc' = [p EXCEPT !.rules = d.rules, !.files = Discovered(d),
                             !.failed = FALSE]
        \/ proc' = [WithError(p) EXCEPT !.rules = <<>>, !.files = {}]
      BY <2>0
  <2>3. "pc" \in DOMAIN proc' /\ proc'.pc = "rule"
    <3> HIDE DEF p
    <3> QED  BY <2>1, <2>2 DEF WithError
  <2> QED  BY <2>3 DEF Idle
<1>3. CASE StartRule
    BY <1>3 DEF StartRule, Checking, WithError, NextRule, Idle
<1>4. CASE EndRule \/ EndPolicy
  <2>1. "pc" \in DOMAIN proc' /\ proc'.pc \in {"rule", "discover"}
    <3>1. CASE EndRule
        BY <3>1 DEF EndRule, NextRule
    <3>2. CASE EndPolicy
        BY <3>2 DEF EndPolicy
    <3> QED  BY <1>4, <3>1, <3>2
  <2> QED  BY <2>1 DEF Idle
<1>5. CASE Report
    BY <1>5 DEF Report, Idle
<1>6. ASSUME NEW p \in Paths, SearchFails(p) \/ SearchClean(p)
      PROVE  "pc" \in DOMAIN proc' /\ proc'.pc \in {"rule", "file"}
  <2>1. CASE SearchFails(p)
      BY <2>1 DEF SearchFails, WithError, NextRule
  <2>2. CASE SearchClean(p)
      BY <2>2 DEF SearchClean, Checking
  <2> QED  BY <1>6, <2>1, <2>2
<1>7. ASSUME NEW p \in Paths, SearchMatches(p) \/ RewriteFails(p)
      PROVE  /\ "pc" \in DOMAIN proc'
             /\ proc'.pc \in {"idle", "file"}
             /\ proc' = Idle => outcome'.script = "policy"
  <2>1. CASE SearchMatches(p)
    <3>1. CASE Unterminated
        BY <2>1, <3>1 DEF SearchMatches, Settle, Idle
    <3>2. CASE ~Unterminated
      <4>1. proc.pc = "file" /\ proc' = [proc EXCEPT !.left = @ \ {p}, !.bad = TRUE]
          BY <2>1, <3>2 DEF SearchMatches, Checking
      <4>2. "pc" \in DOMAIN proc' /\ proc'.pc = "file"
          BY <4>1
      <4> QED  BY <4>2 DEF Idle
    <3> QED  BY <3>1, <3>2
  <2>2. CASE RewriteFails(p)
      BY <2>2 DEF RewriteFails, Settle, Idle
  <2> QED  BY <1>7, <2>1, <2>2
<1>8. ASSUME NEW p \in Paths, SearchFails(p) \/ SearchClean(p)
      PROVE  proc' # Idle
    BY <1>6, <1>8 DEF Idle
<1> QED BY <1>1, <1>2, <1>3, <1>4, <1>5, <1>6, <1>7, <1>8 DEF PolicyNext

LEMMA PolicyKeeps ==
    ASSUME ScriptsInv, PolicyNext, UNCHANGED migrationVars
    PROVE  ScriptsInv'
<1>1. /\ source' = source /\ plan' = plan /\ agreed' = agreed /\ overwritten' = overwritten
    BY DEF migrationVars
<1>2. /\ "pc" \in DOMAIN proc'
      /\ proc'.pc \in {"idle", "discover", "rule", "file"}
      /\ proc' = Idle => outcome'.script = "policy"
    BY PolicySteps DEF ScriptsInv
<1>3. /\ "action" \in DOMAIN plan' /\ OverwritesAreConsented'
      /\ Agreed(plan.action, agreed.there, agreed.given)'
    BY <1>1 DEF ScriptsInv, OverwritesAreConsented, Agreed
<1>4. AppliedMeansInstalled'
    BY <1>2 DEF AppliedMeansInstalled
<1> QED BY <1>2, <1>3, <1>4 DEF ScriptsInv

-----------------------------------------------------------------------------
(* The migration *)

LEMMA AnalyzeKeeps ==
    ASSUME ScriptsInv, NEW interactive \in BOOLEAN, Analyze(interactive)
    PROVE  ScriptsInv'
<1> DEFINE pc == IF interactive /\ Modified # {} THEN "ask" ELSE "save"
<1>1. /\ proc' = [script |-> "analyze", action |-> Planned, modified |-> Modified,
                  left |-> Modified, there |-> There, answers |-> <<>>, pc |-> pc]
      /\ plan' = plan /\ agreed' = agreed /\ overwritten' = overwritten
    BY DEF Analyze, migrationVars
<1>2. pc \in {"ask", "save"}
    OBVIOUS
<1>3. \A p \in DOMAIN Planned : p \in There => Planned[p] = "skip"
    BY DEF Planned
<1> HIDE DEF pc
<1>4. proc'.pc = pc /\ "pc" \in DOMAIN proc' /\ proc' # Idle
    BY <1>1, <1>2 DEF Idle
<1>5. Questions'
    BY <1>1, <1>3 DEF Questions
<1>6. Agreed(proc.action, proc.there, GivenUp)'
    BY <1>1, <1>3 DEF Agreed
<1>7. /\ "action" \in DOMAIN plan' /\ OverwritesAreConsented'
      /\ Agreed(plan.action, agreed.there, agreed.given)'
    BY <1>1 DEF ScriptsInv, OverwritesAreConsented, Agreed
<1>8. AppliedMeansInstalled'
    BY <1>4 DEF AppliedMeansInstalled
<1> QED BY <1>2, <1>4, <1>5, <1>6, <1>7, <1>8 DEF ScriptsInv

\* What the answers say, after one more.
LEMMA Said ==
    ASSUME NEW S, NEW answers \in Seq(S \X {"o", "k"}), NEW p \in S,
           NEW answer \in {"o", "k", "ao", "ak"}
    PROVE  LET now == Append(answers, <<p, answer>>) IN
           /\ \A i \in DOMAIN answers :
                i \in DOMAIN now /\ now[i] = answers[i]
                /\ answers[i][1] \in S /\ answers[i][2] \in {"o", "k"}
           /\ Len(now) \in DOMAIN now /\ now[Len(now)] = <<p, answer>>
           /\ \A i \in DOMAIN now : i \in DOMAIN answers \/ now[i] = <<p, answer>>
<1>1. \A i \in DOMAIN answers : answers[i] \in S \X {"o", "k"}
    OBVIOUS
<1>2. DOMAIN answers = 1 .. Len(answers) /\ Len(answers) \in Nat
    OBVIOUS
<1> DEFINE now == Append(answers, <<p, answer>>)
<1>3. /\ DOMAIN now = 1 .. Len(answers) + 1 /\ Len(now) = Len(answers) + 1
      /\ \A i \in 1 .. Len(answers) : now[i] = answers[i]
      /\ now[Len(answers) + 1] = <<p, answer>>
  <2>1. answers \in Seq((S \X {"o", "k"}) \cup {<<p, answer>>})
      BY <1>1, <1>2
  <2> QED  BY <2>1
<1> QED BY <1>1, <1>2, <1>3

LEMMA AskKeeps ==
    ASSUME ScriptsInv, NEW p \in Paths, NEW answer \in {"o", "k", "ao", "ak"},
           Ask(p, answer)
    PROVE  ScriptsInv'
<1> DEFINE now == Append(proc.answers, <<p, answer>>)
           left == IF answer \in {"ao", "ak"} THEN {} ELSE proc.left \ {p}
           pc == IF left = {} THEN "save" ELSE "ask"
<1>1. Questions /\ p \in proc.left /\ p \in proc.modified
    BY DEF ScriptsInv, Ask, Questions
<1>2. proc' = [proc EXCEPT !.action = Resolve(p, answer), !.left = left,
                 !.answers = now, !.pc = pc]
    BY DEF Ask
<1>3. /\ DOMAIN proc' = DOMAIN proc /\ proc'.pc = pc
      /\ proc'.action = Resolve(p, answer) /\ proc'.left = left /\ proc'.answers = now
      /\ proc'.there = proc.there /\ proc'.modified = proc.modified
  <2> HIDE DEF left, pc, now
  <2> QED  BY <1>1, <1>2 DEF Questions
<1>4. /\ \A i \in DOMAIN proc.answers :
            i \in DOMAIN now /\ now[i] = proc.answers[i]
            /\ proc.answers[i][1] \in proc.modified /\ proc.answers[i][2] \in {"o", "k"}
      /\ Len(now) \in DOMAIN now /\ now[Len(now)] = <<p, answer>>
      /\ \A i \in DOMAIN now : i \in DOMAIN proc.answers \/ now[i] = <<p, answer>>
    BY <1>1, Said DEF Questions
<1> HIDE DEF now
<1>5. \A q \in DOMAIN proc.action :
        proc.action[q] # "skip" /\ q \in proc.there =>
            q \in proc.modified
            /\ \E i \in DOMAIN now : now[i] = <<q, "o">>
    BY <1>1, <1>4 DEF Questions
<1>6. ASSUME answer \in {"ao", "ak"}
      PROVE  Agreed(proc.action, proc.there, GivenUp)'
  <2>1. CASE answer = "ao"
    <3>1. GivenUp' = proc.modified
        BY <1>3, <1>4, <2>1 DEF GivenUp
    <3>2. proc'.action = Act(proc.action, proc.modified, "overwrite")
        BY <1>3, <2>1 DEF Resolve
    <3> QED  BY <1>3, <1>5, <3>1, <3>2 DEF Agreed, Act
  <2>2. CASE answer = "ak"
    <3>1. proc'.action = Act(proc.action, proc.modified, "skip")
        BY <1>3, <2>2 DEF Resolve
    <3> QED  BY <1>3, <1>5, <3>1 DEF Agreed, Act
  <2> QED  BY <1>6, <2>1, <2>2
<1>7. ASSUME answer \in {"o", "k"}
      PROVE  /\ Questions'
             /\ Agreed(proc.action, proc.there, GivenUp)'
  <2>1. \A q \in DOMAIN proc'.action :
          proc'.action[q] # "skip" /\ q \in proc.there =>
              \E i \in DOMAIN now : now[i] = <<q, "o">>
    <3>1. CASE answer = "o"
      <4>1. proc'.action = Act(proc.action, {p}, "overwrite")
          BY <1>3, <3>1 DEF Resolve
      <4> QED  BY <1>4, <1>5, <3>1, <4>1 DEF Act
    <3>2. CASE answer = "k"
      <4>1. proc'.action = proc.action
          BY <1>3, <3>2 DEF Resolve
      <4> QED  BY <1>5, <4>1
    <3> QED  BY <1>7, <3>1, <3>2
  <2>2. now \in Seq(proc.modified \X {"o", "k"})
      BY <1>1, <1>7 DEF Questions, now
  <2>3. \A i \in DOMAIN now : now[i][2] \in {"o", "k"}
      BY <1>4, <1>7
  <2>4. GivenUp' = {now[i][1] : i \in {i \in DOMAIN now : now[i][2] = "o"}}
      BY <1>3, <2>3 DEF GivenUp
  <2>5. Agreed(proc.action, proc.there, GivenUp)'
    <3>1. \A q : (\E i \in DOMAIN now : now[i] = <<q, "o">>) => q \in GivenUp'
        BY <2>4
    <3> QED  BY <1>3, <2>1, <3>1 DEF Agreed
  <2>6. left \subseteq proc.modified
      BY <1>1 DEF Questions
  <2>7. Questions'
    <3> HIDE DEF left
    <3> QED  BY <1>1, <1>3, <2>1, <2>2, <2>6 DEF Questions
  <2> QED  BY <2>5, <2>7
<1>8. pc \in {"ask", "save"} /\ (answer \in {"ao", "ak"} => pc = "save")
    OBVIOUS
<1>9. /\ "action" \in DOMAIN plan' /\ OverwritesAreConsented'
      /\ Agreed(plan.action, agreed.there, agreed.given)'
    BY DEF Ask, migrationVars, ScriptsInv, OverwritesAreConsented, Agreed
<1>10. "pc" \in DOMAIN proc' /\ proc' # Idle
    BY <1>1, <1>3, <1>8 DEF Questions, Idle
<1>11. AppliedMeansInstalled'
    BY <1>10 DEF AppliedMeansInstalled
<1> HIDE DEF pc, left
<1> QED BY <1>3, <1>6, <1>7, <1>8, <1>9, <1>10, <1>11 DEF ScriptsInv

LEMMA SaveKeeps ==
    ASSUME ScriptsInv, SavePlan
    PROVE  ScriptsInv'
<1>1. proc' = Idle /\ outcome'.script = "analyze" /\ "pc" \in DOMAIN proc'
      /\ proc'.pc = "idle"
    BY DEF SavePlan, Settle, Idle
<1>2. AppliedMeansInstalled'
    BY <1>1 DEF AppliedMeansInstalled
<1>3. CASE /\ plan' = [state |-> "saved", action |-> proc.action]
           /\ agreed' = [there |-> proc.there, given |-> GivenUp]
           /\ overwritten' = {}
  <2>1. Agreed(proc.action, proc.there, GivenUp)
      BY DEF ScriptsInv, SavePlan
  <2>2. "action" \in DOMAIN plan' /\ Agreed(plan.action, agreed.there, agreed.given)'
      BY <1>3, <2>1 DEF Agreed
  <2>3. OverwritesAreConsented'
      BY <1>3 DEF OverwritesAreConsented
  <2> QED  BY <1>1, <1>2, <2>2, <2>3 DEF ScriptsInv
<1>4. CASE /\ plan' \in {plan, [plan EXCEPT !.state = "torn"]}
           /\ UNCHANGED <<agreed, overwritten>>
  <2>1. "action" \in DOMAIN plan' /\ plan'.action = plan.action
      BY <1>4 DEF ScriptsInv
  <2>2. OverwritesAreConsented' /\ Agreed(plan.action, agreed.there, agreed.given)'
      BY <1>4, <2>1 DEF ScriptsInv, OverwritesAreConsented, Agreed
  <2> QED  BY <1>1, <1>2, <2>1, <2>2 DEF ScriptsInv
<1> QED BY <1>3, <1>4 DEF SavePlan

LEMMA ApplyKeeps ==
    ASSUME ScriptsInv, Apply
    PROVE  ScriptsInv'
<1>1. plan' = plan /\ agreed' = agreed /\ overwritten' = overwritten
    BY DEF Apply, migrationVars
<1>2. /\ "action" \in DOMAIN plan' /\ OverwritesAreConsented'
      /\ Agreed(plan.action, agreed.there, agreed.given)'
    BY <1>1 DEF ScriptsInv, OverwritesAreConsented, Agreed
<1>3. CASE Settle("apply", 1)
    BY <1>2, <1>3 DEF Settle, Idle, ScriptsInv, AppliedMeansInstalled
<1>4. CASE proc' = [script |-> "apply", pc |-> "apply", left |-> Actionable,
                    bad |-> FALSE]
  <2>1. Application' /\ proc'.pc = "apply" /\ "pc" \in DOMAIN proc' /\ proc' # Idle
      BY <1>1, <1>4 DEF Application, Actionable, Idle
  <2> QED  BY <1>2, <2>1 DEF ScriptsInv, AppliedMeansInstalled
<1> QED BY <1>3, <1>4 DEF Apply

\* What the steps of --apply have in common: the plan stays, and no file is
\* given up that the answers kept.
LEMMA ApplicationKeeps ==
    ASSUME ScriptsInv, NEW p, Applying(p),
           UNCHANGED <<source, plan, agreed>>,
           overwritten' \in {overwritten, overwritten \cup {p}}
    PROVE  /\ "action" \in DOMAIN plan' /\ OverwritesAreConsented'
           /\ Agreed(plan.action, agreed.there, agreed.given)'
           /\ Actionable' = Actionable /\ Application
<1>1. Application /\ p \in Actionable
    BY DEF ScriptsInv, Applying, Application
<1>2. p \in agreed.there => p \in agreed.given
    BY <1>1 DEF ScriptsInv, Agreed, Actionable
<1>3. OverwritesAreConsented'
    BY <1>2 DEF ScriptsInv, OverwritesAreConsented
<1> QED BY <1>1, <1>3 DEF ScriptsInv, Agreed, Actionable

\* One file less to do, and the process goes on.
LEMMA NextFile ==
    ASSUME ScriptsInv, NEW p, Applying(p), Actionable' = Actionable, Application,
           \/ proc' = [proc EXCEPT !.left = @ \ {p}, !.bad = TRUE]
           \/ /\ proc' = [proc EXCEPT !.left = @ \ {p}]
              /\ Installed(p)' /\ \A q : q # p /\ Installed(q) => Installed(q)'
    PROVE  /\ Application' /\ "pc" \in DOMAIN proc' /\ proc'.pc = "apply"
           /\ AppliedMeansInstalled'
<1>1. /\ DOMAIN proc' = DOMAIN proc /\ proc'.pc = "apply" /\ "pc" \in DOMAIN proc'
      /\ proc'.left = proc.left \ {p}
    BY DEF Application, Applying
<1>2. proc' # Idle
    BY <1>1 DEF Idle
<1>3. CASE proc' = [proc EXCEPT !.left = @ \ {p}, !.bad = TRUE]
  <2>1. proc'.bad
      BY <1>3 DEF Application
  <2> QED  BY <1>1, <1>2, <2>1 DEF Application, AppliedMeansInstalled
<1>4. CASE /\ proc' = [proc EXCEPT !.left = @ \ {p}]
           /\ Installed(p)' /\ \A q : q # p /\ Installed(q) => Installed(q)'
  <2>1. proc'.bad = proc.bad
      BY <1>4 DEF Application
  <2> QED  BY <1>1, <1>2, <1>4, <2>1 DEF Application, AppliedMeansInstalled
<1> QED BY <1>3, <1>4

LEMMA FileKeeps ==
    ASSUME ScriptsInv, NEW p \in Paths, SourceMissing(p) \/ CopyOver(p) \/ CopyFails(p)
    PROVE  ScriptsInv'
<1>1. /\ Applying(p)
      /\ UNCHANGED <<source, plan, agreed>>
      /\ overwritten' \in {overwritten, overwritten \cup {p}}
    BY DEF SourceMissing, CopyOver, CopyFails, migrationVars
<1>2. /\ "action" \in DOMAIN plan' /\ OverwritesAreConsented'
      /\ Agreed(plan.action, agreed.there, agreed.given)'
      /\ Actionable' = Actionable /\ Application
    BY <1>1, ApplicationKeeps
<1>3. CASE Settle("apply", 1)
    BY <1>2, <1>3 DEF Settle, Idle, ScriptsInv, AppliedMeansInstalled
<1>4. CASE proc' = [proc EXCEPT !.left = @ \ {p}, !.bad = TRUE]
    BY <1>1, <1>2, <1>4, NextFile DEF ScriptsInv
<1>5. CASE CopyOver(p)
  <2>1. Installed(p)' /\ \A q : q # p /\ Installed(q) => Installed(q)'
    <3>1. /\ tree' = [q \in DOMAIN tree \cup {p} |-> IF q = p THEN source[p] ELSE tree[q]]
          /\ source' = source /\ p \in DOMAIN source
        BY <1>1, <1>5 DEF CopyOver, With
    <3> QED  BY <3>1 DEF Installed
  <2> QED  BY <1>1, <1>2, <1>5, <2>1, NextFile DEF CopyOver, ScriptsInv
<1> QED BY <1>3, <1>4, <1>5 DEF SourceMissing, CopyFails

LEMMA EndKeeps ==
    ASSUME ScriptsInv, EndApply
    PROVE  ScriptsInv'
<1>1. /\ proc' = Idle /\ "pc" \in DOMAIN proc' /\ proc'.pc = "idle"
      /\ outcome' = [script |-> "apply", exit |-> IF proc.bad THEN 1 ELSE 0]
      /\ tree' = tree /\ source' = source /\ plan' = plan /\ agreed' = agreed
      /\ overwritten' = overwritten
    BY DEF EndApply, Settle, Idle, migrationVars
<1>2. Application /\ proc.left = {}
    BY DEF ScriptsInv, EndApply
<1>3. AppliedMeansInstalled'
    BY <1>1, <1>2 DEF AppliedMeansInstalled, Application, Installed, Actionable
<1> QED BY <1>1, <1>3 DEF ScriptsInv, OverwritesAreConsented, Agreed

LEMMA OthersKeep ==
    ASSUME ScriptsInv, Upgrade \/ ((Kill \/ Edit) /\ UNCHANGED migrationVars)
    PROVE  ScriptsInv'
<1>1. /\ plan' = plan /\ agreed' = agreed /\ overwritten' = overwritten
      /\ outcome'.script = "none"
    BY DEF Upgrade, Kill, Edit, Settle, Unsettled, migrationVars
<1>2. "pc" \in DOMAIN proc' /\ proc'.pc = "idle"
    BY DEF Upgrade, Kill, Edit, Settle, Idle
<1> QED BY <1>1, <1>2 DEF ScriptsInv, OverwritesAreConsented, Agreed, AppliedMeansInstalled

LEMMA ScriptsKeep == ScriptsInv /\ [ScriptsNext]_scriptsVars => ScriptsInv'
<1> SUFFICES ASSUME ScriptsInv, [ScriptsNext]_scriptsVars PROVE ScriptsInv'
    OBVIOUS
<1>1. CASE PolicyNext /\ UNCHANGED migrationVars
    BY <1>1, PolicyKeeps
<1>2. CASE MigrationNext
    BY <1>2, AnalyzeKeeps, AskKeeps, SaveKeeps, ApplyKeeps, FileKeeps, EndKeeps,
       OthersKeep DEF MigrationNext
<1>3. CASE (Kill \/ Edit) /\ UNCHANGED migrationVars
    BY <1>3, OthersKeep
<1>4. CASE UNCHANGED scriptsVars
  <2>1. /\ tree' = tree /\ proc' = proc /\ outcome' = outcome /\ source' = source
        /\ plan' = plan /\ agreed' = agreed /\ overwritten' = overwritten
      BY <1>4 DEF scriptsVars, treeVars, migrationVars
  <2>2. Questions' = Questions
      BY <2>1 DEF Questions
  <2>3. Agreed(proc.action, proc.there, GivenUp)' = Agreed(proc.action, proc.there, GivenUp)
      BY <2>1 DEF Agreed, GivenUp
  <2>4. Application' = Application /\ AppliedMeansInstalled' = AppliedMeansInstalled
      BY <2>1 DEF Application, Actionable, Installed, AppliedMeansInstalled
  <2>5. /\ Agreed(plan.action, agreed.there, agreed.given)'
            = Agreed(plan.action, agreed.there, agreed.given)
        /\ OverwritesAreConsented' = OverwritesAreConsented
      BY <2>1 DEF Agreed, OverwritesAreConsented
  <2> QED  BY <2>1, <2>2, <2>3, <2>4, <2>5 DEF ScriptsInv
<1> QED BY <1>1, <1>2, <1>3, <1>4 DEF ScriptsNext

LEMMA ScriptsAlways == ScriptsSpec => []ScriptsInv
<1>1. ScriptsInit => ScriptsInv
    BY ScriptsStart
<1>2. ScriptsInv /\ [ScriptsNext]_scriptsVars => ScriptsInv'
    BY ScriptsKeep
<1> QED BY <1>1, <1>2, PTL DEF ScriptsSpec

-----------------------------------------------------------------------------
\* --apply overwrites no file that was there when the plan was made and that
\* the answers kept, however single and group answers mix, and whatever edits,
\* policy checks, failures and kills come in between (apply-migration.ts:293).
THEOREM OverwritesConsented == ScriptsSpec => []OverwritesAreConsented
<1>1. ScriptsInv => OverwritesAreConsented
    BY DEF ScriptsInv
<1> QED BY <1>1, ScriptsAlways, PTL

\* An --apply that exits with 0 has installed every file of its plan as the
\* package has it (apply-migration.ts:457).
THEOREM AppliedIsInstalled == ScriptsSpec => []AppliedMeansInstalled
<1>1. ScriptsInv => AppliedMeansInstalled
    BY DEF ScriptsInv
<1> QED BY <1>1, ScriptsAlways, PTL

-----------------------------------------------------------------------------
(* The policy check *)

\* What a migration leaves of the process, when it is done with a step.
LEMMA MigrationSteps ==
    ASSUME ScriptsInv, MigrationNext
    PROVE  /\ "pc" \in DOMAIN proc'
           /\ proc'.pc \in {"idle", "ask", "save", "apply"}
           /\ proc' = Idle => outcome'.script # "policy"
<1>1. ASSUME NEW interactive \in BOOLEAN, Analyze(interactive)
      PROVE  "pc" \in DOMAIN proc' /\ proc'.pc \in {"ask", "save"}
    BY <1>1 DEF Analyze
<1>2. ASSUME NEW p \in Paths, NEW answer \in {"o", "k", "ao", "ak"}, Ask(p, answer)
      PROVE  "pc" \in DOMAIN proc' /\ proc'.pc \in {"ask", "save"}
  <2> DEFINE left == IF answer \in {"ao", "ak"} THEN {} ELSE proc.left \ {p}
             pc == IF left = {} THEN "save" ELSE "ask"
             now == Append(proc.answers, <<p, answer>>)
  <2>1. /\ "pc" \in DOMAIN proc /\ pc \in {"ask", "save"}
        /\ proc' = [proc EXCEPT !.action = Resolve(p, answer), !.left = left,
                      !.answers = now, !.pc = pc]
      BY <1>2 DEF Ask, ScriptsInv
  <2> HIDE DEF left, pc, now
  <2> QED  BY <2>1
<1>3. ASSUME NEW p \in Paths, SourceMissing(p) \/ CopyOver(p) \/ CopyFails(p)
      PROVE  \/ "pc" \in DOMAIN proc' /\ proc'.pc = "apply"
             \/ Settle("apply", 1)
  <2>1. "pc" \in DOMAIN proc /\ proc.pc = "apply"
      BY <1>3 DEF ScriptsInv, SourceMissing, CopyOver, CopyFails, Applying
  <2> QED  BY <1>3, <2>1 DEF SourceMissing, CopyOver, CopyFails
<1>4. CASE SavePlan
    BY <1>4 DEF SavePlan, Settle, Idle
<1>5. CASE Apply
    BY <1>5 DEF Apply, Settle, Idle
<1>6. CASE EndApply
    BY <1>6 DEF EndApply, Settle, Idle
<1>7. CASE Upgrade
    BY <1>7 DEF Upgrade, Unsettled, Idle
<1>8. Settle("apply", 1) => /\ "pc" \in DOMAIN proc' /\ proc'.pc = "idle"
                            /\ outcome'.script = "apply"
    BY DEF Settle, Idle
<1>9. \A what \in {"ask", "save", "apply"} : proc'.pc = what => proc' # Idle
    BY DEF Idle
<1> QED  BY <1>1, <1>2, <1>3, <1>4, <1>5, <1>6, <1>7, <1>8, <1>9 DEF MigrationNext

\* Rules that a check executes are well formed, and so are the policies it has
\* yet to execute.
GoodRules == {r \in Rules : RuleOK(r)}

Executable(name) == name \in DOMAIN Policies /\ PolicyOK(Policies[name])

CheckTyped ==
    /\ {"script", "pc", "names", "fix", "preview", "failFast", "queue", "rules",
        "files", "left", "bad", "failed"} \subseteq DOMAIN proc
    /\ proc.rules \in Seq(GoodRules)
    /\ \A i \in proc.queue : i \in DOMAIN proc.names /\ Executable(proc.names[i])
    /\ proc.pc = "file" => proc.rules # <<>>
    /\ proc.failed => proc.bad

\* No file that the rule is for holds what it looks for.
RuleClean(d, r) == \A p \in Examined(d, r) : r.token \notin tree[p]

PolicyClean(name) ==
    /\ name \in DOMAIN Policies
    /\ \A k \in DOMAIN Policies[name].rules :
          RuleClean(Policies[name], Policies[name].rules[k])

Waits(r) == \E m \in DOMAIN proc.rules : proc.rules[m] = r

\* The policy at position c is being executed: rules that do not wait have found
\* their files clean.
Executing(c) ==
    LET d == Policies[proc.names[c]] IN
    /\ Executable(proc.names[c])
    /\ \A i \in DOMAIN proc.names : i \in proc.queue \/ i = c \/ PolicyClean(proc.names[i])
    /\ proc.files = Discovered(d)
    /\ \A k \in DOMAIN d.rules : RuleClean(d, d.rules[k]) \/ Waits(d.rules[k])

\* As long as nothing bad was met, nothing was changed either, and what the
\* check is done with is clean.
CheckProgress ==
    ~proc.bad =>
        /\ proc.pc = "discover" =>
              \A i \in DOMAIN proc.names : i \in proc.queue \/ PolicyClean(proc.names[i])
        /\ proc.pc \in {"rule", "file"} => \E c \in DOMAIN proc.names : Executing(c)
        /\ proc.pc = "file" =>
              \A p \in (proc.files \ Rule.allow) \ proc.left : Rule.token \notin tree[p]

CheckInv ==
    /\ proc.pc \in {"discover", "rule", "file"} => CheckTyped /\ CheckProgress
    /\ ZeroMeansClean

-----------------------------------------------------------------------------
\* Rules one by one.
LEMMA RuleByRule ==
    ASSUME NEW S, NEW rules \in Seq(S), rules # <<>>
    PROVE  /\ Head(rules) \in S
           /\ Tail(rules) \in Seq(S)
           /\ \A m \in DOMAIN rules :
                rules[m] = Head(rules) \/ \E k \in DOMAIN Tail(rules) : Tail(rules)[k] = rules[m]
<1>1. DOMAIN rules = 1 .. Len(rules) /\ Len(rules) \in Nat /\ Len(rules) > 0
    OBVIOUS
<1>2. /\ Tail(rules) \in Seq(S) /\ DOMAIN Tail(rules) = 1 .. Len(rules) - 1
      /\ \A k \in 1 .. Len(rules) - 1 : Tail(rules)[k] = rules[k + 1]
    BY <1>1
<1>3. ASSUME NEW m \in DOMAIN rules
      PROVE  rules[m] = Head(rules) \/ \E k \in DOMAIN Tail(rules) : Tail(rules)[k] = rules[m]
  <2>1. CASE m = 1
      BY <1>1, <2>1
  <2>2. CASE m # 1
    <3>1. m - 1 \in DOMAIN Tail(rules) /\ Tail(rules)[m - 1] = rules[m]
        BY <1>1, <1>2, <2>2
    <3> QED  BY <3>1
  <2> QED  BY <2>1, <2>2
<1> QED  BY <1>1, <1>2, <1>3

\* The rules of a policy that was loaded are well formed.
LEMMA LoadedRules ==
    ASSUME NEW name, Executable(name)
    PROVE  Policies[name].rules \in Seq(GoodRules)
<1> DEFINE rules == Policies[name].rules
<1>1. rules \in Seq(Rules) /\ \A k \in DOMAIN rules : RuleOK(rules[k])
    BY PolicyAssumption DEF PolicyAssumption, Executable, PolicyOK
<1>2. \A k \in 1 .. Len(rules) : rules[k] \in GoodRules
    BY <1>1 DEF GoodRules
<1> QED  BY <1>1, <1>2

LEMMA CheckBegins ==
    ASSUME CheckInv, NEW names \in Selections, NEW dirExists \in BOOLEAN,
           NEW fix \in BOOLEAN, NEW preview \in BOOLEAN, NEW failFast \in BOOLEAN,
           CheckPolicies(names, dirExists, fix, preview, failFast)
    PROVE  CheckInv'
<1>1. CASE Settle("policy", 1)
    BY <1>1 DEF Settle, Idle, CheckInv, ZeroMeansClean
<1>2. CASE proc' = [script |-> "policy", pc |-> "discover", names |-> names,
                    fix |-> fix, preview |-> preview, failFast |-> failFast,
                    queue |-> Load(names, failFast), rules |-> <<>>, files |-> {},
                    left |-> {}, bad |-> Load(names, failFast) # DOMAIN names,
                    failed |-> FALSE]
  <2>1. \A i \in Load(names, failFast) : i \in DOMAIN names /\ Executable(names[i])
      BY DEF Load, Executable
  <2>2. /\ proc'.pc = "discover" /\ proc'.names = names
        /\ proc'.queue = Load(names, failFast)
        /\ proc'.rules = <<>> /\ proc'.failed = FALSE
        /\ proc'.bad = (Load(names, failFast) # DOMAIN names)
        /\ proc' # Idle
      BY <1>2 DEF Idle
  <2>3. CheckTyped'
      BY <1>2, <2>1, <2>2 DEF CheckTyped
  <2>4. CheckProgress'
      BY <2>2 DEF CheckProgress
  <2> QED  BY <2>2, <2>3, <2>4 DEF CheckInv, ZeroMeansClean
<1> QED  BY <1>1, <1>2 DEF CheckPolicies

\* What is clean stays so while the files stay.
LEMMA SameTree ==
    ASSUME UNCHANGED tree
    PROVE  /\ \A d : Discovered(d)' = Discovered(d)
           /\ \A d, r : RuleClean(d, r)' = RuleClean(d, r)
           /\ \A name : PolicyClean(name)' = PolicyClean(name)
BY DEF Discovered, Examined, RuleClean, PolicyClean

LEMMA DiscoverKeeps ==
    ASSUME CheckInv, Discover
    PROVE  CheckInv'
<1>1. PICK first \in proc.queue :
        LET d == Policies[proc.names[first]]
            p == [proc EXCEPT !.queue = @ \ {first}, !.pc = "rule"]
        IN \/ proc' = [p EXCEPT !.rules = d.rules, !.files = Discovered(d), !.failed = FALSE]
           \/ proc' = [WithError(p) EXCEPT !.rules = <<>>, !.files = {}]
    BY DEF Discover
<1> DEFINE d == Policies[proc.names[first]]
           p == [proc EXCEPT !.queue = @ \ {first}, !.pc = "rule"]
<1>2. /\ CheckTyped /\ CheckProgress /\ proc.pc = "discover" /\ UNCHANGED tree
      /\ Executable(proc.names[first]) /\ first \in DOMAIN proc.names
    BY DEF CheckInv, Discover, Checking, CheckTyped
<1>3. /\ DOMAIN p = DOMAIN proc /\ p.pc = "rule" /\ p.queue = proc.queue \ {first}
      /\ p.names = proc.names /\ p.bad = proc.bad /\ p.failed = proc.failed
    BY <1>2 DEF CheckTyped
<1>4. d.rules \in Seq(GoodRules)
    BY <1>2, LoadedRules
<1>5. CASE proc' = [p EXCEPT !.rules = d.rules, !.files = Discovered(d), !.failed = FALSE]
  <2>1. /\ DOMAIN proc' = DOMAIN proc /\ proc'.pc = "rule"
        /\ proc'.queue = proc.queue \ {first} /\ proc'.names = proc.names
        /\ proc'.bad = proc.bad /\ proc'.failed = FALSE
        /\ proc'.rules = d.rules /\ proc'.files = Discovered(d)
    <3> HIDE DEF p, d
    <3> QED  BY <1>2, <1>3, <1>5 DEF CheckTyped
  <2>2. CheckTyped'
      BY <1>2, <1>4, <2>1 DEF CheckTyped
  <2>3. ASSUME ~proc.bad
        PROVE  Executing(first)'
    <3>1. \A i \in DOMAIN proc.names :
            i \in proc'.queue \/ i = first \/ PolicyClean(proc.names[i])'
        BY <1>2, <2>1, <2>3, SameTree DEF CheckProgress
    <3>2. proc'.files = Discovered(d)'
        BY <1>2, <2>1, SameTree
    <3>3. \A k \in DOMAIN d.rules : Waits(d.rules[k])'
        BY <2>1 DEF Waits
    <3> QED  BY <1>2, <2>1, <3>1, <3>2, <3>3 DEF Executing
  <2>4. CheckProgress'
      BY <1>2, <2>1, <2>3 DEF CheckProgress
  <2>5. proc' # Idle
      BY <2>1 DEF Idle
  <2> QED  BY <2>1, <2>2, <2>4, <2>5 DEF CheckInv, ZeroMeansClean
<1>6. CASE proc' = [WithError(p) EXCEPT !.rules = <<>>, !.files = {}]
  <2>1. /\ DOMAIN proc' = DOMAIN proc /\ proc'.pc = "rule"
        /\ proc'.queue = proc.queue \ {first} /\ proc'.names = proc.names
        /\ proc'.bad = TRUE /\ proc'.rules = <<>>
    <3> HIDE DEF p
    <3> QED  BY <1>2, <1>3, <1>6 DEF CheckTyped, WithError
  <2>2. CheckTyped'
      BY <1>2, <2>1 DEF CheckTyped
  <2>3. CheckProgress' /\ proc' # Idle
      BY <2>1 DEF CheckProgress, Idle
  <2> QED  BY <2>1, <2>2, <2>3 DEF CheckInv, ZeroMeansClean
<1> QED  BY <1>1, <1>5, <1>6

\* Steps that meet something bad have nothing to show for what they did.
LEMMA BadKeeps ==
    ASSUME CheckTyped, DOMAIN proc' = DOMAIN proc,
           proc'.pc \in {"rule", "file"}, proc'.bad,
           proc'.rules \in Seq(GoodRules), proc'.pc = "file" => proc'.rules # <<>>,
           proc'.queue = proc.queue, proc'.names = proc.names
    PROVE  CheckInv'
<1>1. CheckTyped'
    BY DEF CheckTyped
<1>2. CheckProgress' /\ proc' # Idle
    BY DEF CheckProgress, Idle
<1> QED  BY <1>1, <1>2 DEF CheckInv, ZeroMeansClean

LEMMA StartRuleKeeps ==
    ASSUME CheckInv, StartRule
    PROVE  CheckInv'
<1>1. /\ CheckTyped /\ CheckProgress /\ proc.pc = "rule" /\ UNCHANGED tree
      /\ proc.rules # <<>> /\ proc.rules \in Seq(GoodRules)
    BY DEF CheckInv, StartRule, Checking, CheckTyped
<1>2. CASE proc' = NextRule(WithError(proc))
  <2>1. /\ DOMAIN proc' = DOMAIN proc /\ proc'.pc = "rule" /\ proc'.bad
        /\ proc'.rules = Tail(proc.rules)
        /\ proc'.queue = proc.queue /\ proc'.names = proc.names
      BY <1>1, <1>2 DEF NextRule, WithError, CheckTyped
  <2> QED  BY <1>1, <2>1, BadKeeps, RuleByRule
<1>3. CASE proc' = [proc EXCEPT !.left = proc.files \ Head(proc.rules).allow, !.pc = "file"]
  <2>1. /\ DOMAIN proc' = DOMAIN proc /\ proc'.pc = "file"
        /\ proc'.left = proc.files \ Head(proc.rules).allow
        /\ UNCHANGED <<proc.rules, proc.queue, proc.names, proc.bad, proc.failed, proc.files>>
      BY <1>1, <1>3 DEF CheckTyped
  <2>2. CheckTyped'
      BY <1>1, <2>1 DEF CheckTyped
  <2>3. \A c \in DOMAIN proc.names : Executing(c) => Executing(c)'
      BY <1>1, <2>1, SameTree DEF Executing, Waits
  <2>4. CheckProgress'
      BY <1>1, <2>1, <2>3 DEF CheckProgress, Rule
  <2>5. proc' # Idle
      BY <2>1 DEF Idle
  <2> QED  BY <2>1, <2>2, <2>4, <2>5 DEF CheckInv, ZeroMeansClean
<1> QED  BY <1>2, <1>3 DEF StartRule

LEMMA SearchKeeps ==
    ASSUME CheckInv, NEW p \in Paths,
           SearchFails(p) \/ SearchClean(p) \/ SearchMatches(p) \/ RewriteFails(p)
    PROVE  CheckInv'
<1>1. /\ CheckTyped /\ CheckProgress /\ proc.pc = "file"
      /\ proc.rules # <<>> /\ proc.rules \in Seq(GoodRules)
    BY DEF CheckInv, SearchFails, SearchClean, SearchMatches, RewriteFails, Checking, CheckTyped
<1>2. CASE Settle("policy", 1)
    BY <1>2 DEF Settle, Idle, CheckInv, ZeroMeansClean
<1>3. CASE proc' = NextRule(WithError(proc))
  <2>1. /\ DOMAIN proc' = DOMAIN proc /\ proc'.pc = "rule" /\ proc'.bad
        /\ proc'.rules = Tail(proc.rules)
        /\ proc'.queue = proc.queue /\ proc'.names = proc.names
      BY <1>1, <1>3 DEF NextRule, WithError, CheckTyped
  <2> QED  BY <1>1, <2>1, BadKeeps, RuleByRule
<1>4. CASE proc' = [proc EXCEPT !.left = @ \ {p}, !.bad = TRUE]
  <2>1. /\ DOMAIN proc' = DOMAIN proc /\ proc'.pc = "file" /\ proc'.bad
        /\ proc'.rules = proc.rules
        /\ proc'.queue = proc.queue /\ proc'.names = proc.names
      BY <1>1, <1>4 DEF CheckTyped
  <2> QED  BY <1>1, <2>1, BadKeeps
<1>5. CASE SearchClean(p)
  <2>1. /\ DOMAIN proc' = DOMAIN proc /\ proc'.pc = "file"
        /\ proc'.left = proc.left \ {p}
        /\ UNCHANGED <<proc.rules, proc.queue, proc.names, proc.bad, proc.failed, proc.files>>
        /\ UNCHANGED tree /\ Rule.token \notin tree[p]
      BY <1>1, <1>5 DEF CheckTyped, SearchClean
  <2>2. CheckTyped'
      BY <1>1, <2>1 DEF CheckTyped
  <2>3. \A c \in DOMAIN proc.names : Executing(c) => Executing(c)'
      BY <1>1, <2>1, SameTree DEF Executing, Waits
  <2>4. CheckProgress'
      BY <1>1, <2>1, <2>3 DEF CheckProgress, Rule
  <2>5. proc' # Idle
      BY <2>1 DEF Idle
  <2> QED  BY <2>1, <2>2, <2>4, <2>5 DEF CheckInv, ZeroMeansClean
<1> QED  BY <1>2, <1>3, <1>4, <1>5 DEF SearchFails, SearchMatches, RewriteFails

LEMMA EndRuleKeeps ==
    ASSUME CheckInv, EndRule
    PROVE  CheckInv'
<1>1. /\ CheckTyped /\ CheckProgress /\ proc.pc = "file" /\ UNCHANGED tree
      /\ proc.rules # <<>> /\ proc.rules \in Seq(GoodRules) /\ proc.left = {}
      /\ proc' = NextRule(proc)
    BY DEF CheckInv, EndRule, Checking, CheckTyped
<1>2. /\ DOMAIN proc' = DOMAIN proc /\ proc'.pc = "rule"
      /\ proc'.rules = Tail(proc.rules)
      /\ UNCHANGED <<proc.queue, proc.names, proc.bad, proc.failed, proc.files>>
    BY <1>1 DEF NextRule, CheckTyped
<1>3. CheckTyped'
    BY <1>1, <1>2, RuleByRule DEF CheckTyped
<1>4. ASSUME ~proc.bad, NEW c \in DOMAIN proc.names, Executing(c)
      PROVE  Executing(c)'
  <2> DEFINE d == Policies[proc.names[c]]
  <2>1. /\ Executable(proc.names[c]) /\ proc.files = Discovered(d)
        /\ \A k \in DOMAIN d.rules : RuleClean(d, d.rules[k]) \/ Waits(d.rules[k])
      BY <1>4 DEF Executing
  <2>2. RuleClean(d, Rule)
      BY <1>1, <1>4, <2>1 DEF CheckProgress, RuleClean, Examined
  <2>3. \A m \in DOMAIN proc.rules :
          proc.rules[m] = Rule \/ \E k \in DOMAIN proc'.rules : proc'.rules[k] = proc.rules[m]
      BY <1>1, <1>2, RuleByRule DEF Rule
  <2>4. \A k \in DOMAIN d.rules :
          RuleClean(d, d.rules[k]) \/ \E m \in DOMAIN proc'.rules : proc'.rules[m] = d.rules[k]
      BY <2>1, <2>2, <2>3 DEF Waits
  <2>5. \A i \in DOMAIN proc.names : i \in proc.queue \/ i = c \/ PolicyClean(proc.names[i])
      BY <1>4 DEF Executing
  <2> QED  BY <1>1, <1>2, <2>1, <2>4, <2>5, SameTree DEF Executing, Waits
<1>5. CheckProgress'
    BY <1>1, <1>2, <1>4 DEF CheckProgress
<1>6. proc' # Idle
    BY <1>2 DEF Idle
<1> QED  BY <1>2, <1>3, <1>5, <1>6 DEF CheckInv, ZeroMeansClean

LEMMA EndPolicyKeeps ==
    ASSUME CheckInv, EndPolicy
    PROVE  CheckInv'
<1>1. /\ CheckTyped /\ CheckProgress /\ proc.pc = "rule" /\ UNCHANGED tree
      /\ proc.rules = <<>>
    BY DEF CheckInv, EndPolicy, Checking, CheckTyped
<1>2. /\ DOMAIN proc' = DOMAIN proc /\ proc'.pc = "discover"
      /\ proc'.queue = IF proc.failFast /\ proc.failed THEN {} ELSE proc.queue
      /\ UNCHANGED <<proc.rules, proc.names, proc.bad, proc.failed, proc.files>>
    BY <1>1 DEF EndPolicy, CheckTyped
<1>3. CheckTyped'
    BY <1>1, <1>2 DEF CheckTyped
<1>4. ASSUME ~proc.bad
      PROVE  \A i \in DOMAIN proc.names : i \in proc'.queue \/ PolicyClean(proc.names[i])
  <2>1. PICK c \in DOMAIN proc.names : Executing(c)
      BY <1>1, <1>4 DEF CheckProgress
  <2>2. proc'.queue = proc.queue
      BY <1>1, <1>2, <1>4 DEF CheckTyped
  <2>3. \A r : ~Waits(r)
      BY <1>1 DEF Waits
  <2>4. PolicyClean(proc.names[c])
      BY <2>1, <2>3 DEF Executing, PolicyClean, Executable
  <2> QED  BY <2>1, <2>2, <2>4 DEF Executing
<1>5. CheckProgress'
    BY <1>1, <1>2, <1>4, SameTree DEF CheckProgress
<1>6. proc' # Idle
    BY <1>2 DEF Idle
<1> QED  BY <1>2, <1>3, <1>5, <1>6 DEF CheckInv, ZeroMeansClean

LEMMA ReportKeeps ==
    ASSUME CheckInv, Report
    PROVE  CheckInv'
<1>1. /\ CheckTyped /\ CheckProgress /\ proc.pc = "discover" /\ UNCHANGED tree
      /\ proc.queue = {} /\ proc' = Idle
      /\ outcome' = [script |-> "policy", exit |-> IF proc.bad THEN 1 ELSE 0,
                     names |-> proc.names]
    BY DEF CheckInv, Report, Checking
<1>2. ~proc.bad => \A i \in DOMAIN proc.names : PolicyClean(proc.names[i])
    BY <1>1 DEF CheckProgress
<1>3. ZeroMeansClean'
  <2> SUFFICES ASSUME ~proc.bad, NEW i \in DOMAIN proc.names
               PROVE  LET d == Policies[proc.names[i]] IN
                      /\ proc.names[i] \in DOMAIN Policies
                      /\ \A k \in DOMAIN d.rules : RuleClean(d, d.rules[k])
      BY <1>1, SameTree DEF ZeroMeansClean, RuleClean, Examined
  <2> QED  BY <1>2 DEF PolicyClean
<1> QED  BY <1>1, <1>3 DEF CheckInv, Idle

LEMMA CheckKeeps ==
    ASSUME ScriptsInv, CheckInv, [ScriptsNext]_scriptsVars
    PROVE  CheckInv'
<1>1. CASE PolicyNext
    BY <1>1, CheckBegins, DiscoverKeeps, StartRuleKeeps, SearchKeeps, EndRuleKeeps,
       EndPolicyKeeps, ReportKeeps DEF PolicyNext
<1>2. CASE MigrationNext
    BY <1>2, MigrationSteps DEF CheckInv, ZeroMeansClean
<1>3. CASE Kill \/ Edit
  <2>1. proc' = Idle /\ outcome'.script = "none"
      BY <1>3 DEF Kill, Edit, Settle, Unsettled, Idle
  <2> QED  BY <2>1 DEF CheckInv, ZeroMeansClean, Idle
<1>4. CASE UNCHANGED scriptsVars
  <2>1. tree' = tree /\ proc' = proc /\ outcome' = outcome
      BY <1>4 DEF scriptsVars, treeVars
  <2>2. CheckTyped' = CheckTyped
      BY <2>1 DEF CheckTyped
  <2>3. \A c : Executing(c)' = Executing(c)
      BY <2>1, SameTree DEF Executing, Waits
  <2>4. CheckProgress' = CheckProgress
      BY <2>1, <2>3, SameTree DEF CheckProgress, Rule
  <2>5. ZeroMeansClean' = ZeroMeansClean
      BY <2>1, SameTree DEF ZeroMeansClean, Examined
  <2> QED  BY <2>1, <2>2, <2>4, <2>5 DEF CheckInv
<1> QED  BY <1>1, <1>2, <1>3, <1>4 DEF ScriptsNext

LEMMA CheckStart == ScriptsInit => CheckInv
BY DEF ScriptsInit, TreeInit, Idle, Unsettled, CheckInv, ZeroMeansClean

LEMMA CheckAlways == ScriptsSpec => []CheckInv
<1>1. ScriptsInv /\ CheckInv /\ [ScriptsNext]_scriptsVars => CheckInv'
    BY CheckKeeps
<1> QED  BY ScriptsAlways, CheckStart, <1>1, PTL DEF ScriptsSpec

\* A check that exits with 0 leaves nothing behind that a rule of the policies it
\* was asked for would find, whatever was not found, malformed, unsupported,
\* failed or fixed on the way, and whatever ran before (policy-check.ts:852).
THEOREM ZeroIsClean == ScriptsSpec => []ZeroMeansClean
<1>1. CheckInv => ZeroMeansClean
    BY DEF CheckInv
<1> QED  BY <1>1, CheckAlways, PTL

-----------------------------------------------------------------------------
(* Types *)

FilesOK(files) ==
    /\ DOMAIN files \subseteq Paths
    /\ \A p \in DOMAIN files : files[p] \subseteq Tokens

\* The plan that an analysis is making is one that can be saved.
PlanOK ==
    /\ DOMAIN proc.action \subseteq Paths \ Excluded
    /\ \A p \in DOMAIN proc.action : proc.action[p] \in {"copy", "overwrite", "skip"}
    /\ proc.modified \subseteq proc.there
    /\ GivenUp \subseteq proc.there

TypeInv ==
    /\ ScriptsTypeOK
    /\ proc.pc \in {"ask", "save"} => PlanOK

\* Files that are written, or deleted, remain files.
LEMMA FilesWritten ==
    ASSUME NEW files, FilesOK(files), NEW p \in Paths, NEW content \in SUBSET Tokens
    PROVE  /\ FilesOK(With(files, p, content))
           /\ FilesOK(Without(files, p))
           /\ FilesOK([files EXCEPT ![p] = content])
BY DEF FilesOK, With, Without

Counters == [commands : 0 .. MaxCommands, faults : 0 .. MaxFaults, edits : 0 .. MaxEdits]

LEMMA Counted ==
    ASSUME used \in Counters,
           \/ Works \/ Fails \/ Begin
           \/ used.edits < MaxEdits /\ used' = [used EXCEPT !.edits = @ + 1]
    PROVE  used' \in Counters
<1>1. MaxCommands \in Nat /\ MaxFaults \in Nat /\ MaxEdits \in Nat
    BY TreeAssumption DEF TreeAssumption
<1> QED  BY <1>1 DEF Counters, Works, Fails, Begin

LEMMA TypeStart == ScriptsInit => TypeInv
<1> SUFFICES ASSUME ScriptsInit PROVE TypeInv
    OBVIOUS
<1>1. MaxCommands \in Nat /\ MaxFaults \in Nat /\ MaxEdits \in Nat
    BY TreeAssumption DEF TreeAssumption
<1>2. TreeTypeOK
  <2>1. used \in [commands : 0 .. MaxCommands, faults : 0 .. MaxFaults,
                  edits : 0 .. MaxEdits]
      BY <1>1 DEF ScriptsInit, TreeInit
  <2> QED  BY <2>1, ScriptsAssumption
           DEF ScriptsInit, TreeInit, Unsettled, TreeTypeOK, ScriptsAssumption
<1>3. MigrationTypeOK
    BY ScriptsAssumption DEF ScriptsInit, MigrationInit, MigrationTypeOK, ScriptsAssumption
<1>4. proc.pc = "idle"
    BY DEF ScriptsInit, TreeInit, Idle
<1> QED  BY <1>2, <1>3, <1>4 DEF TypeInv, ScriptsTypeOK

\* What a policy check writes.
LEMMA PolicyWrites ==
    ASSUME TypeInv, CheckInv, PolicyNext
    PROVE  TreeTypeOK'
<1>1. FilesOK(tree) /\ used \in Counters /\ outcome.exit \in {0, 1, 137}
    BY DEF TypeInv, ScriptsTypeOK, TreeTypeOK, FilesOK, Counters
<1>2. Works \/ Fails \/ Begin
    BY DEF PolicyNext, CheckPolicies, Discover, StartRule, EndRule, EndPolicy, Report,
           SearchFails, SearchClean, SearchMatches, RewriteFails
<1>3. used' \in Counters
    BY <1>1, <1>2, Counted
<1>4. outcome' = outcome \/ outcome'.exit \in {0, 1}
  <2>1. Settle("policy", 1) => outcome'.exit = 1
      BY DEF Settle
  <2>2. Report => outcome'.exit \in {0, 1}
      BY DEF Report
  <2>3. outcome' = outcome \/ Settle("policy", 1) \/ Report
      BY DEF PolicyNext, CheckPolicies, Discover, StartRule, EndRule, EndPolicy,
             SearchFails, SearchClean, SearchMatches, RewriteFails
  <2> QED  BY <2>1, <2>2, <2>3
<1>5. ASSUME NEW p \in Paths, SearchMatches(p) \/ RewriteFails(p)
      PROVE  FilesOK(tree')
  <2>1. Rule \in GoodRules /\ p \in DOMAIN tree
    <3>1. CheckTyped /\ proc.rules # <<>>
        BY <1>5 DEF CheckInv, CheckTyped, SearchMatches, RewriteFails, Checking
    <3>2. proc.rules \in Seq(GoodRules)
        BY <3>1 DEF CheckTyped
    <3> QED  BY <1>5, <3>1, <3>2, RuleByRule DEF Rule, SearchMatches, RewriteFails
  <2>2. tree[p] \subseteq Tokens
      BY <1>1, <2>1 DEF FilesOK
  <2>3. Rule.mode = "rewrite" => Rewritten(Rule, tree[p]) \subseteq Tokens
      BY <2>1, <2>2 DEF GoodRules, RuleOK, Rewritten
  <2>4. \/ tree' = tree \/ CommandRuns
        \/ \E content \in SUBSET Tokens : tree' = [tree EXCEPT ![p] = content]
    <3>1. CASE SearchMatches(p)
      <4>1. tree' = tree \/ FixFile(p)
          BY <3>1 DEF SearchMatches
      <4> QED  BY <2>2, <2>3, <4>1 DEF FixFile
    <3>2. CASE RewriteFails(p)
        BY <3>2 DEF RewriteFails
    <3> QED  BY <1>5, <3>1, <3>2
  <2>5. ASSUME NEW content \in SUBSET Tokens, tree' = [tree EXCEPT ![p] = content]
        PROVE  FilesOK(tree')
      BY <1>1, <2>5, FilesWritten
  <2>6. CommandRuns => FilesOK(tree')
      BY DEF CommandRuns, FilesOK
  <2> QED  BY <1>1, <2>4, <2>5, <2>6
<1>6. FilesOK(tree')
  <2>1. tree' = tree \/ \E p \in Paths : SearchMatches(p) \/ RewriteFails(p)
      BY DEF PolicyNext, CheckPolicies, Discover, StartRule, EndRule, EndPolicy, Report,
             SearchFails, SearchClean
  <2> QED  BY <1>1, <1>5, <2>1
<1> QED  BY <1>1, <1>3, <1>4, <1>6 DEF TreeTypeOK, FilesOK, Counters

\* What a migration writes into the project.
LEMMA MigrationWrites ==
    ASSUME TypeInv, MigrationNext
    PROVE  TreeTypeOK'
<1>1. /\ FilesOK(tree) /\ FilesOK(source)
      /\ used \in Counters /\ outcome.exit \in {0, 1, 137}
    BY DEF TypeInv, ScriptsTypeOK, TreeTypeOK, MigrationTypeOK, FilesOK, Counters
<1>2. \/ Works \/ Fails \/ Begin
      \/ used.edits < MaxEdits /\ used' = [used EXCEPT !.edits = @ + 1]
    BY DEF MigrationNext, Analyze, Ask, SavePlan, Apply, SourceMissing, CopyOver,
           CopyFails, EndApply, Upgrade
<1>3. used' \in Counters
    BY <1>1, <1>2, Counted
<1>4. outcome' = outcome \/ outcome'.exit \in {0, 1}
  <2>1. \A script, code : Settle(script, code) => outcome'.exit = code
      BY DEF Settle
  <2>2. Upgrade => outcome'.exit = 0
      BY DEF Upgrade, Unsettled
  <2>3. \/ outcome' = outcome \/ Upgrade
        \/ \E script \in {"analyze", "apply"}, code \in {0, 1} : Settle(script, code)
      BY DEF MigrationNext, Analyze, Ask, SavePlan, Apply, SourceMissing, CopyOver,
             CopyFails, EndApply
  <2> QED  BY <2>1, <2>2, <2>3
<1>5. \/ tree' = tree
      \/ \E p \in Paths : \E content \in SUBSET Tokens : tree' = With(tree, p, content)
  <2>1. ASSUME NEW p \in Paths, CopyOver(p) \/ CopyFails(p)
        PROVE  tree' = tree \/ \E content \in SUBSET Tokens : tree' = With(tree, p, content)
    <3>1. source[p] \subseteq Tokens
        BY <1>1, <2>1 DEF FilesOK, CopyOver, CopyFails
    <3> QED  BY <2>1, <3>1 DEF CopyOver, CopyFails
  <2> QED  BY <2>1 DEF MigrationNext, Analyze, Ask, SavePlan, Apply, SourceMissing,
                       EndApply, Upgrade
<1>6. FilesOK(tree')
  <2>1. ASSUME NEW p \in Paths, NEW content \in SUBSET Tokens, tree' = With(tree, p, content)
        PROVE  FilesOK(tree')
      BY <1>1, <2>1, FilesWritten
  <2> QED  BY <1>1, <1>5, <2>1
<1> QED  BY <1>1, <1>3, <1>4, <1>6 DEF TreeTypeOK, FilesOK, Counters

\* The package and the plan, and the plan that is being made.
LEMMA MigrationTyped ==
    ASSUME TypeInv, ScriptsInv, MigrationNext
    PROVE  /\ MigrationTypeOK'
           /\ proc'.pc \in {"ask", "save"} => PlanOK'
<1>1. MigrationTypeOK
    BY DEF TypeInv, ScriptsTypeOK
<1>2. UNCHANGED <<source, plan, agreed, overwritten>> => MigrationTypeOK'
    BY <1>1 DEF MigrationTypeOK
<1>3. ASSUME NEW interactive \in BOOLEAN, Analyze(interactive)
      PROVE  MigrationTypeOK' /\ PlanOK'
  <2>1. /\ proc'.action = Planned /\ proc'.modified = Modified
        /\ proc'.there = There /\ proc'.answers = <<>>
      BY <1>3 DEF Analyze
  <2>2. /\ DOMAIN Planned \subseteq Paths \ Excluded
        /\ \A p \in DOMAIN Planned : Planned[p] \in {"copy", "overwrite", "skip"}
      BY <1>1 DEF Planned, Collected, MigrationTypeOK
  <2>3. Modified \subseteq There
      BY DEF Modified
  <2>4. GivenUp' = {}
      BY <2>1 DEF GivenUp
  <2>5. PlanOK'
      BY <2>1, <2>2, <2>3, <2>4 DEF PlanOK
  <2> QED  BY <1>2, <1>3, <2>5 DEF Analyze, migrationVars
<1>4. ASSUME NEW p \in Paths, NEW answer \in {"o", "k", "ao", "ak"}, Ask(p, answer)
      PROVE  MigrationTypeOK' /\ PlanOK'
  <2> DEFINE now == Append(proc.answers, <<p, answer>>)
             left == IF answer \in {"ao", "ak"} THEN {} ELSE proc.left \ {p}
             pc == IF left = {} THEN "save" ELSE "ask"
  <2>1. Questions /\ PlanOK /\ p \in proc.modified
      BY <1>4 DEF TypeInv, ScriptsInv, Ask, Questions
  <2>2. proc' = [proc EXCEPT !.action = Resolve(p, answer), !.left = left,
                   !.answers = now, !.pc = pc]
      BY <1>4 DEF Ask
  <2>3. /\ proc'.action = Resolve(p, answer) /\ proc'.answers = now
        /\ proc'.there = proc.there /\ proc'.modified = proc.modified
    <3> HIDE DEF left, pc, now
    <3> QED  BY <2>1, <2>2 DEF Questions
  <2>4. \A i \in DOMAIN now : now[i][1] \in proc.modified
    <3>1. /\ \A i \in DOMAIN proc.answers : proc.answers[i][1] \in proc.modified
          /\ \A i \in DOMAIN now : i \in DOMAIN proc.answers \/ now[i] = <<p, answer>>
          /\ \A i \in DOMAIN proc.answers : now[i] = proc.answers[i]
        BY <2>1, Said DEF Questions
    <3> HIDE DEF now
    <3> QED  BY <2>1, <3>1
  <2>5. GivenUp' \subseteq proc.modified
    <3> HIDE DEF now
    <3> QED  BY <2>3, <2>4 DEF GivenUp
  <2>6. /\ DOMAIN Resolve(p, answer) = DOMAIN proc.action
        /\ \A q \in DOMAIN proc.action :
              Resolve(p, answer)[q] \in {"copy", "overwrite", "skip"}
      BY <2>1 DEF Resolve, Act, PlanOK
  <2>7. PlanOK'
      BY <2>1, <2>3, <2>5, <2>6 DEF PlanOK
  <2> QED  BY <1>2, <1>4, <2>7 DEF Ask, migrationVars
<1>5. CASE SavePlan
  <2>1. PlanOK /\ proc'.pc = "idle"
      BY <1>5 DEF TypeInv, SavePlan, Settle, Idle
  <2>2. CASE /\ plan' = [state |-> "saved", action |-> proc.action]
             /\ agreed' = [there |-> proc.there, given |-> GivenUp]
             /\ overwritten' = {} /\ source' = source
      BY <1>1, <2>1, <2>2 DEF MigrationTypeOK, PlanOK
  <2>3. CASE /\ plan' \in {plan, [plan EXCEPT !.state = "torn"]}
             /\ UNCHANGED <<source, agreed, overwritten>>
    <3>1. /\ DOMAIN plan' = {"state", "action"} /\ plan'.action = plan.action
          /\ plan'.state \in {"none", "torn", "saved"}
        BY <1>1, <2>3 DEF MigrationTypeOK
    <3> QED  BY <1>1, <2>1, <2>3, <3>1 DEF MigrationTypeOK
  <2> QED  BY <1>5, <2>1, <2>2, <2>3 DEF SavePlan
<1>6. CASE Apply \/ EndApply
    BY <1>2, <1>6 DEF Apply, EndApply, Settle, Idle, migrationVars
<1>7. ASSUME NEW p \in Paths, SourceMissing(p) \/ CopyOver(p) \/ CopyFails(p)
      PROVE  MigrationTypeOK' /\ proc'.pc \notin {"ask", "save"}
  <2>1. /\ UNCHANGED <<source, plan, agreed>>
        /\ overwritten' \in {overwritten, overwritten \cup {p}}
      BY <1>7 DEF SourceMissing, CopyOver, CopyFails, migrationVars
  <2>2. "pc" \in DOMAIN proc /\ proc.pc = "apply"
      BY <1>7 DEF ScriptsInv, SourceMissing, CopyOver, CopyFails, Applying
  <2>3. proc'.pc \notin {"ask", "save"}
    <3>1. CASE proc' = Idle
        BY <3>1 DEF Idle
    <3>2. CASE proc' = [proc EXCEPT !.left = @ \ {p}]
        BY <2>2, <3>2
    <3>3. CASE proc' = [proc EXCEPT !.left = @ \ {p}, !.bad = TRUE]
        BY <2>2, <3>3
    <3> QED  BY <1>7, <3>1, <3>2, <3>3 DEF SourceMissing, CopyOver, CopyFails, Settle
  <2> QED  BY <1>1, <2>1, <2>3 DEF MigrationTypeOK
<1>8. CASE Upgrade
  <2>1. \E p \in Paths : \/ \E content \in SUBSET Tokens : source' = With(source, p, content)
                         \/ source' = Without(source, p)
      BY <1>8 DEF Upgrade
  <2>2. FilesOK(source')
      BY <1>1, <2>1, FilesWritten DEF MigrationTypeOK, FilesOK
  <2>3. proc'.pc = "idle" /\ UNCHANGED <<plan, agreed, overwritten>>
      BY <1>8 DEF Upgrade, Idle
  <2> QED  BY <1>1, <2>2, <2>3 DEF MigrationTypeOK, FilesOK
<1> QED  BY <1>3, <1>4, <1>5, <1>6, <1>7, <1>8 DEF MigrationNext

LEMMA TypeKeeps ==
    ASSUME TypeInv, ScriptsInv, CheckInv, [ScriptsNext]_scriptsVars
    PROVE  TypeInv'
<1>1. CASE PolicyNext /\ UNCHANGED migrationVars
  <2>1. proc'.pc \notin {"ask", "save"}
      BY <1>1, PolicySteps DEF ScriptsInv
  <2>2. MigrationTypeOK'
      BY <1>1 DEF TypeInv, ScriptsTypeOK, MigrationTypeOK, migrationVars
  <2> QED  BY <1>1, <2>1, <2>2, PolicyWrites DEF TypeInv, ScriptsTypeOK
<1>2. CASE MigrationNext
    BY <1>2, MigrationWrites, MigrationTyped DEF TypeInv, ScriptsTypeOK
<1>3. CASE (Kill \/ Edit) /\ UNCHANGED migrationVars
  <2>1. /\ FilesOK(tree) /\ used \in Counters
      BY DEF TypeInv, ScriptsTypeOK, TreeTypeOK, FilesOK, Counters
  <2>2. \/ tree' = tree
        \/ \E p \in Paths : \/ \E content \in SUBSET Tokens : tree' = With(tree, p, content)
                            \/ tree' = Without(tree, p)
      BY <1>3 DEF Kill, Edit
  <2>3. FilesOK(tree')
    <3>1. ASSUME NEW p \in Paths, NEW content \in SUBSET Tokens
          PROVE  FilesOK(With(tree, p, content)) /\ FilesOK(Without(tree, p))
        BY <2>1, FilesWritten
    <3>2. {} \in SUBSET Tokens
        OBVIOUS
    <3> QED  BY <2>1, <2>2, <3>1, <3>2
  <2>4. used' \in Counters
      BY <1>3, <2>1, Counted DEF Kill, Edit
  <2>5. outcome'.exit \in {0, 1, 137} /\ proc'.pc = "idle"
      BY <1>3 DEF Kill, Edit, Settle, Unsettled, Idle
  <2>6. MigrationTypeOK'
      BY <1>3 DEF TypeInv, ScriptsTypeOK, MigrationTypeOK, migrationVars
  <2> QED  BY <2>3, <2>4, <2>5, <2>6 DEF TypeInv, ScriptsTypeOK, TreeTypeOK, FilesOK, Counters
<1>4. CASE UNCHANGED scriptsVars
  <2>1. /\ tree' = tree /\ proc' = proc /\ outcome' = outcome /\ used' = used
        /\ source' = source /\ plan' = plan /\ agreed' = agreed
        /\ overwritten' = overwritten
      BY <1>4 DEF scriptsVars, treeVars, migrationVars
  <2>2. PlanOK' = PlanOK
      BY <2>1 DEF PlanOK, GivenUp
  <2> QED  BY <2>1, <2>2 DEF TypeInv, ScriptsTypeOK, TreeTypeOK, MigrationTypeOK
<1> QED  BY <1>1, <1>2, <1>3, <1>4 DEF ScriptsNext

\* The scripts keep the files, the package, the plan and what was agreed on what
\* they are declared to be; a replacement, for one, is something a file may hold.
THEOREM ScriptsTyped == ScriptsSpec => []ScriptsTypeOK
<1>1. TypeInv /\ ScriptsInv /\ CheckInv /\ [ScriptsNext]_scriptsVars => TypeInv'
    BY TypeKeeps
<1>2. TypeInv => ScriptsTypeOK
    BY DEF TypeInv
<1> QED  BY TypeStart, ScriptsAlways, CheckAlways, <1>1, <1>2, PTL DEF ScriptsSpec
=============================================================================
