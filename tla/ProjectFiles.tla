---------------------------- MODULE ProjectFiles ----------------------------
(***************************************************************************)
(* The commands "fracta init", "config mcp add" and "config mcp remove" on *)
(* the files of a project (cmd, internal/mcpcatalog, internal/project).    *)
(* Commands run one after the other; nothing locks the files, and two at   *)
(* once may lose each other's changes.  A command may be killed between    *)
(* any two of its file operations, and a file operation may fail.  The     *)
(* content of a file is the set of entries a command tells apart in it.    *)
(***************************************************************************)
EXTENDS Naturals, Sequences, SequencesExt, FiniteSets

CONSTANTS
    Id,          \* servers of the catalog
    NeedsEnv,    \* the ones with auth.env_required
    Deployed,    \* the ones the project has
    Asked,       \* the ones the commands are about
    MaxCommand, MaxFileFault, MaxKill    \* bounds

ASSUME ProjectAssumption ==
    /\ NeedsEnv \subseteq Id /\ Deployed \subseteq Id /\ Asked \subseteq Id
    /\ MaxCommand \in Nat /\ MaxFileFault \in Nat /\ MaxKill \in Nat

Kind == {"local", "docker-compose", "k8s"}

FractaYAML == <<"fracta.yaml">>
ComposeFile == <<"docker-compose.yml">>
EnvExample == <<".env.example">>
ManifestDir == <<"manifests">>
Manifest(id) == <<"mcp.yaml", id>>
Secret(id) == <<"mcp-secret.yaml", id>>
Updated == {FractaYAML, ComposeFile, EnvExample}
Path == Updated \cup {ManifestDir} \cup {Manifest(id) : id \in Id} \cup {Secret(id) : id \in Id}

\* A write that truncates the file first leaves it torn if it is cut short.
Absent == [is |-> "absent", has |-> {}]
Torn == [is |-> "torn", has |-> {}]
Whole(S) == [is |-> "whole", has |-> S]
Exists(f) == f.is # "absent"

VARIABLES
    file, bak,    \* the files of the project and their .bak files
    temp,         \* temporary files, by target
    cmd,          \* the command that runs or ran last
    started, fileFaults, kills

projectVars == <<file, bak, temp, cmd, started, fileFaults, kills>>

Rest == {"idle", "done", "failed", "killed"}
NoCommand == [at |-> "idle", op |-> "none", id |-> "none", kind |-> "local", force |-> FALSE,
              plan |-> <<>>, n |-> 0, baks |-> <<>>, written |-> {}, node |-> Absent,
              before |-> <<>>, restored |-> TRUE]

\* A project of kind k with the servers S, written by earlier commands and
\* then by hand: fracta.yaml has a scalar that a YAML round trip changes.
ProjectOf(k, S) == [p \in Path |->
    CASE p = FractaYAML -> Whole({<<"drift", "plain">>, <<"backend", IF k = "k8s" THEN "kubernetes" ELSE "local">>}
                                   \cup {<<id, IF k = "local" THEN k ELSE "remote", k>> : id \in S})
      [] p = ComposeFile /\ k = "docker-compose" -> Whole({<<id, "service">> : id \in S})
      [] p = EnvExample /\ k = "docker-compose" -> Whole({<<id, "var">> : id \in S})
      [] p = ManifestDir /\ k = "k8s" -> Whole({})
      [] k = "k8s" /\ \E id \in S : p = Manifest(id) -> Whole({<<p[2], "edited">>})
      [] OTHER -> Absent]

ProjectInit ==
    /\ file \in {[p \in Path |-> Absent]} \cup {ProjectOf(k, Deployed) : k \in Kind}
    /\ bak = [p \in Path |-> Absent] /\ temp = {}
    /\ cmd = NoCommand
    /\ started = 0 /\ fileFaults = 0 /\ kills = 0

ProjectTypeOK ==
    /\ \A p \in Path : file[p].is \in {"absent", "torn", "whole"} /\ bak[p].is \in {"absent", "torn", "whole"}
    /\ temp \subseteq Path
    /\ cmd.op \in {"none", "init", "add", "remove"} /\ cmd.n \in 0..Len(cmd.plan) + 1
    /\ cmd.at \in Rest \cup {"prompt", "normalize", "snapshot", "bak", "apply", "temp", "rename",
                             "cleanup", "restore", "rewrite", "unlink", "scaffold", "fill"}

Active == cmd.at \notin Rest
Set(r) == cmd' = r
At(at) == cmd.at = at
Go(at) == Set([cmd EXCEPT !.at = at])
Act == IF cmd.n = 0 THEN [do |-> "update", path |-> FractaYAML] ELSE cmd.plan[cmd.n]
KeepFiles == UNCHANGED <<file, bak, temp>>
KeepCounts == UNCHANGED <<started, fileFaults, kills>>
Fault == fileFaults < MaxFileFault /\ fileFaults' = fileFaults + 1 /\ UNCHANGED <<started, kills>>

(***************************************************************************)
(* The state of the project as a command sees it.                          *)
(***************************************************************************)

Backend(b) == file[FractaYAML].is = "whole" /\ <<"backend", b>> \in file[FractaYAML].has

\* LoadProjectState: a project has one scaffold.
EnabledScaffolds ==
    {k \in Kind : CASE k = "k8s" -> Backend("kubernetes")
                    [] k = "docker-compose" -> Backend("local") /\ Exists(file[ComposeFile])
                    [] k = "local" -> Backend("local") /\ ~Exists(file[ComposeFile])}

ModeKey(k) == IF k = "local" THEN "local" ELSE "remote"

\* The remote entries of fracta.yaml say nothing: their url is looked up
\* under a key that no entry has.
Configured(id, k) ==
    /\ Exists(file[FractaYAML]) /\ file[FractaYAML].is = "whole"
    /\ CASE k = "local" -> \E e \in file[FractaYAML].has : e[1] = id /\ e[2] = "local"
         [] k = "docker-compose" -> <<id, "service">> \in file[ComposeFile].has
         [] k = "k8s" -> Exists(file[Manifest(id)])

\* checkExistingMode: a project keeps the kind it was made with.
ExistingMode(k) ==
    IF Exists(file[ManifestDir]) THEN k = "k8s"
    ELSE IF Exists(file[ComposeFile]) THEN k = "docker-compose"
    ELSE IF Backend("kubernetes") THEN k = "k8s"
    ELSE file[FractaYAML].is = "whole" => k # "k8s"

(***************************************************************************)
(* What the steps of a plan make of a file.                                *)
(***************************************************************************)

Task(do, p) == [do |-> do, path |-> p]
When(b, s) == IF b THEN s ELSE <<>>

\* planAddWithTargets; a command given explicit paths has no .env.example.
PlanAdd(id, k, standalone) ==
    CASE k = "local" -> <<Task("update", FractaYAML)>>
      [] k = "docker-compose" ->
           <<Task("update", ComposeFile), Task("update", FractaYAML)>>
             \o When(id \in NeedsEnv /\ ~standalone, <<Task("update", EnvExample)>>)
      [] k = "k8s" -> <<Task("write", Manifest(id))>> \o When(id \in NeedsEnv, <<Task("write", Secret(id))>>)
                        \o <<Task("update", FractaYAML)>>

PlanRemove(id, k, keepConfig) ==
    LET rendered ==
          CASE k = "local" -> <<>>
            [] k = "docker-compose" -> When(Exists(file[ComposeFile]), <<Task("update", ComposeFile)>>)
            [] k = "k8s" -> When(Exists(file[Manifest(id)]), <<Task("delete", Manifest(id))>>)
                              \o When(Exists(file[Secret(id)]), <<Task("delete", Secret(id))>>)
    IN  IF Configured(id, k) THEN rendered \o When(~keepConfig, <<Task("update", FractaYAML)>>) ELSE <<>>

\* The files of a scaffold, in the order of the walk.
PlanInit(k) ==
    CASE k = "local" -> <<Task("scaffold", FractaYAML)>>
      [] k = "docker-compose" -> <<Task("scaffold", ComposeFile), Task("scaffold", FractaYAML)>>
      [] k = "k8s" -> <<Task("scaffold", ManifestDir), Task("scaffold", FractaYAML)>>

Template(p, k) ==
    IF p = FractaYAML THEN {<<"backend", IF k = "k8s" THEN "kubernetes" ELSE "local">>} ELSE {}

Normalized(S) == {IF e = <<"drift", "plain">> THEN <<"drift", "quoted">> ELSE e : e \in S}

ServerEntry(id, k) == <<id, ModeKey(k), k>>
Existing(S, id, k) == {e \in S : e[1] = id /\ e[2] = ModeKey(k)}
UpsertMCPServer(S, id, k) == (S \ Existing(S, id, k)) \cup {ServerEntry(id, k)}
RemoveMCPServer(S, id, k) == S \ Existing(S, id, k)
UpsertComposeService(S, id) == S \cup {<<id, "service">>}
RemoveComposeService(S, id) == S \ {<<id, "service">>}
AppendEnvExample(S, id) == S \cup {<<id, "var">>}

\* The content the step p of an add or a remove gives to content S.
Changed(op, id, k, p, S) ==
    CASE p = FractaYAML -> IF op = "add" THEN UpsertMCPServer(S, id, k) ELSE RemoveMCPServer(S, id, k)
      [] p = ComposeFile -> IF op = "add" THEN UpsertComposeService(S, id) ELSE RemoveComposeService(S, id)
      [] p = EnvExample -> AppendEnvExample(S, id)
      [] OTHER -> {<<id, "rendered">>}

\* An entry that exists is an error without --force.
Refused(S) ==
    /\ cmd.op = "add" /\ ~cmd.force
    /\ \/ Act.path = FractaYAML /\ Existing(S, cmd.id, cmd.kind) # {}
       \/ Act.path = ComposeFile /\ <<cmd.id, "service">> \in S

(***************************************************************************)
(* A command begins: it reads the project, makes its plan and asks.        *)
(***************************************************************************)

Started(r) ==
    /\ ~Active /\ started < MaxCommand /\ started' = started + 1
    /\ Set([r EXCEPT !.before = file])
    /\ KeepFiles /\ UNCHANGED <<fileFaults, kills>>

Asking(op, id, k, force, plan) ==
    [NoCommand EXCEPT !.at = "prompt", !.op = op, !.id = id, !.kind = k, !.force = force, !.plan = plan]

RunConfigMcpAdd(id, k, force, standalone) ==
    /\ standalone \/ k \in EnabledScaffolds
    /\ LET plan == PlanAdd(id, k, standalone) IN
       /\ force \/ \A i \in DOMAIN plan : plan[i].do = "write" => ~Exists(file[plan[i].path])
       /\ Started(Asking("add", id, k, force, plan))

RunConfigMcpRemove(id, k, keepConfig) ==
    LET plan == PlanRemove(id, k, keepConfig) IN
    plan # <<>> /\ Started(Asking("remove", id, k, FALSE, plan))

RunInit(k, force) ==
    ExistingMode(k) /\ Started(Asking("init", "none", k, force, PlanInit(k)))

\* The next step of the plan; step 0 is the normalisation of fracta.yaml.
First(op) == CASE op = "init" -> "scaffold" [] op = "remove" -> "apply" [] op = "add" -> "snapshot"
After == IF cmd.n < Len(cmd.plan) THEN First(cmd.op)
            ELSE IF cmd.op = "add" THEN "cleanup" ELSE "done"
Following(r, at) == [r EXCEPT !.at = at, !.n = @ + 1, !.node = Absent]
NextStep == Set(Following(cmd, After))

PromptYes ==
    /\ At("prompt")
    /\ IF cmd.op = "add" /\ Exists(file[FractaYAML]) THEN Go("normalize") ELSE NextStep
    /\ KeepFiles /\ KeepCounts

PromptNo == At("prompt") /\ Go("idle") /\ KeepFiles /\ KeepCounts

(***************************************************************************)
(* Atomic writes: a temporary file, then a rename.                         *)
(***************************************************************************)

\* An error ends the command; an add first undoes the steps of its plan.
OnError == IF cmd.op = "add" /\ cmd.n > 0 THEN "restore" ELSE "failed"
Errs == Go(OnError)

\* Temporary files that a killed command left are removed first, but not
\* those of a manifest.
Orphans == IF Act.do = "write" THEN {} ELSE {Act.path}

WriteTemp ==
    /\ At("temp")
    /\ temp' = (temp \ Orphans) \cup {Act.path}
    /\ Go("rename")
    /\ UNCHANGED <<file, bak>> /\ KeepCounts

WriteTempFails ==
    At("temp") /\ Fault /\ Errs /\ temp' = temp \ Orphans /\ UNCHANGED <<file, bak>>

\* The first manifest makes the directory.
Replaced(p) ==
    [q \in Path |-> IF q = p THEN cmd.node
                    ELSE IF q = ManifestDir /\ p \notin Updated THEN Whole({}) ELSE file[q]]

Rename ==
    /\ At("rename")
    /\ temp' = temp \ {Act.path}
    /\ file' = Replaced(Act.path)
    /\ Set([Following(cmd, After) EXCEPT !.written = IF Act.do = "write" THEN @ \cup {Act.path} ELSE @])
    /\ UNCHANGED bak /\ KeepCounts

RenameFails ==
    /\ At("rename") /\ Fault /\ Errs
    /\ temp' = temp \ {Act.path} /\ UNCHANGED <<file, bak>>

(***************************************************************************)
(* The steps of an add and of a remove.                                    *)
(***************************************************************************)

Parsed(f) == IF f.is = "torn" THEN {Whole({}), Torn} ELSE {Whole(f.has)}

\* NormalizeFractaYAML; a file that another command removed is an error.
Normalize ==
    /\ At("normalize")
    /\ \E f \in Parsed(file[FractaYAML]) :
         LET new == Whole(Normalized(f.has)) IN
         IF f.is = "torn" THEN Errs
         ELSE IF new = file[FractaYAML] THEN NextStep
         ELSE Set([cmd EXCEPT !.at = "temp", !.node = new])
    /\ KeepFiles /\ KeepCounts

Snapshot ==
    /\ At("snapshot")
    /\ LET old == file[Act.path] IN
       Set(IF Act.do = "update" /\ Exists(old) THEN [cmd EXCEPT !.at = "bak", !.node = old]
              ELSE [cmd EXCEPT !.at = "apply"])
    /\ KeepFiles /\ KeepCounts

WriteBak ==
    /\ At("bak")
    /\ bak' = [bak EXCEPT ![Act.path] = cmd.node]
    /\ Set([cmd EXCEPT !.at = "apply", !.baks = Append(@, Act.path)])
    /\ UNCHANGED <<file, temp>> /\ KeepCounts

WriteBakFails ==
    /\ At("bak") /\ Fault /\ Errs
    /\ bak' = [bak EXCEPT ![Act.path] = Torn] /\ UNCHANGED <<file, temp>>

\* applyAddAction, applyRemoveFractaYAML and applyRemoveCompose: read the
\* file, change it, write it.
Apply ==
    /\ At("apply") /\ Act.do # "delete"
    /\ \E f \in Parsed(file[Act.path]) :
         LET new == Changed(cmd.op, cmd.id, cmd.kind, Act.path, f.has) IN
         IF f.is = "torn" \/ Refused(f.has) THEN Errs
         ELSE IF \/ cmd.op = "remove" /\ ~Exists(file[Act.path])
                 \/ Act.path = EnvExample /\ new = f.has THEN NextStep
         ELSE Set([cmd EXCEPT !.at = "temp", !.node = Whole(new)])
    /\ KeepFiles /\ KeepCounts

\* A file that is already gone is not an error.
DeleteFile ==
    /\ At("apply") /\ Act.do = "delete"
    /\ file' = [file EXCEPT ![Act.path] = Absent]
    /\ NextStep
    /\ UNCHANGED <<bak, temp>> /\ KeepCounts

DeleteFileFails == At("apply") /\ Act.do = "delete" /\ Fault /\ Errs /\ KeepFiles

CleanupBaks ==
    /\ At("cleanup")
    /\ bak' = [p \in Path |-> IF p \in Range(cmd.baks) THEN Absent ELSE bak[p]]
    /\ Go("done") /\ UNCHANGED <<file, temp>> /\ KeepCounts

(***************************************************************************)
(* The rollback of an add: the .bak files in reverse order, each written   *)
(* over its file; then the files it wrote are deleted.                     *)
(***************************************************************************)

RestoreForgotten ==
    /\ At("restore") /\ cmd.baks # <<>>
    /\ bak' = [bak EXCEPT ![Last(cmd.baks)] = Absent]
    /\ Set([cmd EXCEPT !.baks = Front(@)])
    /\ UNCHANGED <<file, temp>> /\ KeepCounts

RestoreUnlinksFirst ==
    /\ At("restore") /\ cmd.baks # <<>>
    /\ LET p == Last(cmd.baks) IN
       IF Exists(bak[p])
       THEN /\ file' = [file EXCEPT ![p] = Torn] /\ bak' = [bak EXCEPT ![p] = Absent]
            /\ Set([cmd EXCEPT !.at = "rewrite", !.node = bak[p]])
       ELSE Set([cmd EXCEPT !.baks = Front(@)]) /\ UNCHANGED <<file, bak>>
    /\ UNCHANGED temp /\ KeepCounts

\* os.WriteFile truncates the file; a .bak that is gone restores nothing.
Restore ==
    /\ At("restore") /\ cmd.baks # <<>>
    /\ LET p == Last(cmd.baks) IN
       IF Exists(bak[p])
       THEN /\ file' = [file EXCEPT ![p] = Torn]
            /\ Set([cmd EXCEPT !.at = "rewrite", !.node = bak[p]])
       ELSE Set([cmd EXCEPT !.baks = Front(@)]) /\ UNCHANGED file
    /\ UNCHANGED <<bak, temp>> /\ KeepCounts

Rewrite ==
    /\ At("rewrite")
    /\ file' = [file EXCEPT ![Last(cmd.baks)] = cmd.node]
    /\ Go("unlink")
    /\ UNCHANGED <<bak, temp>> /\ KeepCounts

\* The error is ignored and the .bak removed all the same.
RewriteFails ==
    /\ At("rewrite") /\ Fault
    /\ Set([cmd EXCEPT !.at = "unlink", !.restored = FALSE]) /\ KeepFiles

RemoveBak ==
    /\ At("unlink")
    /\ bak' = [bak EXCEPT ![Last(cmd.baks)] = Absent]
    /\ Set([cmd EXCEPT !.at = "restore", !.baks = Front(@)])
    /\ UNCHANGED <<file, temp>> /\ KeepCounts

DeleteWritten ==
    /\ At("restore") /\ cmd.baks = <<>>
    /\ file' = [p \in Path |-> IF p \in cmd.written THEN Absent ELSE file[p]]
    /\ Go("failed") /\ UNCHANGED <<bak, temp>> /\ KeepCounts

(***************************************************************************)
(* The scaffold of an init: existing files are skipped, or written over.   *)
(***************************************************************************)

SkipExisting ==
    /\ At("scaffold") /\ Exists(file[Act.path]) /\ ~cmd.force
    /\ NextStep /\ KeepFiles /\ KeepCounts

OpenFile ==
    /\ At("scaffold") /\ (cmd.force \/ ~Exists(file[Act.path]))
    /\ file' = [file EXCEPT ![Act.path] = Torn]
    /\ Go("fill") /\ UNCHANGED <<bak, temp>> /\ KeepCounts

FillFile ==
    /\ At("fill")
    /\ file' = [file EXCEPT ![Act.path] = Whole(Template(Act.path, cmd.kind))]
    /\ NextStep /\ UNCHANGED <<bak, temp>> /\ KeepCounts

FillFileFails == At("fill") /\ Fault /\ Go("failed") /\ KeepFiles

Killed ==
    /\ Active /\ kills < MaxKill /\ kills' = kills + 1
    /\ Go("killed") /\ KeepFiles /\ UNCHANGED <<started, fileFaults>>

ProjectNext ==
    \/ \E id \in Asked, k \in Kind, b1, b2 \in BOOLEAN : RunConfigMcpAdd(id, k, b1, b2)
    \/ \E id \in Asked, k \in Kind, b \in BOOLEAN : RunConfigMcpRemove(id, k, b)
    \/ \E k \in Kind, b \in BOOLEAN : RunInit(k, b)
    \/ PromptYes \/ PromptNo
    \/ WriteTemp \/ WriteTempFails \/ Rename \/ RenameFails
    \/ Normalize \/ Snapshot \/ WriteBak \/ WriteBakFails
    \/ Apply \/ DeleteFile \/ DeleteFileFails \/ CleanupBaks
    \/ Restore \/ Rewrite \/ RewriteFails \/ RemoveBak \/ DeleteWritten
    \/ SkipExisting \/ OpenFile \/ FillFile \/ FillFileFails
    \/ Killed

ProjectSpec == ProjectInit /\ [][ProjectNext]_projectVars

(***************************************************************************)
(* Properties.                                                             *)
(***************************************************************************)

Normal(f) == IF f.is = "whole" THEN Whole(Normalized(f.has)) ELSE f
Planned == {cmd.plan[i].path : i \in DOMAIN cmd.plan}

\* What an add or a remove is to make of the file p.
Target(p) ==
    LET old == IF cmd.op = "add" /\ p = FractaYAML THEN Normal(cmd.before[p]) ELSE cmd.before[p] IN
    IF p = ManifestDir THEN IF cmd.op = "add" /\ cmd.kind = "k8s" THEN Whole({}) ELSE old
    ELSE IF p \notin Planned THEN old
    ELSE IF cmd.op = "remove" /\ p \notin Updated THEN Absent
    ELSE Whole(Changed(cmd.op, cmd.id, cmd.kind, p, old.has))

\* "config mcp add" and "config mcp remove" edit several files.  A command
\* that succeeded made its whole change and no other: every
\* entry of another server, and everything the operator wrote, is as it was.
\* An add that failed, at whatever step, left every file it found as it was
\* but for the quoting of scalars (addPlan.apply and its rollback), whatever
\* an earlier command left behind when it was killed.  Not restored are
\* manifests that --force wrote over, and a file the rollback could not write.
AllOrNothing == cmd.restored =>
    /\ cmd.at = "done" /\ cmd.op # "init" => \A p \in Path : file[p] = Target(p)
    /\ cmd.at = "failed" /\ cmd.op = "add" =>
         \A p \in Path : cmd.before[p].is = "whole" =>
            \/ file[p] \in {cmd.before[p], Normal(cmd.before[p])}
            \/ cmd.force /\ p \notin Updated

\* An add or a remove that was killed, at whatever step, left
\* every file it found readable (writeYAMLNodeAtomic), as it was or with its
\* own change, or a .bak beside it that holds the content it had.
KilledKeepsContent ==
    cmd.restored /\ cmd.at = "killed" /\ cmd.op \in {"add", "remove"} =>
       \A p \in Path : cmd.before[p].is = "whole" =>
          \/ file[p] \in {cmd.before[p], Normal(cmd.before[p]), Target(p)}
          \/ bak[p] \in {cmd.before[p], Normal(cmd.before[p])}
          \/ cmd.force /\ p \notin Updated

\* The operator's files survive every command (addPlan.apply, its rollback).
ProjectSound == AllOrNothing /\ KilledKeepsContent
=============================================================================
