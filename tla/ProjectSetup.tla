------------------------------ MODULE ProjectSetup ------------------------------
(***************************************************************************)
(* The configuration files of a project (packages/config): commands create *)
(* the ones that are missing, migrate those of the program's old name, and *)
(* replace project.toml when a setting changes.  Each file is created or   *)
(* replaced as a whole; commands of several terminals do so at once, and   *)
(* may be killed between any two files.                                    *)
(*                                                                         *)
(* A file is where its contents come from, the defaults or the old         *)
(* project, and for project.toml whether a setting was changed since.      *)
(***************************************************************************)
EXTENDS Naturals, FiniteSets

CONSTANTS
  Commands,
  MaxChanges,  (* Bound on settings changed.                               *)
  MaxCrashes,
  None

(* The theorems take it as hypothesis. *)
SetupAssumption ==
  /\ {MaxChanges, MaxCrashes} \subseteq Nat
  /\ None \notin [from : {"default", "old"}, changed : BOOLEAN]

Names == {"project", "policy", "gitignore"}

VARIABLES
  legacy,   (* The old files that exist; they are only read.               *)
  files,    (* The new files: their contents, None if missing.             *)
  backup,   (* The copies of old files.                                    *)
  command,  (* The commands: what they do, the files they have still to do *)
            (* it for, and what they read of project.toml.                 *)
  changes, crashes

vars == <<legacy, files, backup, command, changes, crashes>>

Idle == [at |-> "idle", op |-> None, read |-> None]

Init ==
  /\ legacy \in {{}} \cup {l \in SUBSET Names : "project" \in l}
  /\ files = [n \in Names |-> None] /\ backup = {}
  /\ command = [c \in Commands |-> Idle]
  /\ changes = 0 /\ crashes = 0

At(c, place) == command[c].at = place
Go(c, place) == command' = [command EXCEPT ![c].at = place]

-----------------------------------------------------------------------------
(* initializeProject, and the two settings, which load project.toml first. *)
Begin(c, op) ==
  /\ At(c, "idle")
  /\ op = "change" => changes < MaxChanges
  /\ command' = [command EXCEPT ![c].at = "look", ![c].op = op]
  /\ changes' = IF op = "change" THEN changes + 1 ELSE changes
  /\ UNCHANGED <<legacy, files, backup, crashes>>

(* A project file or the lack of an old one ends the migration.            *)
Look(c) ==
  /\ At(c, "look")
  /\ Go(c, IF files["project"] = None /\ legacy # {} THEN "backup"
            ELSE IF command[c].op = "init" THEN "project" ELSE "read")
  /\ UNCHANGED <<legacy, files, backup, changes, crashes>>

Backup(c) ==
  /\ At(c, "backup")
  /\ IF legacy \subseteq backup THEN Go(c, "migrateProject") /\ UNCHANGED backup
     ELSE /\ backup' = backup \cup {CHOOSE n \in legacy \ backup : TRUE}
          /\ UNCHANGED command
  /\ UNCHANGED <<legacy, files, changes, crashes>>

Default == [from |-> "default", changed |-> FALSE]
Old == [from |-> "old", changed |-> FALSE]
Migrated(name) == IF name \in legacy THEN Old ELSE Default
Write(name, content) == files' = [files EXCEPT ![name] = content]
After(c) == IF command[c].op = "init" THEN "done" ELSE "read"

MigrateProject(c) ==
  /\ At(c, "migrateProject") /\ Go(c, "migratePolicy")
  /\ Write("project", Old)
  /\ UNCHANGED <<legacy, backup, changes, crashes>>

MigratePolicy(c) ==
  /\ At(c, "migratePolicy") /\ Go(c, "migrateGitignore")
  /\ Write("policy", Migrated("policy"))
  /\ UNCHANGED <<legacy, backup, changes, crashes>>

MigrateGitignore(c) ==
  /\ At(c, "migrateGitignore") /\ Go(c, After(c))
  /\ Write("gitignore", Migrated("gitignore"))
  /\ UNCHANGED <<legacy, backup, changes, crashes>>

(* atomicCreate links a file in place if there is none.                    *)
Create(c, name, next) ==
  /\ At(c, name) /\ Go(c, next)
  /\ IF files[name] = None THEN Write(name, Default) ELSE UNCHANGED files
  /\ UNCHANGED <<legacy, backup, changes, crashes>>

CreateFiles(c) ==
  \/ Create(c, "project", "policy")
  \/ Create(c, "policy", "gitignore")
  \/ Create(c, "gitignore", "done")

(* setProjectTokenMode, setProjectModel: no project, no change.            *)
Read(c) ==
  /\ At(c, "read")
  /\ command' = [command EXCEPT ![c].at = IF files["project"] = None THEN "failed" ELSE "save",
                                ![c].read = files["project"]]
  /\ UNCHANGED <<legacy, files, backup, changes, crashes>>

Save(c) ==
  /\ At(c, "save") /\ Go(c, "done")
  /\ Write("project", [command[c].read EXCEPT !.changed = TRUE])
  /\ UNCHANGED <<legacy, backup, changes, crashes>>

Crash(c) ==
  /\ command[c].at \notin {"idle", "done", "failed", "dead"}
  /\ crashes < MaxCrashes /\ crashes' = crashes + 1
  /\ Go(c, "dead")
  /\ UNCHANGED <<legacy, files, backup, changes>>

Migrate(c) == Look(c) \/ Backup(c) \/ MigrateProject(c) \/ MigratePolicy(c) \/ MigrateGitignore(c)

Next ==
  \E c \in Commands :
    \/ \E op \in {"init", "change"} : Begin(c, op)
    \/ Migrate(c) \/ CreateFiles(c) \/ Read(c) \/ Save(c) \/ Crash(c)

Spec == Init /\ [][Next]_vars

-----------------------------------------------------------------------------
TypeOK ==
  /\ "project" \in legacy \/ legacy = {}
  /\ files \in [Names -> {None} \cup [from : {"default", "old"}, changed : BOOLEAN]]
  /\ backup \subseteq legacy
  /\ changes \in 0 .. MaxChanges /\ crashes \in 0 .. MaxCrashes

(* An old project's files are copied before any new one takes their place, *)
(* and it is its settings that the new project starts from: never the      *)
(* defaults, although commands create and migrate at the same time.        *)
OldSettingsAreKept ==
  legacy # {} /\ files["project"] # None =>
    legacy \subseteq backup /\ files["project"].from = "old"

(* An old project's settings survive their migration.                      *)
SettingsAreKept == TypeOK /\ OldSettingsAreKept

(* The old policy too: not so when a command is killed between the project *)
(* and the policy, after which the next one creates the default policy.    *)
OldPolicyIsKept ==
  "policy" \in legacy /\ (\A c \in Commands : command[c].at \in {"idle", "done", "failed", "dead"})
    => files["policy"] # Default
=============================================================================
