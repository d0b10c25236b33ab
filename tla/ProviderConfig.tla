----------------------------- MODULE ProviderConfig -----------------------------
(***************************************************************************)
(* The providers a user has configured (apps/cli project-room-source and   *)
(* the providers, models and tokens commands, packages/config,             *)
(* packages/secret-broker): a file of the user that names a credential of  *)
(* each, the project's file that names its default model, and the keys in  *)
(* the operating system's credential store.                                *)
(*                                                                         *)
(* A command reads the files, and replaces each as a whole; nothing spans  *)
(* the three stores, so a command undoes what it did when a later step     *)
(* fails, and may be killed between any two.                               *)
(***************************************************************************)
EXTENDS Naturals, FiniteSets

CONSTANTS
  Terminals,    (* Of all the user's projects: two run commands at once.   *)
  Providers,
  MaxKeys,      (* Bound on keys ever stored; a key is its number.         *)
  MaxFailures,  (* Bound on writes and deletions that fail.                *)
  MaxCrashes,   (* Bound on commands killed.                               *)
  None

(* One command at a time; the theorems take it as hypothesis.              *)
ConfigAssumption ==
  /\ \E t \in Terminals : Terminals = {t}
  /\ {MaxKeys, MaxFailures, MaxCrashes} \subseteq Nat
  /\ None \notin [key : Nat, on : BOOLEAN]

VARIABLES
  providers,    (* providers.toml: [key, on] of the configured ones; key 0 *)
                (* is an environment variable's name.                      *)
  default,      (* project.toml: the provider of the default model, "local"*)
                (* for the deterministic one.                              *)
  keys, issued, (* The credential store, and the keys used so far.         *)
  command,      (* The commands, one at a time in a terminal.              *)
  failures, crashes

vars == <<providers, default, keys, issued, command, failures, crashes>>

Idle == [at |-> "idle", op |-> None, of |-> None, key |-> None,
         providers |-> None, default |-> None, keys |-> None]

Init ==
  /\ providers = [p \in Providers |-> None] /\ default = "local"
  /\ keys = {} /\ issued = 0
  /\ command = [t \in Terminals |-> Idle]
  /\ failures = 0 /\ crashes = 0

At(t, place) == command[t].at = place
Go(t, place) == command' = [command EXCEPT ![t].at = place]
Ended == {"idle", "done", "failed"}

(* A step that may fail: it goes on to ok or to bad.                       *)
Try(t, step, ok, bad) ==
  \/ step /\ Go(t, ok) /\ UNCHANGED failures
  \/ failures < MaxFailures /\ failures' = failures + 1 /\ Go(t, bad)
     /\ UNCHANGED <<providers, default, keys, issued>>

-----------------------------------------------------------------------------
Ops == {"connect", "remove", "add", "enable", "disable", "forget", "select", "mode"}

(* What a command asks of the files it reads.                              *)
Accepted(op, p) ==
  CASE op \in {"connect", "add", "mode"} -> TRUE
    [] op \in {"remove", "enable", "disable", "forget"} -> providers[p] # None
    [] op = "select" -> providers[p] # None /\ providers[p].on

Begin(t, op, p) ==
  /\ command[t].at \in Ended
  /\ op = "connect" => issued < MaxKeys
  /\ Accepted(op, p)
  /\ command' = [command EXCEPT ![t] =
       [at |-> CASE op = "connect" -> "setKey" [] op \in {"select", "mode"} -> "saveProject"
                 [] OTHER -> "saveUser",
        op |-> op, of |-> p, key |-> None, providers |-> providers, default |-> default, keys |-> keys]]
  /\ UNCHANGED <<providers, default, keys, issued, failures, crashes>>

(* The provider file a command writes, from the one it read.               *)
NewProviders(c) ==
  [c.providers EXCEPT ![c.of] =
     CASE c.op = "connect" -> [key |-> c.key, on |-> TRUE]
       [] c.op = "add" -> [key |-> 0, on |-> TRUE]
       [] c.op \in {"remove", "forget"} -> None
       [] OTHER -> [@ EXCEPT !.on = c.op = "enable"]]

NewDefault(c) ==
  CASE c.op \in {"connect", "select"} -> c.of
    [] c.op = "remove" -> IF c.default = c.of THEN "local" ELSE c.default
    [] OTHER -> c.default

OldKey(c) == IF c.providers[c.of] = None THEN 0 ELSE c.providers[c.of].key

-----------------------------------------------------------------------------
(* broker.set, under a name of its own                                     *)
SetKey(t) ==
  /\ At(t, "setKey")
  /\ \/ /\ issued' = issued + 1
        /\ keys' = keys \cup {issued'}
        /\ command' = [command EXCEPT ![t].at = "saveUser", ![t].key = issued']
        /\ UNCHANGED failures
     \/ /\ failures < MaxFailures /\ failures' = failures + 1
        /\ Go(t, "failed") /\ UNCHANGED <<keys, issued>>
  /\ UNCHANGED <<providers, default, crashes>>

(* Mutated: the key that is replaced is deleted first. *)
SaveUserAfterDrop(t) ==
  /\ At(t, "saveUser")
  /\ LET c == command[t]
     IN Try(t, providers' = NewProviders(c) /\ keys' = keys \ {OldKey(c)} /\ UNCHANGED <<default, issued>>,
            IF c.op \in {"connect", "remove"} THEN "saveProject" ELSE "done",
            IF c.op = "connect" THEN "undoProject" ELSE "failed")
  /\ UNCHANGED crashes

SaveUser(t) ==
  /\ At(t, "saveUser")
  /\ LET c == command[t]
     IN Try(t, providers' = NewProviders(c) /\ UNCHANGED <<default, keys, issued>>,
            IF c.op \in {"connect", "remove"} THEN "saveProject" ELSE "done",
            IF c.op = "connect" THEN "undoProject" ELSE "failed")
  /\ UNCHANGED crashes

(* Written by remove only when the default was of the provider.            *)
SaveProject(t) ==
  /\ At(t, "saveProject")
  /\ LET c == command[t]
         two == c.op \in {"connect", "remove"}
     IN IF c.op = "remove" /\ c.default # c.of
        THEN Go(t, "dropOld") /\ UNCHANGED <<providers, default, keys, issued, failures>>
        ELSE Try(t, default' = NewDefault(c) /\ UNCHANGED <<providers, keys, issued>>,
                 IF two THEN "dropOld" ELSE "done", IF two THEN "undoUser" ELSE "failed")
  /\ UNCHANGED crashes

(* The rollbacks, whose own failure is passed over.                        *)
UndoUser(t) ==
  /\ At(t, "undoUser")
  /\ LET next == IF command[t].op = "connect" THEN "undoProject" ELSE "failed"
     IN Try(t, providers' = command[t].providers /\ UNCHANGED <<default, keys, issued>>, next, next)
  /\ UNCHANGED crashes

UndoProject(t) ==
  /\ At(t, "undoProject")
  /\ Try(t, default' = command[t].default /\ UNCHANGED <<providers, keys, issued>>, "dropNew", "dropNew")
  /\ UNCHANGED crashes

(* Mutated: the key stays in the credential store. *)
DropNewForgotten(t) ==
  /\ At(t, "dropNew") /\ Go(t, "failed")
  /\ UNCHANGED <<providers, default, keys, issued, failures, crashes>>

DropNew(t) ==
  /\ At(t, "dropNew")
  /\ Try(t, keys' = keys \ {command[t].key} /\ UNCHANGED <<providers, default, issued>>, "failed", "failed")
  /\ UNCHANGED crashes

(* The key that was replaced or removed.                                   *)
DropOld(t) ==
  /\ At(t, "dropOld")
  /\ Try(t, keys' = keys \ {OldKey(command[t])} /\ UNCHANGED <<providers, default, issued>>, "done", "done")
  /\ UNCHANGED crashes

Crash(t) ==
  /\ command[t].at \notin Ended
  /\ crashes < MaxCrashes /\ crashes' = crashes + 1
  /\ command' = [command EXCEPT ![t] = Idle]
  /\ UNCHANGED <<providers, default, keys, issued, failures>>

Step(t) ==
  \/ SetKey(t) \/ SaveUser(t) \/ SaveProject(t)
  \/ UndoUser(t) \/ UndoProject(t) \/ DropNew(t) \/ DropOld(t)

Next ==
  \E t \in Terminals :
    \/ \E op \in Ops, p \in Providers : Begin(t, op, p)
    \/ Step(t) \/ Crash(t)

Spec == Init /\ [][Next]_vars

-----------------------------------------------------------------------------
Entries == {None} \cup [key : 0 .. MaxKeys, on : BOOLEAN]

TypeOK ==
  /\ providers \in [Providers -> Entries]
  /\ default \in Providers \cup {"local"}
  /\ keys \subseteq 1 .. issued /\ issued \in 0 .. MaxKeys
  /\ \A t \in Terminals : command[t].op \in Ops \cup {None} /\ command[t].of \in Providers \cup {None}
  /\ failures \in 0 .. MaxFailures /\ crashes \in 0 .. MaxCrashes

(* The key that a configured provider names is in the credential store,    *)
(* between any two steps of a command: so wherever it fails or is killed.  *)
(* Not so for commands of two terminals at once, nor when an undo fails.   *)
ReferencesResolve ==
  \A p \in Providers : providers[p] # None /\ providers[p].key # 0 => providers[p].key \in keys

(* A command that reports a failure has left files and keys as they were.  *)
FailuresLeaveNothing ==
  \A t \in Terminals : At(t, "failed") =>
    /\ providers = command[t].providers /\ default = command[t].default /\ keys = command[t].keys

(* No step fails that takes back what a failed command did.                *)
UndosSucceed ==
  [][\A t \in Terminals : UndoUser(t) \/ UndoProject(t) \/ DropNew(t) => UNCHANGED failures]_vars

(* Every key that the configuration names is there, and a command that     *)
(* fails leaves nothing.                                                   *)
ConfigIsSound == TypeOK /\ ReferencesResolve /\ FailuresLeaveNothing
=============================================================================
