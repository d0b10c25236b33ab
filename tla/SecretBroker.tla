----------------------------- MODULE SecretBroker -----------------------------
(***************************************************************************)
(* Secrets by reference (packages/secret-broker/src/index.ts): the broker  *)
(* of one process resolves, sets and deletes them in its environment or in *)
(* the credential store of the platform, which is reached by a helper      *)
(* process for each request: secret-tool, security or PowerShell.          *)
(*                                                                         *)
(* Requests run at once.  A helper may not start, refuse, answer too much, *)
(* or hang; it is then sent a signal, before or after it did what it was   *)
(* asked for.  Other programs change the credential store meanwhile.       *)
(***************************************************************************)
EXTENDS Naturals

CONSTANTS
  Requests,    (* Ids of requests.                                         *)
  Names,       (* Names of variables and of entries in the store.          *)
  Values,      (* Values of secrets.                                       *)
  Unended,     (* A value without one line ending at its end.              *)
  Scrubs,      (* The values of scrubOnRead: TRUE in a worker's execution. *)
  MaxChanges,  (* Bound on changes by other programs.                      *)
  None

VARIABLES
  platform, scrub,
  environment, (* process.env, from names to values or None.               *)
  resolved,    (* #resolved: what was read from it and scrubbed.           *)
  store,       (* The credential store.                                    *)
  request,     (* The requests and their helpers.                          *)
  held,        (* History: the values an entry had since it was asked for. *)
  changes

vars == <<platform, scrub, environment, resolved, store, request, held, changes>>

Platforms == {"linux", "darwin", "win32", "other"}
Operations == {"resolve", "set", "delete"}
Empty == "empty"
Cut == "cut"  (* The beginning of an output that was too long.             *)

(* The theorems take it as hypothesis: an answer is told from a secret.    *)
SecretAssumption ==
  /\ MaxChanges \in Nat
  /\ Values \cap {None, Empty, Cut, "failed", "done", "no"} = {}
  /\ Unended \in [Values -> Values \cup {Empty}]
  /\ None \notin {Empty, Cut, "failed", "done", "no"} \cup Operations
  /\ Scrubs \subseteq BOOLEAN

Fresh == [at |-> "idle", op |-> None, scheme |-> None, name |-> None, value |-> None,
          output |-> Empty, exit |-> "signal", killed |-> "no", acted |-> FALSE, result |-> None]

Init ==
  /\ platform \in Platforms /\ scrub \in Scrubs
  /\ environment \in [Names -> Values \cup {None}]
  /\ resolved = [n \in Names |-> None]
  /\ store \in [Names -> Values \cup {None}]
  /\ request = [r \in Requests |-> Fresh]
  /\ held = [r \in Requests |-> {}]
  /\ changes = 0

(* createPlatformCredentialBackend: the scheme of the platform's backend,  *)
(* and what it can do.                                                     *)
StoreScheme == IF platform = "win32" THEN "manager" ELSE "keychain"
Supports(op) ==
  CASE platform \in {"linux", "win32"} -> TRUE
    [] platform = "darwin" -> op # "set"
    [] OTHER -> FALSE

(* A settled request is told apart by what it was, what its helper did and *)
(* its answer; a refused one was nothing.                                  *)
Settle(r, answer) ==
  [request EXCEPT ![r] = [Fresh EXCEPT
    !.at = "settled", !.result = answer,
    !.op = request[r].op, !.scheme = request[r].scheme, !.name = request[r].name,
    !.acted = request[r].acted]]

(* The environment's own value, once or until it is scrubbed.              *)
InEnvironment(n) == IF resolved[n] # None THEN resolved[n] ELSE environment[n]

-----------------------------------------------------------------------------
(* What the environment answers for a variable, at once.                   *)
ResolveVariable(r, n) ==
  /\ request[r].at = "idle"
  /\ request' = [request EXCEPT ![r] = [Fresh EXCEPT
       !.at = "settled", !.op = "resolve", !.scheme = "env", !.name = n,
       !.result = IF InEnvironment(n) = None THEN "failed" ELSE InEnvironment(n)]]
  /\ IF scrub /\ InEnvironment(n) # None
     THEN /\ resolved' = [resolved EXCEPT ![n] = InEnvironment(n)]
          /\ environment' = [environment EXCEPT ![n] = None]
     ELSE UNCHANGED <<resolved, environment>>
  /\ held' = [held EXCEPT ![r] = {InEnvironment(n)}]
  /\ UNCHANGED <<platform, scrub, store, changes>>

(* resolve, set and delete of the broker, up to the helper: what has no    *)
(* backend, or none that can, is refused.                                  *)
Begin(r, op, scheme, n, value) ==
  /\ request[r].at = "idle"
  /\ scheme = "env" => op # "resolve"
  /\ LET accepted == scheme = StoreScheme /\ Supports(op) /\ (op = "set" => value # Empty)
     IN IF accepted
        THEN /\ request' = [request EXCEPT ![r] = [Fresh EXCEPT
                  !.at = "spawning", !.op = op, !.scheme = scheme, !.name = n, !.value = value]]
             /\ held' = [held EXCEPT ![r] = IF op = "resolve" THEN {store[n]} ELSE {}]
        ELSE request' = Settle(r, "failed") /\ UNCHANGED held
  /\ UNCHANGED <<platform, scrub, environment, resolved, store, changes>>

Spawn(r) ==
  /\ request[r].at = "spawning"
  /\ \/ request' = [request EXCEPT ![r].at = "running"]
     \/ request' = Settle(r, "failed")
  /\ UNCHANGED <<platform, scrub, environment, resolved, store, held, changes>>

(* The store and everyone who waits for it see a change.                   *)
StoreBecomes(n, value) ==
  /\ store' = [store EXCEPT ![n] = value]
  /\ held' = [r \in Requests |->
       IF request[r].op = "resolve" /\ request[r].at # "settled" /\ request[r].name = n
       THEN held[r] \cup {value} ELSE held[r]]

(* The helper ends, once it did what it was asked for or did nothing; it   *)
(* may fail after it did.                                                  *)
Ends(r, output, codes, acted) ==
  \E code \in codes :
    request' = [request EXCEPT ![r] =
      [@ EXCEPT !.at = "exiting", !.output = output, !.exit = code, !.acted = acted]]

Lookup(r) ==
  LET found == store[request[r].name]
  IN /\ request[r].op = "resolve" /\ found # None
     /\ Ends(r, found, {"zero", "other"}, TRUE)
     /\ UNCHANGED <<store, held>>

Write(r) ==
  /\ request[r].op = "set"
  /\ StoreBecomes(request[r].name, request[r].value)
  /\ Ends(r, Empty, {"zero", "other"}, TRUE)

Clear(r) ==
  /\ request[r].op = "delete" /\ store[request[r].name] # None
  /\ StoreBecomes(request[r].name, None)
  /\ Ends(r, Empty, {"zero", "other"}, TRUE)

Act(r) ==
  /\ request[r].at = "running"
  /\ \/ Ends(r, Empty, {"other"}, FALSE) /\ UNCHANGED <<store, held>>
     \/ Lookup(r) \/ Write(r) \/ Clear(r)
  /\ UNCHANGED <<platform, scrub, environment, resolved, changes>>

Alive(r) == request[r].at \in {"running", "exiting"}

(* More than 64 KiB come, and the rest is dropped; or the time is over.    *)
(* The helper is sent a signal.                                            *)
Flood(r) ==
  /\ Alive(r) /\ request[r].killed = "no"
  /\ request' = [request EXCEPT ![r] = [@ EXCEPT !.killed = "flooded", !.output = Cut]]
  /\ UNCHANGED <<platform, scrub, environment, resolved, store, held, changes>>

Timeout(r) ==
  /\ Alive(r) /\ request[r].killed = "no"
  /\ request' = [request EXCEPT ![r].killed = "timedOut"]
  /\ UNCHANGED <<platform, scrub, environment, resolved, store, held, changes>>

Succeeded(q) == q.exit = "zero"

(* stripOneLineEnding takes from an output what the helper of darwin puts  *)
(* after the value; that of linux puts nothing there, so it is the value's *)
(* own, if it has one.  What win32 prints is left as it is.                *)
Stripped(output) ==
  IF platform = "linux" /\ output \in Values THEN Unended[output] ELSE output

(* What a closed helper has answered; null counts as a failure.  That an   *)
(* entry could not be deleted is an answer, not an error.                  *)
Answer(q) ==
  IF q.killed \in {"timedOut", "flooded"} THEN "failed"
  ELSE IF ~Succeeded(q) THEN IF q.op = "delete" THEN "no" ELSE "failed"
  ELSE IF q.op = "resolve"
       THEN IF Stripped(q.output) = Empty THEN "failed" ELSE Stripped(q.output)
  ELSE "done"

(* The helper is gone: it ended, or a signal ended it.                     *)
Close(r) ==
  /\ Alive(r)
  /\ request[r].at = "exiting" \/ request[r].killed # "no"
  /\ request' = Settle(r, Answer(request[r]))
  /\ UNCHANGED <<platform, scrub, environment, resolved, store, held, changes>>

(* Another program writes or removes an entry.                             *)
Other(n) ==
  /\ changes < MaxChanges /\ changes' = changes + 1
  /\ \E value \in (Values \cup {None}) \ {store[n]} : StoreBecomes(n, value)
  /\ UNCHANGED <<platform, scrub, environment, resolved, request>>

Schemes == {"env", "keychain", "manager"}

Next ==
  \/ \E r \in Requests, n \in Names :
       \/ ResolveVariable(r, n)
       \/ \E op \in {"resolve", "delete"}, scheme \in Schemes : Begin(r, op, scheme, n, None)
       \/ \E scheme \in Schemes, value \in Values \cup {Empty} : Begin(r, "set", scheme, n, value)
  \/ \E r \in Requests : Spawn(r) \/ Act(r) \/ Flood(r) \/ Timeout(r) \/ Close(r)
  \/ \E n \in Names : Other(n)

(* Timers expire, and a helper that was sent a signal goes.                *)
Fairness ==
  \A r \in Requests : WF_vars(Spawn(r)) /\ WF_vars(Timeout(r)) /\ WF_vars(Close(r))

Spec == Init /\ [][Next]_vars /\ Fairness

-----------------------------------------------------------------------------
(* Properties. *)

Results == Values \cup {None, "failed", "done", "no"}

TypeOK ==
  /\ platform \in Platforms /\ scrub \in BOOLEAN
  /\ environment \in [Names -> Values \cup {None}]
  /\ resolved \in [Names -> Values \cup {None}]
  /\ store \in [Names -> Values \cup {None}]
  /\ \A r \in Requests :
       /\ request[r].at \in {"idle", "spawning", "running", "exiting", "settled"}
       /\ request[r].op \in Operations \cup {None}
       /\ request[r].result \in Results
       /\ request[r].at = "settled" <=> request[r].result # None
  /\ changes \in 0 .. MaxChanges

(* What a store that has a value may answer: the value, or the value       *)
(* without one line ending.                                                *)
UpToLineEnd(seen) == seen \cup {Unended[value] : value \in seen \cap Values}

(* A secret that was resolved is whole, up to a line ending if a helper    *)
(* brought it, and was there while it was asked for; what was set or       *)
(* deleted with success was, by this request.                              *)
SecretsAreTrue ==
  \A r \in Requests :
    LET q == request[r]
    IN /\ q.result \in Values =>
            /\ q.op = "resolve"
            /\ q.result \in IF q.scheme = "env" THEN held[r] ELSE UpToLineEnd(held[r])
       /\ q.result = "done" => q.acted /\ q.op \in {"set", "delete"}

(* With scrubOnRead, a variable that was resolved is no longer in the      *)
(* environment that child processes inherit, and can be resolved as before.*)
ScrubbedIsKept ==
  scrub => \A r \in Requests :
    request[r].scheme = "env" /\ request[r].result \in Values =>
      /\ environment[request[r].name] = None
      /\ InEnvironment(request[r].name) = request[r].result

(* No request waits forever, whatever its helper does.                     *)
RequestsEnd == \A r \in Requests : request[r].at # "idle" ~> request[r].at = "settled"
=============================================================================
