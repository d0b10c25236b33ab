------------------------------ MODULE IpcSession ------------------------------
(***************************************************************************)
(* Sessions between clients and the controller over the local socket       *)
(* (packages/ipc): the handshake, requests and their answers, timeouts,    *)
(* the limit of request ids per connection, and the ways in which a        *)
(* connection ends: either side closes, the server stops, the process      *)
(* dies.                                                                   *)
(*                                                                         *)
(* A connection is two queues of frames.  Ending the writing side puts a   *)
(* "fin" at the end of its queue; a destroyed socket drops its own queue   *)
(* and ends the other.  Each socket handler is one step of its process.    *)
(***************************************************************************)
EXTENDS Naturals, Sequences, FiniteSets, SequencesExt

CONSTANTS
  Clients,      (* Each connects once.                                     *)
  MaxCalls,     (* Bound on the requests of a client.                      *)
  Polls,        (* The requests that the controller answers later.         *)
  IdLimit,      (* Request ids that a connection accepts: 4096.            *)
  MaxInstances  (* Bound on the starts of the server.                      *)

Calls == 1 .. MaxCalls

(* The theorems take it as hypothesis. *)
SessionAssumption == {MaxCalls, IdLimit} \subseteq Nat /\ MaxInstances \in Nat \ {0}

VARIABLES
  server,    (* "down", "up" or "stopping".                                *)
  instance,  (* The running or latest instance.                            *)
  client,    (* idle, found, hello, open, leaving, closed.                 *)
  knows,     (* The instance in the descriptor that the client read.       *)
  peer,      (* The server's side: none, waiting, ready, refused, gone.    *)
  ended,     (* Whether the server has ended its writing side.             *)
  toServer, toClient,
  call,      (* The client's requests.                                     *)
  used,      (* The request ids that the connection has accepted.          *)
  working,   (* The requests that wait in the controller.                  *)
  executed   (* History: the requests handed to the controller, in order.  *)

vars == <<server, instance, client, knows, peer, ended, toServer, toClient,
          call, used, working, executed>>

Hello(i) == [type |-> "hello", instance |-> i]
Call(k) == [type |-> "call", id |-> k]
Welcome == [type |-> "welcome"]
Refused == [type |-> "refused"]
Answer(k, ok) == [type |-> "answer", id |-> k, ok |-> ok]
Fin == [type |-> "fin"]

Init ==
  /\ server = "up" /\ instance = 1
  /\ client = [c \in Clients |-> "idle"]
  /\ knows = [c \in Clients |-> 0]
  /\ peer = [c \in Clients |-> "none"]
  /\ ended = [c \in Clients |-> FALSE]
  /\ toServer = [c \in Clients |-> <<>>]
  /\ toClient = [c \in Clients |-> <<>>]
  /\ call = [c \in Clients |-> [k \in Calls |-> "new"]]
  /\ used = [c \in Clients |-> {}]
  /\ working = [c \in Clients |-> {}]
  /\ executed = [c \in Clients |-> <<>>]

Put(f, c, v) == [f EXCEPT ![c] = v]
Send(queue, c, m) == [queue EXCEPT ![c] = Append(@, m)]
Receives(queue, c, type) == queue[c] # <<>> /\ Head(queue[c]).type = type
Rest(queue, c) == [queue EXCEPT ![c] = Tail(@)]

(* The socket of a connection is usable by the server's process.           *)
Attached(c) == peer[c] \in {"waiting", "ready", "refused"}
Pending(c) == {k \in Calls : call[c][k] = "pending"}
(* A request is settled once: a settled one is no longer pending.          *)
Settled(c, ks, outcome) ==
  [call EXCEPT ![c] = [k \in Calls |-> IF k \in ks /\ @[k] = "pending" THEN outcome ELSE @[k]]]

-----------------------------------------------------------------------------
(* The client.                                                             *)

ReadDescriptor(c) ==
  /\ client[c] = "idle" /\ server = "up"
  /\ client' = Put(client, c, "found")
  /\ knows' = Put(knows, c, instance)
  /\ UNCHANGED <<server, instance, peer, ended, toServer, toClient, call, used, working, executed>>

(* All instances share the socket's path, so this may be a later one.      *)
Connect(c) ==
  /\ client[c] = "found"
  /\ IF server = "up"
     THEN /\ client' = Put(client, c, "hello")
          /\ peer' = Put(peer, c, "waiting")
          /\ toServer' = Send(toServer, c, Hello(knows[c]))
     ELSE client' = Put(client, c, "closed") /\ UNCHANGED <<peer, toServer>>
  /\ UNCHANGED <<server, instance, knows, ended, toClient, call, used, working, executed>>

(* What the client's socket leaves behind when it is destroyed: an end     *)
(* after what was sent.                                                    *)
HangUp(c) == IF client[c] = "leaving" THEN toServer ELSE Send(toServer, c, Fin)

(* Mutated: the close event fails nothing. *)
DropQuietly(c) ==
  /\ client' = Put(client, c, "closed")
  /\ toServer' = HangUp(c)
  /\ toClient' = Put(toClient, c, <<>>)
  /\ UNCHANGED call

(* The close event: every pending request fails.                           *)
Drop(c) ==
  /\ client' = Put(client, c, "closed")
  /\ toServer' = HangUp(c)
  /\ toClient' = Put(toClient, c, <<>>)
  /\ call' = Settled(c, Pending(c), "failed")

ClientWelcomed(c) ==
  /\ client[c] = "hello" /\ Receives(toClient, c, "welcome")
  /\ client' = Put(client, c, "open")
  /\ toClient' = Rest(toClient, c)
  /\ UNCHANGED <<server, instance, knows, peer, ended, toServer, call, used, working, executed>>

(* A refusal, or the handshake's timeout.                                  *)
ClientRefused(c) ==
  /\ client[c] = "hello"
  /\ Drop(c)
  /\ UNCHANGED <<server, instance, knows, peer, ended, used, working, executed>>

(* Requests have fresh ids; the next is the least unused.                  *)
Request(c, k) ==
  /\ client[c] = "open"
  /\ call[c][k] = "new" /\ \A j \in 1 .. k - 1 : call[c][j] # "new"
  /\ call' = [call EXCEPT ![c][k] = "pending"]
  /\ toServer' = Send(toServer, c, Call(k))
  /\ UNCHANGED <<server, instance, client, knows, peer, ended, toClient, used, working, executed>>

(* The request's timer or its caller's signal.  The server is not told.    *)
GiveUp(c, k) ==
  /\ call[c][k] = "pending"
  /\ call' = Settled(c, {k}, "abandoned")
  /\ UNCHANGED <<server, instance, client, knows, peer, ended, toServer, toClient,
                 used, working, executed>>

(* Mutated: the answer goes to the oldest request. *)
AnsweredOldest(c) ==
  /\ client[c] \in {"open", "leaving"} /\ Receives(toClient, c, "answer")
  /\ LET oldest == {k \in Pending(c) : \A j \in Pending(c) : k <= j}
     IN  call' = Settled(c, oldest, IF Head(toClient[c]).ok THEN "ok" ELSE "error")
  /\ toClient' = Rest(toClient, c)
  /\ UNCHANGED <<server, instance, client, knows, peer, ended, toServer, used, working, executed>>

(* An answer to a request that was given up is ignored.                    *)
Answered(c) ==
  /\ client[c] \in {"open", "leaving"} /\ Receives(toClient, c, "answer")
  /\ LET m == Head(toClient[c])
     IN  call' = Settled(c, {m.id}, IF m.ok THEN "ok" ELSE "error")
  /\ toClient' = Rest(toClient, c)
  /\ UNCHANGED <<server, instance, client, knows, peer, ended, toServer, used, working, executed>>

Leave(c) ==
  /\ client[c] = "open"
  /\ client' = Put(client, c, "leaving")
  /\ toServer' = Send(toServer, c, Fin)
  /\ UNCHANGED <<server, instance, knows, peer, ended, toClient, call, used, working, executed>>

(* The server's end, or a second after the client's own.                   *)
ClientCloses(c) ==
  /\ \/ client[c] \in {"open", "leaving", "hello"} /\ Receives(toClient, c, "fin")
     \/ client[c] = "leaving"
  /\ Drop(c)
  /\ UNCHANGED <<server, instance, knows, peer, ended, used, working, executed>>

-----------------------------------------------------------------------------
(* The server.                                                             *)

Tell(c, m) == IF client[c] = "closed" THEN toClient ELSE Send(toClient, c, m)

(* The socket's close event, here and when it is destroyed, aborts what    *)
(* waits for the connection.                                               *)
CloseAll(cs) ==
  /\ peer' = [c \in Clients |-> IF c \in cs THEN "gone" ELSE peer[c]]
  /\ ended' = [c \in Clients |-> ended[c] \/ c \in cs]
  /\ toServer' = [c \in Clients |-> IF c \in cs THEN <<>> ELSE toServer[c]]
  /\ toClient' = [c \in Clients |-> IF c \in cs /\ ~ended[c] /\ client[c] # "closed"
                                    THEN Append(toClient[c], Fin) ELSE toClient[c]]

(* Mutated: polls are left to end by themselves. *)
CloseOnly(cs) ==
  /\ CloseAll(cs)
  /\ UNCHANGED working

Close(cs) ==
  /\ CloseAll(cs)
  /\ working' = [c \in Clients |-> IF c \in cs THEN {} ELSE working[c]]

(* Mutated: any hello of the local user is good. *)
HelloAnyInstance(c) ==
  /\ peer[c] = "waiting" /\ Receives(toServer, c, "hello")
  /\ peer' = Put(peer, c, "ready")
  /\ toClient' = Tell(c, Welcome)
  /\ toServer' = Rest(toServer, c)
  /\ UNCHANGED <<server, instance, client, knows, ended, call, used, working, executed>>

(* The proof is made with the nonce of the instance that the client read.  *)
(* A socket that cannot be written to is destroyed.                        *)
ServerHello(c) ==
  /\ peer[c] = "waiting" /\ Receives(toServer, c, "hello")
  /\ IF ended[c] THEN Close({c})
     ELSE /\ toServer' = Rest(toServer, c)
          /\ UNCHANGED working
          /\ IF Head(toServer[c]).instance = instance
             THEN /\ peer' = Put(peer, c, "ready")
                  /\ toClient' = Tell(c, Welcome)
                  /\ UNCHANGED ended
             ELSE /\ peer' = Put(peer, c, "refused")
                  /\ ended' = Put(ended, c, TRUE)
                  /\ toClient' = IF client[c] = "closed" THEN toClient
                                 ELSE [toClient EXCEPT ![c] = @ \o <<Refused, Fin>>]
  /\ UNCHANGED <<server, instance, client, knows, call, used, executed>>

HandshakeTimeout(c) ==
  /\ peer[c] = "waiting"
  /\ Close({c})
  /\ UNCHANGED <<server, instance, client, knows, call, used, executed>>

ServerFin(c) ==
  /\ Attached(c) /\ Receives(toServer, c, "fin")
  /\ Close({c})
  /\ UNCHANGED <<server, instance, client, knows, call, used, executed>>

(* A frame after a refusal is dropped.                                     *)
Ignore(c) ==
  /\ peer[c] = "refused" /\ Receives(toServer, c, "call")
  /\ toServer' = Rest(toServer, c)
  /\ UNCHANGED <<server, instance, client, knows, peer, ended, toClient, call, used,
                 working, executed>>

(* The answer to k.  A socket that cannot be written to is destroyed,      *)
(* although the request has had its effect.                                *)
Respond(c, k, ok, left) ==
  IF ended[c]
  THEN /\ peer' = Put(peer, c, "gone")
       /\ working' = Put(working, c, {})
       /\ toServer' = Put(toServer, c, <<>>)
       /\ UNCHANGED toClient
  ELSE /\ toClient' = Tell(c, Answer(k, ok))
       /\ toServer' = left
       /\ UNCHANGED <<peer, working>>

(* Mutated: an id that was not accepted is executed all the same. *)
HandleBeyondLimit(c) ==
  /\ peer[c] = "ready" /\ Receives(toServer, c, "call")
  /\ LET k == Head(toServer[c]).id
     IN  /\ executed' = Send(executed, c, k)
         /\ used' = IF Cardinality(used[c]) >= IdLimit THEN used ELSE [used EXCEPT ![c] = @ \cup {k}]
         /\ Respond(c, k, Cardinality(used[c]) < IdLimit, Rest(toServer, c))
  /\ UNCHANGED <<server, instance, client, knows, ended, call>>

(* A request: refused when the connection has used its ids; a poll waits;  *)
(* all others are executed at once.  An answer that is too large for a     *)
(* frame is an error, after the request was executed.                      *)
Handle(c) ==
  /\ peer[c] = "ready" /\ Receives(toServer, c, "call")
  /\ LET k == Head(toServer[c]).id
     IN  IF Cardinality(used[c]) >= IdLimit
         THEN Respond(c, k, FALSE, Rest(toServer, c)) /\ UNCHANGED <<used, executed>>
         ELSE /\ used' = [used EXCEPT ![c] = @ \cup {k}]
              /\ executed' = Send(executed, c, k)
              /\ IF k \in Polls
                 THEN /\ working' = [working EXCEPT ![c] = @ \cup {k}]
                      /\ toServer' = Rest(toServer, c)
                      /\ UNCHANGED <<peer, toClient>>
                 ELSE \E fits \in BOOLEAN : Respond(c, k, fits, Rest(toServer, c))
  /\ UNCHANGED <<server, instance, client, knows, ended, call>>

PollAnswered(c, k) ==
  /\ k \in working[c]
  /\ IF ended[c]
     THEN Close({c})
     ELSE /\ working' = [working EXCEPT ![c] = @ \ {k}]
          /\ toClient' = Tell(c, Answer(k, TRUE))
          /\ UNCHANGED <<peer, ended, toServer>>
  /\ UNCHANGED <<server, instance, client, knows, call, used, executed>>

(* stop: no more connections are accepted and every socket is ended; what  *)
(* a client has sent is still handled.                                     *)
Stop ==
  /\ server = "up" /\ server' = "stopping"
  /\ ended' = [c \in Clients |-> ended[c] \/ Attached(c)]
  /\ toClient' = [c \in Clients |-> IF Attached(c) /\ ~ended[c] /\ client[c] # "closed"
                                    THEN Append(toClient[c], Fin) ELSE toClient[c]]
  /\ UNCHANGED <<instance, client, knows, peer, toServer, call, used, working, executed>>

(* All sockets are closed, or the grace has passed; or the process dies.   *)
Down ==
  /\ server \in {"up", "stopping"} /\ server' = "down"
  /\ Close({c \in Clients : Attached(c)})
  /\ UNCHANGED <<instance, client, knows, call, used, executed>>

Start ==
  /\ server = "down" /\ instance < MaxInstances
  /\ server' = "up" /\ instance' = instance + 1
  /\ UNCHANGED <<client, knows, peer, ended, toServer, toClient, call, used, working, executed>>

-----------------------------------------------------------------------------
ClientMoves(c) == ClientWelcomed(c) \/ ClientRefused(c) \/ Answered(c) \/ ClientCloses(c)
ServerMoves(c) == ServerHello(c) \/ ServerFin(c) \/ Ignore(c) \/ Handle(c)

Next ==
  \/ \E c \in Clients :
       \/ ReadDescriptor(c) \/ Connect(c) \/ Leave(c) \/ ClientMoves(c)
       \/ ServerMoves(c) \/ HandshakeTimeout(c)
       \/ \E k \in Calls : Request(c, k) \/ GiveUp(c, k) \/ PollAnswered(c, k)
  \/ Stop \/ Down \/ Start

(* What arrives is handled.  The timers of requests and polls are not      *)
(* relied upon.                                                            *)
Fairness == \A c \in Clients : WF_vars(ClientMoves(c)) /\ WF_vars(ServerMoves(c))

Spec == Init /\ [][Next]_vars /\ Fairness

-----------------------------------------------------------------------------
TypeOK ==
  /\ server \in {"down", "up", "stopping"} /\ instance \in 1 .. MaxInstances
  /\ client \in [Clients -> {"idle", "found", "hello", "open", "leaving", "closed"}]
  /\ peer \in [Clients -> {"none", "waiting", "ready", "refused", "gone"}]
  /\ call \in [Clients -> [Calls -> {"new", "pending", "ok", "error", "abandoned", "failed"}]]
  /\ \A c \in Clients : used[c] \cup working[c] \subseteq Calls

(* A request is executed at most once and in the order of sending, only if *)
(* its id was accepted and for a client of this very instance; what is     *)
(* answered with a result was executed.                                    *)
AnswersAreTrue ==
  \A c \in Clients :
    /\ \A i, j \in DOMAIN executed[c] : i < j => executed[c][i] < executed[c][j]
    /\ Range(executed[c]) = used[c] /\ Cardinality(used[c]) <= IdLimit
    /\ \A k \in Calls : call[c][k] = "ok" => k \in used[c]
    /\ peer[c] = "ready" => knows[c] = instance

(* A connection that one side has closed is closed by the other, and       *)
(* leaves neither a request that waits for an answer nor a poll that waits *)
(* for events.                                                             *)
ClosedLeavesNothing ==
  \A c \in Clients :
    []<>(client[c] = "closed" \/ peer[c] = "gone"
           => client[c] = "closed" /\ ~Attached(c) /\ Pending(c) = {} /\ working[c] = {})
=============================================================================
