------------------------------ MODULE RoomView ------------------------------
(***************************************************************************)
(* What a project room shows of the controller's events, and how it keeps  *)
(* up with them.                                                           *)
(*                                                                         *)
(* The controller commits events under consecutive sequence numbers and    *)
(* answers three reads: a snapshot with the most recent events, a long     *)
(* poll for the events after a cursor, and a page of history.  The room    *)
(* has two concurrent readers of them, and both write the view:            *)
(*                                                                         *)
(*   - the pump loads a snapshot, then asks again and again for the next   *)
(*     committed update, which it builds from one poll, a fresh snapshot   *)
(*     and as many pages of history as the snapshot is ahead; it starts    *)
(*     over with a snapshot after an error or an update with a gap;        *)
(*   - a user command is checked against the cursor the user saw, is       *)
(*     carried out, and then loads a snapshot of its own.                  *)
(*                                                                         *)
(* A snapshot is read when the controller answers and shown when the       *)
(* room's other reads (approvals, project and provider configuration) are  *)
(* in too, so each is a step of its own.                                   *)
(***************************************************************************)
EXTENDS Integers, Sequences, FiniteSets, Functions

CONSTANTS
  RecentLimit,  (* Events of a snapshot (250).                             *)
  PageLimit,    (* Events of a page of poll or history (250).              *)
  MaxBacklog,   (* A poll with more to deliver asks for a resync (512).    *)
  CatchUps,     (* Pages of history read for one update (8).               *)
  EventLimit,   (* PROJECT_ROOM_EVENT_LIMIT: length of the timeline (500). *)
  MaxEvents,    (* Bound: events ever committed.                           *)
  MaxCommands,  (* Bound: commands the user queues.                        *)
  MaxFailures,  (* Bound: requests that fail.                              *)
  MaxClears     (* Bound: how often the user clears the timeline.          *)

ASSUME LimitAssumption ==
  /\ {RecentLimit, PageLimit, MaxBacklog, EventLimit} \subseteq Nat \ {0}
  /\ RecentLimit <= EventLimit
  /\ {CatchUps, MaxEvents, MaxCommands, MaxFailures, MaxClears} \subseteq Nat
  /\ MaxCommands <= MaxEvents

VARIABLES
  log,      (* The controller's events: which of them belong in the room.  *)
  view,     (* The reducer's state.                                        *)
  pump,     (* pumpProjectRoom and the nextCommitted call it waits for.    *)
  command,  (* The pending command and its refresh.                        *)
  spent     (* What is used up of the bounds.                              *)

vars == <<log, view, pump, command, spent>>

Cursors == 0 .. MaxEvents

(* A snapshot lists the events of the room's run, without lease renewals    *)
(* and heartbeats; an update has all events, of whatever run.  The run that *)
(* a room shows stays the same here.                                        *)
EventKinds == {"room", "other"}

(* session.leave, a mutation checked against the cursor, a chat message,    *)
(* and a setting of the project, which commits no event.                    *)
CommandKinds == {"leave", "mutation", "instruction", "setting"}

(* since is history: the user cleared, or a snapshot dropped, what is at or *)
(* before it.  The three ways of being unconnected are one, "waiting".      *)
View == [cursor : Cursors, events : Seq(1 .. MaxEvents), since : Cursors,
         connection : {"waiting", "connected", "resyncing"}, loaded : BOOLEAN]

(* snapshot, the controller's cursor at the read, stands for the snapshot:  *)
(* the log only grows, so everything in it follows from its cursor.         *)
Pump == [pc : {"load", "show", "poll", "reload", "history", "update", "delay",
               "stopped"},
         cursor : Cursors, snapshot : Cursors, events : Seq(1 .. MaxEvents),
         committed : Cursors, resync : BOOLEAN, pages : 0 .. CatchUps]

Command == [pc : {"idle", "check", "send", "refresh", "show"},
            kind : CommandKinds, expected : Cursors, snapshot : Cursors]

(* The pump outside nextCommitted, whose locals are gone.                   *)
Between(pc, cursor) ==
  [pc |-> pc, cursor |-> cursor, snapshot |-> 0, events |-> <<>>,
   committed |-> 0, resync |-> FALSE, pages |-> 0]

NoCommand == [pc |-> "idle", kind |-> "setting", expected |-> 0, snapshot |-> 0]

Init ==
  /\ log = <<>>
  /\ view = [cursor |-> 0, events |-> <<>>, since |-> 0,
             connection |-> "waiting", loaded |-> FALSE]
  /\ pump = Between("load", 0)
  /\ command = NoCommand
  /\ spent = [commands |-> 0, failures |-> 0, clears |-> 0]

Smaller(a, b) == IF a < b THEN a ELSE b
Larger(a, b) == IF a > b THEN a ELSE b

(* events.slice(-n)                                                        *)
Last(events, n) ==
  SubSeq(events, Larger(1, Len(events) - n + 1), Len(events))

(* events.filter and events.toSorted.  SelectSeq and SortSeq say the same,  *)
(* but no prover knows what they are.                                       *)
Select(events, chosen) ==
  LET upTo[n \in 0 .. Len(events)] ==
        IF n = 0 THEN <<>>
        ELSE IF events[n] \in chosen THEN Append(upTo[n - 1], events[n])
        ELSE upTo[n - 1]
  IN upTo[Len(events)]

Ascending(events) == \A i \in 2 .. Len(events) : events[i - 1] <= events[i]

Sorted(events) ==
  LET at(place) == [i \in DOMAIN events |-> events[place[i]]]
  IN at(CHOOSE place \in Bijection(DOMAIN events, DOMAIN events) : Ascending(at(place)))

-----------------------------------------------------------------------------
(* The controller.                                                         *)

(* The events after a cursor, at most limit of them.                       *)
Replay(after, limit) ==
  [i \in 1 .. Smaller(limit, Len(log) - after) |-> after + i]

(* The last sequence of a page, or the cursor that was asked for.           *)
PageCursor(after, page) == IF page = <<>> THEN after ELSE page[Len(page)]

(* importantEvents of the snapshot read at a cursor.                        *)
Recent(cursor) ==
  LET first == Larger(0, cursor - RecentLimit)
  IN Select([i \in 1 .. cursor - first |-> first + i],
            {s \in 1 .. cursor : log[s] = "room"})

Commit(kind) == log' = Append(log, kind)

(* Agents, other rooms and the controller itself commit events.  The bound  *)
(* leaves one event to each command that may still take effect.             *)
Progress ==
  /\ LET owed == MaxCommands - spent.commands
                   + (IF command.pc \in {"check", "send"} THEN 1 ELSE 0)
     IN Len(log) + owed < MaxEvents
  /\ \E kind \in EventKinds : Commit(kind)
  /\ UNCHANGED <<view, pump, command, spent>>

-----------------------------------------------------------------------------
(* The reducer.                                                            *)

After(cursor, events) == Sorted(Select(events, cursor + 1 .. MaxEvents))

ContiguousNoStart(cursor, update) ==
  /\ update.cursor >= cursor
  /\ update.snapshot = update.cursor
  /\ LET fresh == After(cursor, update.events)
     IN IF update.cursor = cursor THEN fresh = <<>>
        ELSE /\ fresh # <<>>
             /\ fresh[Len(fresh)] = update.cursor

Contiguous(cursor, update) ==
  /\ update.cursor >= cursor
  /\ update.snapshot = update.cursor
  /\ LET fresh == After(cursor, update.events)
     IN IF update.cursor = cursor THEN fresh = <<>>
        ELSE /\ fresh # <<>>
             /\ fresh[1] = cursor + 1
             /\ fresh[Len(fresh)] = update.cursor
             /\ \A i \in 2 .. Len(fresh) : fresh[i] = fresh[i - 1] + 1

ReceiveSnapshot(v, cursor) ==
  [cursor |-> cursor, events |-> Last(Recent(cursor), EventLimit),
   since |-> Larger(0, cursor - RecentLimit), connection |-> "connected",
   loaded |-> TRUE]

ReceiveEventsKeepAll(v, update) ==
  IF Contiguous(v.cursor, update)
  THEN [v EXCEPT !.events = @ \o After(v.cursor, update.events),
                 !.cursor = update.cursor, !.connection = "connected"]
  ELSE [v EXCEPT !.connection = "resyncing"]

ReceiveEvents(v, update) ==
  IF Contiguous(v.cursor, update)
  THEN [v EXCEPT !.events = Last(@ \o After(v.cursor, update.events),
                                 EventLimit),
                 !.cursor = update.cursor, !.connection = "connected"]
  ELSE [v EXCEPT !.connection = "resyncing"]

Unconnected(v) == [v EXCEPT !.connection = "waiting"]

(* /clear                                                                  *)
ClearLocal ==
  /\ pump.pc # "stopped"
  /\ spent.clears < MaxClears
  /\ view' = [view EXCEPT !.events = <<>>, !.since = view.cursor]
  /\ spent' = [spent EXCEPT !.clears = @ + 1]
  /\ UNCHANGED <<log, pump, command>>

-----------------------------------------------------------------------------
(* The pump.                                                               *)

(* The controller answers the load of a connecting pump.                    *)
LoadRead ==
  /\ pump.pc = "load"
  /\ pump' = [pump EXCEPT !.pc = "show", !.snapshot = Len(log)]
  /\ UNCHANGED <<log, view, command, spent>>

LoadShown ==
  /\ pump.pc = "show"
  /\ view' = ReceiveSnapshot(view, pump.snapshot)
  /\ pump' = Between("poll", pump.snapshot)
  /\ UNCHANGED <<log, command, spent>>

(* waitForEvents: what is there when the first commit after the cursor or   *)
(* the end of the time wakes the poll.  Nothing is there after a time-out.  *)
Backlog == Replay(pump.cursor, MaxBacklog + 1)

(* events.poll.  A backlog of too many events, or of too many bytes, is not *)
(* delivered.                                                               *)
Poll ==
  /\ pump.pc = "poll"
  /\ LET page == SubSeq(Backlog, 1, Smaller(PageLimit, Len(Backlog)))
     IN \E tooMuch \in BOOLEAN :
          /\ tooMuch => Backlog # <<>>
          /\ Len(Backlog) > MaxBacklog => tooMuch
          /\ pump' = [pump EXCEPT
               !.pc = "reload", !.pages = 0, !.resync = tooMuch,
               !.events = IF tooMuch THEN <<>> ELSE page,
               !.committed = IF tooMuch THEN pump.cursor
                             ELSE PageCursor(pump.cursor, page)]
  /\ UNCHANGED <<log, view, command, spent>>

(* The snapshot after a page.  It is ahead of the page when events were     *)
(* committed in between or the page was full: then history has the rest.    *)
Reload ==
  /\ pump.pc = "reload"
  /\ LET snapshot == Len(log)
         behind == pump.committed < snapshot /\ pump.pages < CatchUps
     IN pump' = [pump EXCEPT
          !.snapshot = snapshot,
          !.pc = IF behind /\ ~pump.resync THEN "history" ELSE "update",
          !.committed = IF pump.resync THEN snapshot ELSE @]
  /\ UNCHANGED <<log, view, command, spent>>

(* events.history.  It is only asked when there is more, so its page is     *)
(* never empty, and it never asks for a resync.                             *)
History ==
  /\ pump.pc = "history"
  /\ LET page == Replay(pump.committed, PageLimit)
     IN pump' = [pump EXCEPT
          !.pc = "reload", !.pages = @ + 1, !.events = @ \o page,
          !.committed = PageCursor(@, page)]
  /\ UNCHANGED <<log, view, command, spent>>

Update == [cursor |-> pump.committed, events |-> pump.events,
           snapshot |-> pump.snapshot]

UpdateShownNeverStartsOver ==
  /\ pump.pc = "update"
  /\ view' = ReceiveEvents(view, Update)
  /\ pump' = Between("poll", IF Contiguous(pump.cursor, Update)
                             THEN Update.cursor ELSE pump.cursor)
  /\ UNCHANGED <<log, command, spent>>

(* nextCommitted returns.  The view judges the update by its own cursor,    *)
(* the pump by the cursor it asked for; only the pump can start over.       *)
UpdateShown ==
  /\ pump.pc = "update"
  /\ IF Contiguous(pump.cursor, Update)
     THEN /\ view' = ReceiveEvents(view, Update)
          /\ pump' = Between("poll", Update.cursor)
     ELSE /\ view' = Unconnected(ReceiveEvents(view, Update))
          /\ pump' = Between("load", pump.cursor)
  /\ UNCHANGED <<log, command, spent>>

(* A request of the pump fails or runs into its timeout.                    *)
PumpFails ==
  /\ pump.pc \in {"load", "show", "poll", "reload", "history", "update"}
  /\ spent.failures < MaxFailures
  /\ spent' = [spent EXCEPT !.failures = @ + 1]
  /\ view' = Unconnected(view)
  /\ pump' = Between("delay", pump.cursor)
  /\ UNCHANGED <<log, command>>

RetryOnlyIfNew ==
  /\ pump.pc = "delay"
  /\ ~view.loaded
  /\ view' = Unconnected(view)
  /\ pump' = Between("load", pump.cursor)
  /\ UNCHANGED <<log, command, spent>>

(* The delay is over; the pump connects again.                              *)
Retry ==
  /\ pump.pc = "delay"
  /\ view' = Unconnected(view)
  /\ pump' = Between("load", pump.cursor)
  /\ UNCHANGED <<log, command, spent>>

PumpStep ==
  LoadRead \/ LoadShown \/ Poll \/ Reload \/ History \/ UpdateShown \/ Retry

-----------------------------------------------------------------------------
(* Commands.                                                               *)

(* The user submits; the command takes the cursor the view shows.  One      *)
(* command is pending at a time, and chat needs a run to go to.             *)
Queue(kind) ==
  /\ pump.pc # "stopped"
  /\ kind = "instruction" => view.loaded
  /\ command.pc = "idle"
  /\ spent.commands < MaxCommands
  /\ spent' = [spent EXCEPT !.commands = @ + 1]
  /\ command' = [pc |-> IF kind = "setting" THEN "send" ELSE "check",
                 kind |-> kind, expected |-> view.cursor, snapshot |-> 0]
  /\ UNCHANGED <<log, view, pump>>

CheckWaits ==
  /\ command.pc = "check"
  /\ command.kind = "instruction" \/ command.expected = Len(log)
  /\ command' = [command EXCEPT !.pc = "send"]
  /\ UNCHANGED <<log, view, pump, spent>>

(* execute() reads a snapshot; anything but chat is refused if the user has *)
(* not seen all of it.                                                      *)
Check ==
  /\ command.pc = "check"
  /\ command' =
       IF command.kind = "instruction" \/ command.expected = Len(log)
       THEN [command EXCEPT !.pc = "send"] ELSE NoCommand
  /\ UNCHANGED <<log, view, pump, spent>>

(* The command takes effect.  Leaving commits an event if the run is paused *)
(* or canceled with it, and takes the room down; any other command goes on  *)
(* to a refresh.                                                            *)
Execute ==
  /\ command.pc = "send"
  /\ \/ command.kind \in {"leave", "setting"} /\ UNCHANGED log
     \/ command.kind # "setting" /\ Commit("room")
  /\ IF command.kind = "leave"
     THEN command' = NoCommand /\ pump' = Between("stopped", pump.cursor)
     ELSE command' = [command EXCEPT !.pc = "refresh"] /\ UNCHANGED pump
  /\ UNCHANGED <<view, spent>>

RefreshRead ==
  /\ command.pc = "refresh"
  /\ command' = [command EXCEPT !.pc = "show", !.snapshot = Len(log)]
  /\ UNCHANGED <<log, view, pump, spent>>

RefreshShown ==
  /\ command.pc = "show"
  /\ view' = ReceiveSnapshot(view, command.snapshot)
  /\ command' = NoCommand
  /\ UNCHANGED <<log, pump, spent>>

(* A request of the command is refused or fails, before or after it took    *)
(* effect.  If only the refresh fails, the view is told that the connection *)
(* is lost.                                                                 *)
CommandFails ==
  /\ command.pc # "idle"
  /\ spent.failures < MaxFailures
  /\ spent' = [spent EXCEPT !.failures = @ + 1]
  /\ IF command.pc = "send" /\ command.kind # "setting"
     THEN Commit("room") \/ UNCHANGED log ELSE UNCHANGED log
  /\ view' = IF command.pc \in {"refresh", "show"} THEN Unconnected(view)
             ELSE view
  /\ command' = NoCommand
  /\ UNCHANGED pump

CommandStep == Check \/ Execute \/ RefreshRead \/ RefreshShown

Next ==
  \/ Progress
  \/ ClearLocal
  \/ PumpStep
  \/ PumpFails
  \/ \E kind \in CommandKinds : Queue(kind)
  \/ CommandStep
  \/ CommandFails

Spec == Init /\ [][Next]_vars

(* Both readers run on one event loop: an answer that has arrived, or a     *)
(* timer that has run out, is handled at some time.                         *)
FairSpec == Spec /\ WF_vars(PumpStep) /\ WF_vars(CommandStep)

-----------------------------------------------------------------------------
(* Properties.                                                             *)

(* The variables have their types, and the timeline stays within the limit  *)
(* that receiveSnapshot and receiveEvents cut it to.                        *)
TypeOK ==
  /\ log \in Seq(EventKinds) /\ Len(log) <= MaxEvents
  /\ view \in View /\ Len(view.events) <= EventLimit
  /\ pump \in Pump
  /\ command \in Command
  /\ spent \in [commands : 0 .. MaxCommands, failures : 0 .. MaxFailures,
                clears : 0 .. MaxClears]

(* The timeline has no hole and no repetition: the sequence numbers go up,  *)
(* none is beyond the cursor, and every event of the room's run after the   *)
(* start of the timeline and up to the cursor is in it, however snapshots   *)
(* of two readers, pages and resyncs alternate.                             *)
TimelineComplete ==
  LET shown == {view.events[i] : i \in 1 .. Len(view.events)}
      full == Len(view.events) = EventLimit
  IN /\ \A i \in 2 .. Len(view.events) : view.events[i - 1] < view.events[i]
     /\ view.cursor <= Len(log)
     /\ \A s \in shown : s \in view.since + 1 .. view.cursor
     /\ \A s \in view.since + 1 .. view.cursor :
          log[s] = "room" => s \in shown \/ (full /\ s < view.events[1])

(* The view is behind what the pump has already handed to it: a refresh was *)
(* read before, and shown after, one of the pump's updates.                 *)
Overtaken == view.cursor < pump.cursor

(* What is committed is shown at some time, through gaps, resyncs, full     *)
(* pages, and failures, unless the user leaves or a refresh puts the view   *)
(* back.                                                                    *)
RoomCatchesUp ==
  \A n \in 1 .. MaxEvents :
    []<>(Len(log) >= n => view.cursor >= n \/ Overtaken \/ pump.pc = "stopped")

(* A room that reconnects or resyncs is connected again at some time,       *)
(* unless the user leaves or a refresh puts the view back.                  *)
ConnectionHeals ==
  []<>(view.connection = "connected" \/ Overtaken \/ pump.pc = "stopped")

(* A pending command is settled at some time: the room refuses every other  *)
(* command until it is.                                                     *)
CommandSettles == []<>(command.pc = "idle")

(* A view that found a gap, and says that it requests an authoritative      *)
(* resync, gets one.                                                        *)
ResyncEnds == []<>(view.connection # "resyncing")
=============================================================================
