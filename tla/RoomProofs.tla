------------------------------ MODULE RoomProofs ------------------------------
(***************************************************************************)
(* A project room, for any lengths of logs, pages, snapshots and timelines *)
(* and any number of recordings, tasks, samples and players.               *)
(*                                                                         *)
(* The view: a timeline lists what is committed between its start and its  *)
(* cursor (Lists).  A snapshot lists by itself, whichever reader reads it  *)
(* and however late it is shown; an update is appended only if it goes on  *)
(* from the view's own cursor, and what the pump has fetched counts up     *)
(* from the pump's (Fetched).  What a filter and a sort do to a list that  *)
(* goes up is proved from their definitions, by induction on the length.   *)
(*                                                                         *)
(* The input: while a recording is opened or open, the overlay shows it or *)
(* Ctrl+C hid it, and the room still holds it, or it has been canceled, or *)
(* another one took its place (Shown).  That the first to lose its place   *)
(* does so to or as one that Ctrl+C had hidden needs Mine: what the room   *)
(* holds is opening or open and not canceled.  While a recording is ended, *)
(* the overlay waits for its transcript or its abort is at hand.           *)
(*                                                                         *)
(* A recording and a reply: what of it is held, at which of its stages.    *)
(***************************************************************************)
EXTENDS Room, SequenceTheorems, WellFoundedInduction, TLAPS

(* A room's view.                                                          *)
Rising(events) ==
  \A i \in 1 .. Len(events) : \A j \in 1 .. Len(events) : i < j => events[i] < events[j]

(* events are, in order, at least the room's ones of the entries after      *)
(* since and up to cursor, but for those that the limit cut off.            *)
Lists(entries, events, since, cursor) ==
  /\ since \in Nat /\ cursor \in Nat /\ since <= cursor
  /\ events \in Seq(Nat) /\ Rising(events)
  /\ \A i \in 1 .. Len(events) : events[i] \in since + 1 .. cursor
  /\ \A s \in since + 1 .. cursor :
       entries[s] = "room" => \/ \E i \in 1 .. Len(events) : events[i] = s
                              \/ Len(events) >= EventLimit /\ s < events[1]

Read == pump.pc \in {"reload", "history", "update"}

(* What the events in flight are: the ones after the pump's cursor.        *)
Fetched ==
  Read =>
    /\ pump.committed <= Len(log)
    /\ pump.events = [i \in 1 .. Len(pump.events) |-> pump.cursor + i]
    /\ IF pump.resync THEN pump.events = <<>> /\ pump.pc # "history"
       ELSE pump.committed = pump.cursor + Len(pump.events)
    /\ pump.pc = "history" => pump.pages < CatchUps

(* No reader is ahead of the controller.                                   *)
NotAhead ==
  /\ {view.cursor, pump.cursor} \subseteq 0 .. Len(log)
  /\ pump.pc = "show" => pump.snapshot <= Len(log)
  /\ command.pc = "show" => command.snapshot <= Len(log)

(* The bound keeps an event for each command that may take effect.         *)
Owed == MaxCommands - spent.commands + (IF command.pc \in {"check", "send"} THEN 1 ELSE 0)

Reserved == Len(log) + Owed <= MaxEvents

(* TimelineComplete, with what it takes to append to the timeline.          *)
Listed == Lists(log, view.events, view.since, view.cursor)

ViewInv == TypeOK /\ Listed /\ Fetched /\ NotAhead /\ Reserved

(* Recordings of the room.                                                 *)
Beginning(s) ==
  /\ s >= next => job[s] = "none"
  /\ job[s] \in {"none", "opening"} => recorder[s] = "none" /\ s \notin frames \cup canceling
  /\ session = s => job[s] \in {"open", "closing", "request"}

(* A microphone and samples belong to a job.                               *)
Held(s) ==
  /\ recorder[s] = "capturing" => job[s] = "open"
  /\ recorder[s] = "stopped" => job[s] \in {"open", "closing"}
  /\ s \in frames => job[s] \in {"open", "closing", "request"}

(* While the overlay shows a recording that is being ended, the abort of   *)
(* its end is at hand.                                                     *)
Ending(s) ==
  job[s] \in {"closing", "request"} /\ overlay.kind = "voice" /\ overlay.session = s
    => s \in aborted \/ (overlay.phase = "transcribing" /\ finishRef = s)

(* What the room holds has not come to its end.                            *)
Mine(s) ==
  /\ startRef = s => job[s] = "opening"
  /\ mounted /\ session = s /\ job[s] = "open" => s \notin canceling /\ recorder[s] # "released"

(* A recording that is opened or open is shown or hidden, and held by the  *)
(* room, or it has been canceled, or it lost its place.                    *)
Shown(s) ==
  /\ job[s] = "opening" =>
       \/ s \in aborted \cup displaced
       \/ mounted /\ startRef = s /\ (s \in hidden \/ overlay = Input!Voice(s, "starting"))
  /\ job[s] = "open" =>
       \/ mounted /\ session = s /\ (s \in hidden \/ overlay = Input!Voice(s, "recording"))
       \/ s \in canceling \cup displaced
       \/ recorder[s] = "released" /\ s \notin frames

(* Nothing loses its place before Ctrl+C has hidden something.             *)
Lost == displaced # {} => hidden # {}

NotBusy == overlay.kind = "voice" => pending = None

(* Replies.                                                                *)
Spoken ==
  /\ \A t \in Input!Tasks : spoken[t] <= 1 /\ (task[t] = "none" => spoken[t] = 0)
  /\ reply.after /\ reply.ready =>
       reply.task # None /\ spoken[reply.task] = 0 /\ task[reply.task] # "none"

Screen ==
  /\ {mounted, voiceDraft, run} \subseteq BOOLEAN /\ text \in {"empty", "words"}
  /\ overlay \in Input!Overlay

Commands ==
  /\ pending = None \/ pending \in [type : {"message", "other", "leave"}, draft : BOOLEAN]
  /\ task \in [Input!Tasks -> {"none", "working", "done", "cleared"}]
  /\ byVoice \subseteq Input!Tasks

Answers ==
  /\ reply \in [after : BOOLEAN, task : Input!Tasks \cup {None}, ready : BOOLEAN]
  /\ speaking \in Input!Tasks \cup {None} /\ spoken \in [Input!Tasks -> 0 .. 2]

Sessions ==
  /\ next \in 1 .. MaxSessions + 1
  /\ {startRef, session, finishRef} \subseteq Input!Sessions \cup {None}
  /\ job \in [Input!Sessions -> {"none", "opening", "open", "closing", "request", "over"}]
  /\ canceling \cup aborted \cup frames \cup hidden \cup displaced \subseteq Input!Sessions
  /\ recorder \in [Input!Sessions -> {"none", "capturing", "stopped", "released"}]

Recordings == \A s \in Input!Sessions : Beginning(s) /\ Held(s) /\ Ending(s)
AllShown == Lost /\ \A s \in Input!Sessions : Mine(s) /\ Shown(s)

UserInv == Screen /\ Commands /\ Answers /\ Spoken /\ NotBusy /\ Input!RepliesAreSpokenOnce
VoicesInv == Sessions /\ Recordings
InputInv == UserInv /\ VoicesInv

(* A recording and a reply.                                                *)
Flags == {capturing, released, error, file} \subseteq BOOLEAN

Stages ==
  /\ start \in {"none", "creating", "recording", "failed"}
  /\ mic \in {"none", "recording", "stopped", "released"}
  /\ reader \in {"none", "reading", "ended"}
  /\ stop \in {"none", "finishing", "leasing", "transcribing", "done"}
  /\ cancel \in {"none", "finishing", "done"}
  /\ speech \in {"none", "leasing", "fetching", "playing", "done"}

Amounts ==
  /\ {samples, chunks} \subseteq 0 .. MaxSamples
  /\ player \in 0 .. Players
  /\ signalled \subseteq Voice!Signals
  /\ sound \subseteq {"stop", "speech"} /\ leases \subseteq {"stop", "speech"}

Recorder ==
  /\ start \in {"none", "creating"} => mic = "none"
  /\ start = "failed" => mic \in {"none", "released"}
  /\ start = "recording" => mic # "none" /\ reader # "none"
  /\ start # "recording" => reader = "none" /\ stop = "none" /\ cancel = "none" /\ ~released

Release ==
  /\ released => mic = "released" /\ reader = "ended"
  /\ (stop \in {"leasing", "transcribing", "done"} \/ cancel = "done") => released

Memory ==
  /\ chunks = samples
  /\ stop = "done" => chunks = 0
  /\ cancel = "done" /\ stop \in {"none", "done"} => chunks = 0

Keeping ==
  /\ "stop" \in sound => stop \in {"leasing", "transcribing"}
  /\ "stop" \in leases => stop = "transcribing"
  /\ "speech" \in leases => speech \in {"fetching", "playing"}
  /\ "speech" \in sound \/ file => speech = "playing"

VoiceInv == Flags /\ Stages /\ Amounts /\ Recorder /\ Release /\ Memory /\ Keeping

-----------------------------------------------------------------------------
(* Induction on the length of a list, which the library offers only with an *)
(* operator for a parameter: a least index without the property would       *)
(* follow one with it.                                                      *)
LEMMA UpToInduction ==
  ASSUME NEW n \in Nat, NEW G, 0 \in G, \A i \in 1 .. n : i - 1 \in G => i \in G
  PROVE  \A i \in 0 .. n : i \in G
<1> DEFINE T == (0 .. n) \ G
<1>1. SUFFICES ASSUME T # {} PROVE FALSE
  OBVIOUS
<1>2. T \subseteq Nat
  OBVIOUS
<1>3. IsWellFoundedOn(OpToRel(<, Nat), Nat)
  BY NatLessThanWellFounded
<1>4. PICK i \in T : \A j \in T : <<j, i>> \notin OpToRel(<, Nat)
  <2> HIDE DEF T
  <2> QED
    BY <1>1, <1>2, <1>3, WFMin
<1>5. \A j \in T : ~(j < i)
  BY <1>2, <1>4 DEF OpToRel
<1>6. i # 0 /\ i \in 1 .. n /\ i - 1 \notin T
  BY <1>5
<1> QED
  BY <1>6

Steps(f, events, chosen, k) ==
  f = [n \in 0 .. k |->
         IF n = 0 THEN <<>>
         ELSE IF events[n] \in chosen THEN Append(f[n - 1], events[n])
         ELSE f[n - 1]]

LEMMA SelectSteps ==
  ASSUME NEW events, Len(events) \in Nat, NEW chosen
  PROVE  \E f : Steps(f, events, chosen, Len(events)) /\ Select(events, chosen) = f[Len(events)]
<1> DEFINE G == {k \in 0 .. Len(events) : \E f : Steps(f, events, chosen, k)}
<1>1. 0 \in G
  <2>1. Steps([n \in 0 .. 0 |-> <<>>], events, chosen, 0)
    BY DEF Steps
  <2> QED
    BY <2>1
<1>2. ASSUME NEW k \in 1 .. Len(events), k - 1 \in G
      PROVE  k \in G
  <2>1. PICK f : Steps(f, events, chosen, k - 1)
    BY <1>2
  <2> DEFINE following == IF events[k] \in chosen THEN Append(f[k - 1], events[k]) ELSE f[k - 1]
             g == [n \in 0 .. k |-> IF n < k THEN f[n] ELSE following]
  <2>2. \A n \in 0 .. k - 1 : g[n] = f[n]
    OBVIOUS
  <2>3. g[k] = following
    OBVIOUS
  <2>4. g[k] = IF events[k] \in chosen THEN Append(g[k - 1], events[k]) ELSE g[k - 1]
    BY <2>2, <2>3
  <2>5. ASSUME NEW n \in 0 .. k - 1
        PROVE  g[n] = IF n = 0 THEN <<>>
                      ELSE IF events[n] \in chosen THEN Append(g[n - 1], events[n]) ELSE g[n - 1]
    <3>1. f[n] = IF n = 0 THEN <<>>
                 ELSE IF events[n] \in chosen THEN Append(f[n - 1], events[n]) ELSE f[n - 1]
      BY <2>1 DEF Steps
    <3>2. n # 0 => g[n - 1] = f[n - 1]
      BY <2>2
    <3> QED
      BY <2>2, <3>1, <3>2
  <2>6. \A n \in 0 .. k : g[n] = IF n = 0 THEN <<>>
                      ELSE IF events[n] \in chosen THEN Append(g[n - 1], events[n]) ELSE g[n - 1]
    <3> HIDE DEF g
    <3>1. \A n \in 0 .. k : n = k \/ n \in 0 .. k - 1
      OBVIOUS
    <3> QED
      BY <2>4, <2>5, <3>1
  <2>7. DOMAIN g = 0 .. k /\ g = [n \in DOMAIN g |-> g[n]]
    OBVIOUS
  <2>8. Steps(g, events, chosen, k)
    <3> HIDE DEF g
    <3> QED
      BY <2>6, <2>7 DEF Steps
  <2> QED
    BY <2>8
<1>3. Len(events) \in G
  <2>1. \A k \in 1 .. Len(events) : k - 1 \in G => k \in G
    BY <1>2
  <2> HIDE DEF G
  <2>2. \A k \in 0 .. Len(events) : k \in G
    BY <1>1, <2>1, UpToInduction
  <2> QED
    BY <2>2
<1>4. \E f : Steps(f, events, chosen, Len(events))
  BY <1>3
<1>5. Select(events, chosen) = (CHOOSE f : Steps(f, events, chosen, Len(events)))[Len(events)]
  BY DEF Select, Steps
<1> QED
  BY <1>4, <1>5

-----------------------------------------------------------------------------
(* What Select and Sorted do to a list that goes up.                        *)
LEMMA SelectKeeps ==
  ASSUME NEW S \in SUBSET Nat, NEW events \in Seq(S), NEW chosen, Rising(events)
  PROVE  LET found == Select(events, chosen) IN
         /\ found \in Seq(S) /\ Len(found) <= Len(events) /\ Rising(found)
         /\ \A i \in 1 .. Len(found) : found[i] \in chosen
         /\ \A i \in 1 .. Len(events) :
              events[i] \in chosen => \E j \in 1 .. Len(found) : found[j] = events[i]
<1> DEFINE N == Len(events)
<1>1. N \in Nat /\ \A i \in 1 .. N : events[i] \in S
  OBVIOUS
<1>2. PICK f : Steps(f, events, chosen, N) /\ Select(events, chosen) = f[N]
  BY <1>1, SelectSteps
<1> DEFINE Good(k) ==
      /\ f[k] \in Seq(S) /\ Len(f[k]) <= k /\ Rising(f[k])
      /\ \A i \in 1 .. Len(f[k]) :
           f[k][i] \in chosen /\ \E j \in 1 .. k : f[k][i] = events[j]
      /\ \A i \in 1 .. k :
           events[i] \in chosen => \E j \in 1 .. Len(f[k]) : f[k][j] = events[i]
<1> DEFINE G == {k \in 0 .. N : Good(k)}
<1>3. Good(0)
  <2>1. f[0] = <<>>
    BY <1>1, <1>2 DEF Steps
  <2> QED
    BY <2>1 DEF Rising
<1>4. ASSUME NEW k \in 1 .. N, Good(k - 1)
      PROVE  Good(k)
  <2> DEFINE p == f[k - 1]
  <2>1. f[k] = IF events[k] \in chosen THEN Append(p, events[k]) ELSE p
    <3>1. k \in 0 .. N /\ k # 0
      BY <1>1
    <3> QED
      BY <1>2, <3>1 DEF Steps
  <2>2. p \in Seq(S) /\ Len(p) <= k - 1 /\ events[k] \in S
    BY <1>1, <1>4
  <2>3. CASE events[k] \notin chosen
    <3>1. f[k] = p
      BY <2>1, <2>3
    <3>2. \A i \in 1 .. k : events[i] \in chosen => i \in 1 .. k - 1
      BY <2>3
    <3>3. Len(p) <= k /\ \A j \in 1 .. k - 1 : j \in 1 .. k
      BY <2>2
    <3> HIDE DEF p
    <3>4. Good(k - 1) <=>
            /\ p \in Seq(S) /\ Len(p) <= k - 1 /\ Rising(p)
            /\ \A i \in 1 .. Len(p) : p[i] \in chosen /\ \E j \in 1 .. k - 1 : p[i] = events[j]
            /\ \A i \in 1 .. k - 1 : events[i] \in chosen => \E j \in 1 .. Len(p) : p[j] = events[i]
      BY DEF p
    <3> QED
      BY <1>4, <3>1, <3>2, <3>3, <3>4
  <2>4. CASE events[k] \in chosen
    <3> DEFINE q == Append(p, events[k])
    <3>1. f[k] = q
      BY <2>1, <2>4
    <3>2. /\ q \in Seq(S) /\ Len(q) = Len(p) + 1 /\ q[Len(p) + 1] = events[k]
          /\ \A i \in 1 .. Len(p) : q[i] = p[i]
      BY <2>2
    <3>3. Rising(q)
      <4>1. \A i \in 1 .. Len(p) : p[i] < events[k]
        <5> SUFFICES ASSUME NEW i \in 1 .. Len(p) PROVE p[i] < events[k]
          OBVIOUS
        <5>1. PICK j \in 1 .. k - 1 : p[i] = events[j]
          BY <1>4
        <5>2. events[j] < events[k]
          BY <1>1, <5>1 DEF Rising
        <5> QED
          BY <5>1, <5>2
      <4>2. Rising(p)
        BY <1>4
      <4>3. \A i \in 1 .. Len(q) : i \in 1 .. Len(p) \/ i = Len(p) + 1
        BY <2>2, <3>2
      <4> HIDE DEF p, q
      <4> QED
        BY <2>2, <3>2, <4>1, <4>2, <4>3 DEF Rising
    <3>4. \A i \in 1 .. Len(q) : q[i] \in chosen /\ \E j \in 1 .. k : q[i] = events[j]
      <4>1. \A i \in 1 .. Len(p) : p[i] \in chosen /\ \E j \in 1 .. k : p[i] = events[j]
        <5> SUFFICES ASSUME NEW i \in 1 .. Len(p)
                     PROVE  p[i] \in chosen /\ \E j \in 1 .. k : p[i] = events[j]
          OBVIOUS
        <5>1. p[i] \in chosen /\ \E j \in 1 .. k - 1 : p[i] = events[j]
          BY <1>4
        <5>2. \A j \in 1 .. k - 1 : j \in 1 .. k
          OBVIOUS
        <5> QED
          BY <5>1, <5>2
      <4>2. \A i \in 1 .. Len(q) : i \in 1 .. Len(p) \/ i = Len(p) + 1
        BY <2>2, <3>2
      <4> HIDE DEF p, q
      <4>3. q[Len(p) + 1] \in chosen /\ \E j \in 1 .. k : q[Len(p) + 1] = events[j]
        BY <2>4, <3>2
      <4>4. ASSUME NEW i \in 1 .. Len(p)
            PROVE  q[i] \in chosen /\ \E j \in 1 .. k : q[i] = events[j]
        <5>1. q[i] = p[i]
          BY <3>2
        <5> QED
          BY <4>1, <5>1
      <4> QED
        BY <4>2, <4>3, <4>4
    <3>5. \A i \in 1 .. k : events[i] \in chosen => \E j \in 1 .. Len(q) : q[j] = events[i]
      <4>1. \A i \in 1 .. k - 1 : events[i] \in chosen => \E j \in 1 .. Len(p) : p[j] = events[i]
        BY <1>4
      <4>2. \A i \in 1 .. k : i \in 1 .. k - 1 \/ i = k
        OBVIOUS
      <4>3. Len(p) + 1 \in 1 .. Len(q) /\ \A j \in 1 .. Len(p) : j \in 1 .. Len(q)
        BY <2>2, <3>2
      <4> HIDE DEF p, q
      <4> QED
        BY <3>2, <4>1, <4>2, <4>3
    <3>6. Len(q) <= k
      BY <2>2, <3>2
    <3> HIDE DEF q
    <3> QED
      BY <3>1, <3>2, <3>3, <3>4, <3>5, <3>6
  <2> QED
    BY <2>3, <2>4
<1>5. Good(N)
  <2>1. 0 \in G /\ \A k \in 1 .. N : k - 1 \in G => k \in G
    <3> HIDE DEF Good
    <3> QED
      BY <1>1, <1>3, <1>4
  <2> HIDE DEF G
  <2>2. \A k \in 0 .. N : k \in G
    BY <1>1, <2>1, UpToInduction
  <2>3. N \in G
    BY <1>1, <2>2
  <2> USE DEF G
  <2> QED
    BY <2>3
<1> HIDE DEF Good
<1>6. Good(N) =>
        LET found == f[N] IN
        /\ found \in Seq(S) /\ Len(found) <= Len(events) /\ Rising(found)
        /\ \A i \in 1 .. Len(found) : found[i] \in chosen
        /\ \A i \in 1 .. Len(events) :
             events[i] \in chosen => \E j \in 1 .. Len(found) : found[j] = events[i]
  BY DEF Good
<1> QED
  BY <1>2, <1>5, <1>6

LEMMA SortedKeeps ==
  ASSUME NEW S \in SUBSET Nat, NEW events \in Seq(S), Rising(events)
  PROVE  Sorted(events) \in Seq(S)
<1> DEFINE D == DOMAIN events
           At(place) == [i \in D |-> events[place[i]]]
           same == [i \in D |-> i]
<1>1. D = 1 .. Len(events) /\ Len(events) \in Nat /\ \A i \in D : events[i] \in S
  OBVIOUS
<1>2. same \in Bijection(D, D)
  BY DEF Bijection, Injection, Surjection, IsInjective
<1>3. Ascending(At(same))
  <2>1. At(same) = [i \in D |-> events[i]]
    OBVIOUS
  <2>2. At(same) = events
    BY <2>1
  <2>3. \A i \in 2 .. Len(events) : events[i - 1] <= events[i]
    <3> SUFFICES ASSUME NEW i \in 2 .. Len(events) PROVE events[i - 1] <= events[i]
      OBVIOUS
    <3>1. i - 1 \in 1 .. Len(events) /\ i \in 1 .. Len(events) /\ i - 1 < i
      BY <1>1
    <3>2. events[i - 1] < events[i] /\ events[i - 1] \in Nat /\ events[i] \in Nat
      BY <1>1, <3>1 DEF Rising
    <3> QED
      BY <3>2
  <2> QED
    BY <2>2, <2>3 DEF Ascending
<1>4. \E place \in Bijection(D, D) : Ascending(At(place))
  BY <1>2, <1>3
<1>5. PICK place \in Bijection(D, D) : Sorted(events) = At(place)
  BY <1>4 DEF Sorted
<1>6. place \in [D -> D]
  BY <1>5 DEF Bijection, Injection
<1>7. At(place) \in [1 .. Len(events) -> S]
  BY <1>1, <1>6
<1> QED
  BY <1>1, <1>5, <1>7

-----------------------------------------------------------------------------
(* What slicing, appending and reading anew do to what a timeline lists.     *)
LEMMA LastProperties ==
  ASSUME NEW S, NEW events \in Seq(S), NEW n \in Nat \ {0}
  PROVE  LET cut == Last(events, n) IN
         /\ cut \in Seq(S)
         /\ Len(cut) = IF Len(events) <= n THEN Len(events) ELSE n
         /\ \A i \in 1 .. Len(cut) : cut[i] = events[Len(events) - Len(cut) + i]
<1> DEFINE first == Larger(1, Len(events) - n + 1)
           cut == SubSeq(events, first, Len(events))
<1>1. first \in 1 .. Len(events) + 1 /\ Len(events) \in Nat
      /\ first = IF Len(events) <= n THEN 1 ELSE Len(events) - n + 1
  BY DEF Larger
<1> HIDE DEF first
<1>2. /\ cut \in Seq(S)
      /\ Len(cut) = IF first <= Len(events) THEN Len(events) - first + 1 ELSE 0
      /\ \A i \in 1 .. Len(events) - first + 1 : cut[i] = events[first + i - 1]
  BY <1>1, SubSeqProperties
<1>3. Last(events, n) = cut
  BY DEF Last, first
<1> HIDE DEF cut
<1>4. Len(cut) = Len(events) - first + 1
  <2>1. Len(cut) = IF first <= Len(events) THEN Len(events) - first + 1 ELSE 0
    BY <1>2
  <2>2. first \in Nat /\ first <= Len(events) + 1 /\ Len(events) \in Nat
    BY <1>1
  <2> QED
    BY <2>1, <2>2
<1>5. \A i \in 1 .. Len(cut) : first + i - 1 = Len(events) - Len(cut) + i
  BY <1>1, <1>4
<1>6. Len(cut) = IF Len(events) <= n THEN Len(events) ELSE n
  BY <1>1, <1>4
<1>7. \A i \in 1 .. Len(cut) : cut[i] = events[Len(events) - Len(cut) + i]
  BY <1>2, <1>4, <1>5
<1> QED
  BY <1>2, <1>3, <1>6, <1>7

LEMMA CutLists ==
  ASSUME NEW entries, NEW events, NEW since, NEW cursor, Lists(entries, events, since, cursor)
  PROVE  /\ Lists(entries, Last(events, EventLimit), since, cursor)
         /\ Len(Last(events, EventLimit)) <= EventLimit
<1> DEFINE cut == Last(events, EventLimit)
<1>1. EventLimit \in Nat \ {0}
  BY LimitAssumption
<1>2. events \in Seq(Nat) /\ Len(events) \in Nat /\ Rising(events)
      /\ \A i \in 1 .. Len(events) : events[i] \in Nat
  BY DEF Lists
<1>3. /\ cut \in Seq(Nat)
      /\ Len(cut) = IF Len(events) <= EventLimit THEN Len(events) ELSE EventLimit
      /\ \A i \in 1 .. Len(cut) : cut[i] = events[Len(events) - Len(cut) + i]
  BY <1>1, <1>2, LastProperties
<1> HIDE DEF cut
<1>4. Len(cut) \in Nat /\ Len(cut) <= Len(events) /\ Len(cut) <= EventLimit
      /\ \A i \in 1 .. Len(cut) : Len(events) - Len(cut) + i \in 1 .. Len(events)
  BY <1>1, <1>2, <1>3
<1>5. Rising(cut)
  <2> SUFFICES ASSUME NEW i \in 1 .. Len(cut), NEW j \in 1 .. Len(cut), i < j
               PROVE  cut[i] < cut[j]
    BY DEF Rising
  <2>1. Len(events) - Len(cut) + i < Len(events) - Len(cut) + j
    BY <1>2, <1>4
  <2> QED
    BY <1>2, <1>3, <1>4, <2>1 DEF Rising
<1>6. \A i \in 1 .. Len(cut) : cut[i] \in since + 1 .. cursor
  BY <1>3, <1>4 DEF Lists
<1>7. ASSUME NEW s \in since + 1 .. cursor, entries[s] = "room"
      PROVE  \/ \E i \in 1 .. Len(cut) : cut[i] = s
             \/ Len(cut) >= EventLimit /\ s < cut[1]
  <2>1. CASE \E i \in 1 .. Len(events) : events[i] = s
    <3>1. PICK i \in 1 .. Len(events) : events[i] = s
      BY <2>1
    <3>2. CASE i > Len(events) - Len(cut)
      <4> DEFINE k == i - (Len(events) - Len(cut))
      <4>1. k \in 1 .. Len(cut) /\ Len(events) - Len(cut) + k = i
        BY <1>2, <1>4, <3>2
      <4> HIDE DEF k
      <4>2. cut[k] = events[i]
        BY <1>3, <4>1
      <4> QED
        BY <3>1, <4>1, <4>2
    <3>3. CASE i <= Len(events) - Len(cut)
      <4>1. Len(cut) = EventLimit /\ 1 \in 1 .. Len(cut)
        BY <1>1, <1>2, <1>3, <1>4, <3>3
      <4>2. cut[1] = events[Len(events) - Len(cut) + 1]
            /\ Len(events) - Len(cut) + 1 \in 1 .. Len(events)
        BY <1>3, <1>4, <4>1
      <4>3. i < Len(events) - Len(cut) + 1
        BY <1>2, <1>4, <3>3
      <4>4. events[i] < events[Len(events) - Len(cut) + 1]
        BY <1>2, <4>2, <4>3 DEF Rising
      <4> QED
        BY <1>1, <3>1, <4>1, <4>2, <4>4
    <3> QED
      BY <1>2, <1>4, <3>2, <3>3
  <2>2. CASE Len(events) >= EventLimit /\ s < events[1]
    <3>1. Len(cut) = EventLimit /\ 1 \in 1 .. Len(cut) /\ 1 \in 1 .. Len(events)
      BY <1>1, <1>2, <1>3, <2>2
    <3>2. cut[1] = events[Len(events) - Len(cut) + 1] /\ Len(events) - Len(cut) + 1 \in 1 .. Len(events)
      BY <1>3, <1>4, <3>1
    <3>3. events[1] <= events[Len(events) - Len(cut) + 1]
      <4>1. CASE Len(events) - Len(cut) + 1 = 1
        BY <1>2, <3>1, <4>1
      <4>2. CASE 1 < Len(events) - Len(cut) + 1
        BY <1>2, <3>1, <3>2, <4>2 DEF Rising
      <4> QED
        BY <1>2, <1>4, <4>1, <4>2
    <3>4. s < cut[1]
      <4>1. s \in Nat /\ events[1] \in Nat /\ cut[1] \in Nat
        BY <1>2, <3>1, <3>2 DEF Lists
      <4> QED
        BY <2>2, <3>2, <3>3, <4>1
    <3> QED
      BY <1>1, <3>1, <3>4
  <2> QED
    BY <1>7, <2>1, <2>2 DEF Lists
<1>8. Lists(entries, cut, since, cursor)
  <2>1. \A s \in since + 1 .. cursor : entries[s] = "room" =>
          \/ \E i \in 1 .. Len(cut) : cut[i] = s
          \/ Len(cut) >= EventLimit /\ s < cut[1]
    BY <1>7
  <2>2. since \in Nat /\ cursor \in Nat /\ since <= cursor
    BY DEF Lists
  <2> QED
    BY <1>3, <1>5, <1>6, <2>1, <2>2 DEF Lists
<1> QED
  BY <1>4, <1>8 DEF cut

LEMMA GrownLists ==
  ASSUME NEW entries, NEW grown, NEW events, NEW since, NEW cursor,
         Lists(entries, events, since, cursor), \A s \in 1 .. cursor : grown[s] = entries[s]
  PROVE  Lists(grown, events, since, cursor)
<1>1. since \in Nat /\ cursor \in Nat /\ \A s \in since + 1 .. cursor : s \in 1 .. cursor
  BY DEF Lists
<1> QED
  BY <1>1 DEF Lists

LEMMA ListsTyped ==
  ASSUME NEW entries, NEW events, NEW since, NEW cursor, NEW n \in Nat,
         Lists(entries, events, since, cursor), cursor <= n
  PROVE  events \in Seq(1 .. n)
<1>1. since \in Nat /\ cursor \in Nat /\ events \in Seq(Nat)
      /\ \A i \in 1 .. Len(events) : events[i] \in since + 1 .. cursor
  BY DEF Lists
<1>2. \A i \in 1 .. Len(events) : events[i] \in 1 .. n
  BY <1>1
<1>3. Len(events) \in Nat /\ events = [i \in 1 .. Len(events) |-> events[i]]
  BY <1>1
<1> QED
  BY <1>2, <1>3

LEMMA CountUp ==
  ASSUME NEW from \in Nat, NEW n \in Nat, NEW to \in Nat, from + n <= to
  PROVE  LET events == [i \in 1 .. n |-> from + i] IN
         events \in Seq(1 .. to) /\ Len(events) = n /\ Rising(events)
<1> DEFINE events == [i \in 1 .. n |-> from + i]
<1>1. events \in [1 .. n -> 1 .. to]
  OBVIOUS
<1>2. events \in Seq(1 .. to) /\ Len(events) = n
  BY <1>1
<1> QED
  BY <1>2 DEF Rising

LEMMA AfterTyped ==
  ASSUME NEW S \in SUBSET Nat, NEW events \in Seq(S), Rising(events), NEW cursor
  PROVE  After(cursor, events) \in Seq(S)
BY SelectKeeps, SortedKeeps DEF After

LEMMA OneByOne ==
  ASSUME NEW fresh \in Seq(Nat), NEW from \in Nat, fresh # <<>>, fresh[1] = from + 1,
         \A i \in 2 .. Len(fresh) : fresh[i] = fresh[i - 1] + 1
  PROVE  \A i \in 1 .. Len(fresh) : fresh[i] = from + i
<1> DEFINE G == {k \in 0 .. Len(fresh) : k = 0 \/ fresh[k] = from + k}
<1>1. Len(fresh) \in Nat /\ 0 \in G
  OBVIOUS
<1>2. ASSUME NEW k \in 1 .. Len(fresh), k - 1 \in G
      PROVE  k \in G
  <2>1. CASE k = 1
    BY <2>1
  <2>2. CASE k # 1
    <3>1. k \in 2 .. Len(fresh) /\ k - 1 # 0 /\ fresh[k - 1] = from + (k - 1)
      BY <1>1, <1>2, <2>2
    <3>2. fresh[k] = from + (k - 1) + 1
      BY <3>1
    <3> QED
      BY <1>1, <3>1, <3>2
  <2> QED
    BY <2>1, <2>2
<1> HIDE DEF G
<1>3. \A k \in 0 .. Len(fresh) : k \in G
  BY <1>1, <1>2, UpToInduction
<1> QED
  BY <1>1, <1>3 DEF G

LEMMA ContiguousEvents ==
  ASSUME NEW cursor \in Nat, NEW update, Contiguous(cursor, update), update.cursor \in Nat,
         NEW fresh \in Seq(Nat), fresh = After(cursor, update.events)
  PROVE  /\ Len(fresh) = update.cursor - cursor
         /\ \A i \in 1 .. Len(fresh) : fresh[i] = cursor + i
<1>1. CASE update.cursor = cursor
  BY <1>1 DEF Contiguous
<1>2. CASE update.cursor # cursor
  <2>1. /\ fresh # <<>> /\ fresh[1] = cursor + 1 /\ fresh[Len(fresh)] = update.cursor
        /\ \A i \in 2 .. Len(fresh) : fresh[i] = fresh[i - 1] + 1
    BY <1>2 DEF Contiguous
  <2>2. \A i \in 1 .. Len(fresh) : fresh[i] = cursor + i
    BY <2>1, OneByOne
  <2>3. Len(fresh) \in 1 .. Len(fresh)
    BY <2>1
  <2>4. update.cursor = cursor + Len(fresh)
    BY <2>1, <2>2, <2>3
  <2> QED
    BY <2>2, <2>3, <2>4
<1> QED
  BY <1>1, <1>2

LEMMA AppendLists ==
  ASSUME NEW entries, NEW events, NEW since, NEW cursor, Lists(entries, events, since, cursor),
         NEW to \in Nat, cursor <= to, NEW fresh \in Seq(Nat), Len(fresh) = to - cursor,
         \A i \in 1 .. Len(fresh) : fresh[i] = cursor + i
  PROVE  Lists(entries, events \o fresh, since, to)
<1> DEFINE all == events \o fresh
<1>1. /\ since \in Nat /\ cursor \in Nat /\ since <= cursor
      /\ events \in Seq(Nat) /\ Rising(events) /\ Len(events) \in Nat /\ Len(fresh) \in Nat
      /\ \A i \in 1 .. Len(events) : events[i] \in since + 1 .. cursor
  BY DEF Lists
<1>2. /\ all \in Seq(Nat) /\ Len(all) = Len(events) + Len(fresh)
      /\ \A i \in 1 .. Len(all) :
           all[i] = IF i <= Len(events) THEN events[i] ELSE fresh[i - Len(events)]
  <2>1. /\ all \in Seq(Nat) /\ Len(all) = Len(events) + Len(fresh)
        /\ \A i \in 1 .. Len(events) + Len(fresh) :
             all[i] = IF i <= Len(events) THEN events[i] ELSE fresh[i - Len(events)]
    BY <1>1, ConcatProperties, Zenon
  <2> QED
    BY <2>1
<1> HIDE DEF all
<1>3. ASSUME NEW i \in 1 .. Len(events)
      PROVE  i \in 1 .. Len(all) /\ all[i] = events[i]
  <2>1. i \in 1 .. Len(all) /\ i <= Len(events)
    BY <1>1, <1>2
  <2> QED
    BY <1>2, <2>1
<1>4. ASSUME NEW i \in 1 .. Len(all), i > Len(events)
      PROVE  all[i] = cursor + (i - Len(events)) /\ i - Len(events) \in 1 .. Len(fresh)
  <2>1. i - Len(events) \in 1 .. Len(fresh)
    BY <1>1, <1>2, <1>4
  <2>2. all[i] = fresh[i - Len(events)]
    BY <1>1, <1>2, <1>4
  <2> QED
    BY <2>1, <2>2
<1>5. Rising(all)
  <2> SUFFICES ASSUME NEW i \in 1 .. Len(all), NEW j \in 1 .. Len(all), i < j
               PROVE  all[i] < all[j]
    BY DEF Rising
  <2>1. CASE j <= Len(events)
    <3>1. i \in 1 .. Len(events) /\ j \in 1 .. Len(events)
      BY <1>1, <2>1
    <3>2. events[i] < events[j]
      BY <1>1, <3>1 DEF Rising
    <3> QED
      BY <1>3, <3>1, <3>2
  <2>2. CASE i <= Len(events) /\ j > Len(events)
    <3>1. i \in 1 .. Len(events)
      BY <1>1, <2>2
    <3>2. all[i] \in since + 1 .. cursor
      BY <1>1, <1>3, <3>1
    <3>3. all[j] = cursor + (j - Len(events))
      BY <1>4, <2>2
    <3> QED
      BY <1>1, <2>2, <3>2, <3>3
  <2>3. CASE i > Len(events)
    <3>1. j > Len(events)
      BY <1>1, <2>3
    <3>2. all[i] = cursor + (i - Len(events)) /\ all[j] = cursor + (j - Len(events))
      BY <1>4, <2>3, <3>1
    <3> QED
      BY <1>1, <3>2
  <2> QED
    BY <1>1, <2>1, <2>2, <2>3
<1>6. \A i \in 1 .. Len(all) : all[i] \in since + 1 .. to
  <2> SUFFICES ASSUME NEW i \in 1 .. Len(all) PROVE all[i] \in since + 1 .. to
    OBVIOUS
  <2>1. CASE i <= Len(events)
    <3>1. i \in 1 .. Len(events)
      BY <1>1, <2>1
    <3>2. all[i] \in since + 1 .. cursor
      BY <1>1, <1>3, <3>1
    <3> QED
      BY <1>1, <3>2
  <2>2. CASE i > Len(events)
    <3>1. all[i] = cursor + (i - Len(events)) /\ i - Len(events) \in 1 .. to - cursor
      BY <1>4, <2>2
    <3> QED
      BY <1>1, <3>1
  <2> QED
    BY <1>1, <2>1, <2>2
<1>7. ASSUME NEW s \in since + 1 .. to, entries[s] = "room"
      PROVE  \/ \E i \in 1 .. Len(all) : all[i] = s
             \/ Len(all) >= EventLimit /\ s < all[1]
  <2>1. CASE s <= cursor
    <3>1. \/ \E i \in 1 .. Len(events) : events[i] = s
          \/ Len(events) >= EventLimit /\ s < events[1]
      BY <1>1, <1>7, <2>1 DEF Lists
    <3>2. CASE \E i \in 1 .. Len(events) : events[i] = s
      BY <1>3, <3>2
    <3>3. CASE Len(events) >= EventLimit /\ s < events[1]
      <4>1. EventLimit \in Nat \ {0} /\ 1 \in 1 .. Len(events)
        <5>1. EventLimit \in Nat \ {0}
          BY LimitAssumption
        <5> QED
          BY <1>1, <3>3, <5>1
      <4>2. all[1] = events[1] /\ Len(all) >= EventLimit
        BY <1>1, <1>2, <1>3, <3>3, <4>1
      <4> QED
        BY <3>3, <4>2
    <3> QED
      BY <3>1, <3>2, <3>3
  <2>2. CASE s > cursor
    <3> DEFINE i == Len(events) + (s - cursor)
    <3>1. i \in 1 .. Len(all) /\ i > Len(events) /\ cursor + (i - Len(events)) = s
      BY <1>1, <1>2, <2>2
    <3> HIDE DEF i
    <3>2. all[i] = s
      BY <1>4, <3>1
    <3> QED
      BY <3>1, <3>2
  <2> QED
    BY <1>1, <2>1, <2>2
<1>8. Lists(entries, all, since, to)
  <2>1. \A s \in since + 1 .. to : entries[s] = "room" =>
          \/ \E i \in 1 .. Len(all) : all[i] = s
          \/ Len(all) >= EventLimit /\ s < all[1]
    BY <1>7
  <2>2. since <= to
    BY <1>1
  <2> QED
    BY <1>1, <1>2, <1>5, <1>6, <2>1, <2>2 DEF Lists
<1> QED
  BY <1>8 DEF all

LEMMA RecentLists ==
  ASSUME NEW cursor \in Nat
  PROVE  Lists(log, Recent(cursor), Larger(0, cursor - RecentLimit), cursor)
<1> DEFINE first == Larger(0, cursor - RecentLimit)
           read == [i \in 1 .. cursor - first |-> first + i]
           roomy == {s \in 1 .. cursor : log[s] = "room"}
           found == Select(read, roomy)
<1>1. first \in Nat /\ first <= cursor /\ cursor - first \in Nat
  BY LimitAssumption DEF Larger
<1> HIDE DEF first
<1>2. Len(read) = cursor - first /\ Rising(read)
  <2>1. first + (cursor - first) <= cursor
    BY <1>1
  <2> QED
    BY <1>1, <2>1, CountUp
<1>3. \A i \in 1 .. cursor - first : read[i] = first + i
  OBVIOUS
<1>4. read \in [1 .. cursor - first -> first + 1 .. cursor]
  BY <1>1
<1> HIDE DEF read, roomy
<1> DEFINE S == first + 1 .. cursor
<1>5. read \in Seq(S) /\ S \in SUBSET Nat
  BY <1>1, <1>4
<1> HIDE DEF S
<1>6. /\ found \in Seq(S) /\ Rising(found)
      /\ \A i \in 1 .. Len(read) : read[i] \in roomy => \E j \in 1 .. Len(found) : found[j] = read[i]
  BY <1>2, <1>5, SelectKeeps
<1> HIDE DEF found
<1>7. \A i \in 1 .. Len(found) : found[i] \in first + 1 .. cursor
  <2>1. \A i \in 1 .. Len(found) : found[i] \in S
    BY <1>6
  <2> QED
    BY <2>1 DEF S
<1>8. ASSUME NEW s \in first + 1 .. cursor, log[s] = "room"
      PROVE  \E j \in 1 .. Len(found) : found[j] = s
  <2>1. s \in roomy
    BY <1>1, <1>8 DEF roomy
  <2> DEFINE i == s - first
  <2>2. i \in 1 .. Len(read) /\ read[i] = s
    BY <1>1, <1>2, <1>3
  <2> HIDE DEF i
  <2> QED
    BY <1>6, <2>1, <2>2
<1>9. found \in Seq(Nat)
  <2>1. found \in [1 .. Len(found) -> Nat] /\ Len(found) \in Nat
    BY <1>1, <1>6, <1>7
  <2> QED
    BY <2>1
<1>10. Recent(cursor) = found
  BY DEF Recent, found, read, roomy, first
<1>11. Lists(log, found, first, cursor)
  <2>1. \A s \in first + 1 .. cursor :
          log[s] = "room" => \E j \in 1 .. Len(found) : found[j] = s
    BY <1>8
  <2> QED
    BY <1>1, <1>6, <1>7, <1>9, <2>1 DEF Lists
<1> QED
  BY <1>10, <1>11 DEF first

-----------------------------------------------------------------------------
(* The view.                                                                *)
LEMMA TimelineEnough == ViewInv => TimelineComplete
<1> SUFFICES ASSUME ViewInv PROVE TimelineComplete
  OBVIOUS
<1> DEFINE e == view.events
<1>1. Len(e) <= EventLimit /\ e \in Seq(1 .. MaxEvents) /\ view.cursor <= Len(log)
      /\ Len(log) \in Nat
  BY DEF ViewInv, TypeOK, View, NotAhead, Cursors
<1>2. /\ view.since \in Nat /\ view.cursor \in Nat /\ Rising(e) /\ Len(e) \in Nat
      /\ \A i \in 1 .. Len(e) : e[i] \in view.since + 1 .. view.cursor
      /\ \A s \in view.since + 1 .. view.cursor :
           log[s] = "room" => \/ \E i \in 1 .. Len(e) : e[i] = s
                              \/ Len(e) >= EventLimit /\ s < e[1]
  BY <1>1 DEF ViewInv, Listed, Lists
<1>3. EventLimit \in Nat
  BY LimitAssumption
<1> HIDE DEF e
<1>4. \A i \in 2 .. Len(e) : e[i - 1] < e[i]
  <2> SUFFICES ASSUME NEW i \in 2 .. Len(e) PROVE e[i - 1] < e[i]
    OBVIOUS
  <2>1. i - 1 \in 1 .. Len(e) /\ i \in 1 .. Len(e) /\ i - 1 < i
    BY <1>2
  <2> QED
    BY <1>2, <2>1 DEF Rising
<1>5. \A s \in view.since + 1 .. view.cursor :
        log[s] = "room" => \/ s \in {e[i] : i \in 1 .. Len(e)}
                           \/ Len(e) = EventLimit /\ s < e[1]
  <2> SUFFICES ASSUME NEW s \in view.since + 1 .. view.cursor, log[s] = "room"
               PROVE  \/ s \in {e[i] : i \in 1 .. Len(e)}
                      \/ Len(e) = EventLimit /\ s < e[1]
    OBVIOUS
  <2>1. CASE \E i \in 1 .. Len(e) : e[i] = s
    BY <2>1
  <2>2. CASE Len(e) >= EventLimit /\ s < e[1]
    BY <1>1, <1>2, <1>3, <2>2
  <2> QED
    BY <1>2, <2>1, <2>2
<1> QED
  BY <1>1, <1>2, <1>4, <1>5 DEF TimelineComplete, e

LEMMA ViewInitInv == Init => ViewInv
<1> SUFFICES ASSUME Init PROVE ViewInv
  OBVIOUS
<1>1. /\ log = <<>> /\ Len(log) = 0 /\ Len(view.events) = 0 /\ view.events = <<>>
      /\ view.cursor = 0 /\ view.since = 0 /\ MaxEvents \in Nat /\ MaxCommands \in Nat
      /\ MaxCommands <= MaxEvents /\ MaxFailures \in Nat /\ MaxClears \in Nat /\ CatchUps \in Nat
      /\ EventLimit \in Nat
  BY LimitAssumption DEF Init
<1>2. TypeOK
  <2>1. view \in View /\ command \in Command
    BY <1>1 DEF Init, View, Cursors, Command, NoCommand, CommandKinds
  <2>2. pump \in Pump
    BY <1>1 DEF Init, Pump, Cursors, Between
  <2>3. spent \in [commands : 0 .. MaxCommands, failures : 0 .. MaxFailures, clears : 0 .. MaxClears]
    BY <1>1 DEF Init
  <2> QED
    BY <1>1, <2>1, <2>2, <2>3 DEF TypeOK
<1>3. Listed
  BY <1>1 DEF Listed, Lists, Rising
<1>4. Fetched /\ NotAhead
  BY <1>1 DEF Init, Fetched, Read, NotAhead, Between, NoCommand
<1>5. Reserved
  BY <1>1 DEF Init, Reserved, Owed, NoCommand
<1> QED
  BY <1>2, <1>3, <1>4, <1>5 DEF ViewInv

LEMMA SnapshotShown ==
  ASSUME NEW v, NEW cursor \in Cursors
  PROVE  LET shown == ReceiveSnapshot(v, cursor) IN
         /\ shown \in View /\ Len(shown.events) <= EventLimit /\ shown.cursor = cursor
         /\ Lists(log, shown.events, shown.since, shown.cursor)
<1> DEFINE shown == ReceiveSnapshot(v, cursor)
           since == Larger(0, cursor - RecentLimit)
           events == Last(Recent(cursor), EventLimit)
<1>1. MaxEvents \in Nat /\ RecentLimit \in Nat /\ cursor \in Nat /\ cursor <= MaxEvents
  BY LimitAssumption DEF Cursors
<1>2. Lists(log, events, since, cursor) /\ Len(events) <= EventLimit
  BY <1>1, RecentLists, CutLists
<1> HIDE DEF events
<1>3. events \in Seq(1 .. MaxEvents)
  BY <1>1, <1>2, ListsTyped
<1>4. since \in Cursors
  BY <1>1 DEF Larger, Cursors
<1> HIDE DEF since
<1>5. shown = [cursor |-> cursor, events |-> events, since |-> since,
               connection |-> "connected", loaded |-> TRUE]
  BY DEF ReceiveSnapshot, events, since
<1> HIDE DEF shown
<1>6. shown \in View
  BY <1>3, <1>4, <1>5 DEF View
<1> QED
  BY <1>2, <1>5, <1>6 DEF shown

LEMMA EventsShown ==
  ASSUME NEW v \in View, Len(v.events) <= EventLimit, Lists(log, v.events, v.since, v.cursor),
         NEW update, update.cursor \in Cursors, update.events \in Seq(1 .. MaxEvents),
         Rising(update.events)
  PROVE  LET shown == ReceiveEvents(v, update) IN
         /\ shown \in View /\ Len(shown.events) <= EventLimit
         /\ shown.cursor \in {v.cursor, update.cursor}
         /\ Lists(log, shown.events, shown.since, shown.cursor)
<1> DEFINE shown == ReceiveEvents(v, update)
<1>1. CASE ~Contiguous(v.cursor, update)
  <2>1. shown = [v EXCEPT !.connection = "resyncing"]
    BY <1>1 DEF ReceiveEvents
  <2> HIDE DEF shown
  <2>2. shown \in View
    BY <2>1 DEF View
  <2>3. shown.events = v.events /\ shown.since = v.since /\ shown.cursor = v.cursor
    BY <2>1 DEF View
  <2> QED
    BY <2>2, <2>3 DEF shown
<1>2. CASE Contiguous(v.cursor, update)
  <2> DEFINE fresh == After(v.cursor, update.events)
             events == Last(v.events \o fresh, EventLimit)
  <2>1. MaxEvents \in Nat /\ v.cursor \in Nat /\ update.cursor \in Nat
        /\ update.cursor <= MaxEvents /\ v.cursor <= update.cursor
    BY <1>2, LimitAssumption DEF Cursors, View, Contiguous
  <2>2. fresh \in Seq(1 .. MaxEvents)
    <3>1. 1 .. MaxEvents \in SUBSET Nat
      BY <2>1
    <3> QED
      BY <3>1, AfterTyped
  <2> HIDE DEF fresh
  <2>3. fresh \in Seq(Nat)
    <3>1. fresh \in [1 .. Len(fresh) -> Nat] /\ Len(fresh) \in Nat
      BY <2>1, <2>2
    <3> QED
      BY <3>1
  <2>4. Len(fresh) = update.cursor - v.cursor /\ \A i \in 1 .. Len(fresh) : fresh[i] = v.cursor + i
    BY <1>2, <2>1, <2>3, ContiguousEvents DEF fresh
  <2>5. Lists(log, v.events \o fresh, v.since, update.cursor)
    BY <2>1, <2>3, <2>4, AppendLists
  <2>6. Lists(log, events, v.since, update.cursor) /\ Len(events) <= EventLimit
    BY <2>5, CutLists
  <2> HIDE DEF events
  <2>7. events \in Seq(1 .. MaxEvents)
    BY <2>1, <2>6, ListsTyped
  <2>8. shown = [v EXCEPT !.events = events, !.cursor = update.cursor, !.connection = "connected"]
    BY <1>2 DEF ReceiveEvents, events, fresh
  <2> HIDE DEF shown
  <2>9. shown \in View
    BY <2>7, <2>8 DEF View
  <2>10. shown.events = events /\ shown.since = v.since /\ shown.cursor = update.cursor
    BY <2>8 DEF View
  <2> QED
    BY <2>6, <2>9, <2>10 DEF shown
<1> QED
  BY <1>1, <1>2

(* An event that is committed disturbs no list of earlier ones.            *)
LEMMA Committed ==
  ASSUME ViewInv, NEW kind \in EventKinds, Commit(kind), Len(log) < MaxEvents
  PROVE  /\ log' \in Seq(EventKinds) /\ Len(log') = Len(log) + 1 /\ Len(log') <= MaxEvents
         /\ Lists(log', view.events, view.since, view.cursor)
<1>1. log \in Seq(EventKinds) /\ view.cursor \in 0 .. Len(log) /\ Len(log) \in Nat
      /\ MaxEvents \in Nat
  BY LimitAssumption DEF ViewInv, TypeOK, NotAhead
<1>2. log' = Append(log, kind)
  BY DEF Commit
<1>3. log' \in Seq(EventKinds) /\ Len(log') = Len(log) + 1
      /\ \A s \in 1 .. Len(log) : log'[s] = log[s]
  BY <1>1, <1>2, AppendProperties
<1>4. \A s \in 1 .. view.cursor : log'[s] = log[s]
  BY <1>1, <1>3
<1>5. Lists(log, view.events, view.since, view.cursor)
  BY DEF ViewInv, Listed
<1>6. Lists(log', view.events, view.since, view.cursor)
  BY <1>4, <1>5, GrownLists
<1> QED
  BY <1>1, <1>3, <1>6

(* The bounds, out of the assumption about the constants.                  *)
LEMMA Limits ==
  /\ {MaxEvents, MaxCommands, MaxFailures, MaxClears, CatchUps} \subseteq Nat
  /\ {RecentLimit, PageLimit, MaxBacklog, EventLimit} \subseteq Nat \ {0}
  /\ MaxCommands <= MaxEvents
BY LimitAssumption

(* What a step keeps if only the events grow, or the view does.             *)
LEMMA ProgressInv == ViewInv /\ Progress => ViewInv'
<1> SUFFICES ASSUME ViewInv, Progress PROVE ViewInv'
  OBVIOUS
<1>1. Len(log) + Owed < MaxEvents /\ Len(log) \in Nat /\ Owed \in Nat
      /\ UNCHANGED <<view, pump, command, spent>>
  <2>1. /\ Len(log) + Owed < MaxEvents /\ Len(log) \in Nat
        /\ spent.commands \in 0 .. MaxCommands /\ UNCHANGED <<view, pump, command, spent>>
    BY DEF ViewInv, TypeOK, Progress, Owed
  <2>2. MaxCommands - spent.commands \in Nat
    BY <2>1, Limits
  <2> QED
    BY <2>1, <2>2 DEF Owed
<1>2. PICK kind \in EventKinds : Commit(kind)
  BY DEF Progress
<1>3. Len(log) < MaxEvents
  BY <1>1, Limits
<1>4. /\ log' \in Seq(EventKinds) /\ Len(log') = Len(log) + 1 /\ Len(log') <= MaxEvents
      /\ Lists(log', view.events, view.since, view.cursor)
  BY <1>2, <1>3, Committed
<1>5. TypeOK'
  BY <1>1, <1>4 DEF ViewInv, TypeOK
<1>6. Listed'
  BY <1>1, <1>4 DEF Listed
<1>7. Fetched'
  <2>1. pump.committed <= Len(log) => pump.committed <= Len(log) + 1
    BY <1>1 DEF ViewInv, TypeOK, Pump, Cursors
  <2> QED
    BY <1>1, <1>4, <2>1 DEF ViewInv, Fetched, Read
<1>8. NotAhead'
  <2>1. /\ view.cursor <= Len(log) + 1 /\ pump.cursor <= Len(log) + 1
        /\ (pump.pc = "show" => pump.snapshot <= Len(log) + 1)
        /\ (command.pc = "show" => command.snapshot <= Len(log) + 1)
        /\ view.cursor \in Nat /\ pump.cursor \in Nat
    <3>1. /\ {view.cursor, pump.cursor} \subseteq 0 .. Len(log)
          /\ pump.snapshot \in Cursors /\ command.snapshot \in Cursors
          /\ (pump.pc = "show" => pump.snapshot <= Len(log))
          /\ (command.pc = "show" => command.snapshot <= Len(log))
      BY DEF ViewInv, TypeOK, Pump, Command, NotAhead
    <3>2. pump.snapshot \in Nat /\ command.snapshot \in Nat
      BY <3>1, Limits DEF Cursors
    <3>3. view.cursor \in 0 .. Len(log) /\ pump.cursor \in 0 .. Len(log)
      BY <3>1
    <3> QED
      BY <1>1, <3>1, <3>2, <3>3
  <2> QED
    BY <1>1, <1>4, <2>1 DEF NotAhead
<1>9. Reserved'
  BY <1>1, <1>4, Limits DEF Reserved, Owed
<1> QED
  BY <1>5, <1>6, <1>7, <1>8, <1>9 DEF ViewInv

LEMMA ClearInv == ViewInv /\ ClearLocal => ViewInv'
<1> SUFFICES ASSUME ViewInv, ClearLocal PROVE ViewInv'
  OBVIOUS
<1>1. /\ view' = [view EXCEPT !.events = <<>>, !.since = view.cursor]
      /\ view \in View /\ UNCHANGED <<log, pump, command>>
  BY DEF ClearLocal, ViewInv, TypeOK
<1>2. /\ view' \in View /\ view'.events = <<>> /\ view'.cursor = view.cursor
      /\ view'.since = view.cursor
  <2>1. <<>> \in Seq(1 .. MaxEvents) /\ view.cursor \in Cursors
    BY <1>1 DEF View
  <2>2. view' \in View
    BY <1>1, <2>1 DEF View
  <2> QED
    BY <1>1, <2>2 DEF View
<1>3. TypeOK'
  <2>1. spent' \in [commands : 0 .. MaxCommands, failures : 0 .. MaxFailures, clears : 0 .. MaxClears]
    <3>1. /\ spent \in [commands : 0 .. MaxCommands, failures : 0 .. MaxFailures, clears : 0 .. MaxClears]
          /\ spent' = [spent EXCEPT !.clears = @ + 1] /\ spent.clears < MaxClears
      BY DEF ViewInv, TypeOK, ClearLocal
    <3>2. spent.clears + 1 \in 0 .. MaxClears
      BY <3>1, Limits
    <3> QED
      BY <3>1, <3>2
  <2> QED
    BY <1>1, <1>2, <2>1, Limits DEF ViewInv, TypeOK
<1>4. Listed'
  <2>1. view.cursor \in Nat
    BY <1>1, Limits DEF View, Cursors
  <2> QED
    BY <1>1, <1>2, <2>1 DEF Listed, Lists, Rising
<1>5. Fetched' /\ NotAhead'
  BY <1>1, <1>2 DEF ViewInv, Fetched, Read, NotAhead
<1>6. Reserved'
  <2>1. spent'.commands = spent.commands
    BY DEF ViewInv, TypeOK, ClearLocal
  <2> QED
    BY <1>1, <2>1 DEF ViewInv, Reserved, Owed
<1> QED
  BY <1>3, <1>4, <1>5, <1>6 DEF ViewInv

(* A step of the pump that leaves the view and the commands alone.          *)
LEMMA PumpKeeps ==
  ASSUME ViewInv, UNCHANGED <<log, view, command, spent>>,
         pump' \in Pump, pump'.cursor = pump.cursor, Fetched',
         pump'.pc = "show" => pump'.snapshot <= Len(log)
  PROVE  ViewInv'
<1>1. TypeOK'
  BY DEF ViewInv, TypeOK
<1>2. Listed'
  BY DEF ViewInv, Listed
<1>3. NotAhead'
  BY DEF ViewInv, NotAhead
<1>4. Reserved'
  BY DEF ViewInv, Reserved, Owed
<1> QED
  BY <1>1, <1>2, <1>3, <1>4 DEF ViewInv

LEMMA LoadReadInv == ViewInv /\ LoadRead => ViewInv'
<1> SUFFICES ASSUME ViewInv, LoadRead PROVE ViewInv'
  OBVIOUS
<1>1. /\ pump' = [pump EXCEPT !.pc = "show", !.snapshot = Len(log)] /\ pump \in Pump
      /\ Len(log) \in Cursors /\ UNCHANGED <<log, view, command, spent>>
  BY Limits DEF LoadRead, ViewInv, TypeOK, Cursors
<1>2. pump' \in Pump /\ pump'.cursor = pump.cursor /\ pump'.pc = "show" /\ pump'.snapshot = Len(log)
  BY <1>1 DEF Pump
<1>3. Fetched'
  BY <1>2 DEF Fetched, Read
<1>4. Len(log) <= Len(log)
  BY DEF ViewInv, TypeOK
<1> QED
  BY <1>1, <1>2, <1>3, <1>4, PumpKeeps

LEMMA LoadShownInv == ViewInv /\ LoadShown => ViewInv'
<1> SUFFICES ASSUME ViewInv, LoadShown PROVE ViewInv'
  OBVIOUS
<1>1. /\ view' = ReceiveSnapshot(view, pump.snapshot) /\ pump' = Between("poll", pump.snapshot)
      /\ UNCHANGED <<log, command, spent>> /\ pump.snapshot <= Len(log)
  BY DEF LoadShown, ViewInv, NotAhead
<1>2. pump.snapshot \in Cursors
  BY DEF ViewInv, TypeOK, Pump
<1>3. /\ view' \in View /\ Len(view'.events) <= EventLimit /\ view'.cursor = pump.snapshot
      /\ Lists(log, view'.events, view'.since, view'.cursor)
  BY <1>1, <1>2, SnapshotShown
<1>4. pump' \in Pump /\ pump'.pc = "poll" /\ pump'.cursor = pump.snapshot
  BY <1>1, <1>2, Limits DEF Between, Pump, Cursors
<1>5. TypeOK'
  BY <1>1, <1>3, <1>4 DEF ViewInv, TypeOK
<1>6. Listed'
  BY <1>1, <1>3 DEF Listed
<1>7. Fetched'
  BY <1>4 DEF Fetched, Read
<1>8. NotAhead'
  <2>1. pump.snapshot \in 0 .. Len(log)
    BY <1>1, <1>2, Limits DEF Cursors, ViewInv, TypeOK
  <2> QED
    BY <1>1, <1>3, <1>4, <2>1 DEF ViewInv, NotAhead
<1>9. Reserved'
  BY <1>1 DEF ViewInv, Reserved, Owed
<1> QED
  BY <1>5, <1>6, <1>7, <1>8, <1>9 DEF ViewInv

(* A page counts up from the cursor that it was asked for.                  *)
LEMMA PageCountsUp ==
  ASSUME ViewInv, NEW after \in 0 .. Len(log), NEW limit \in Nat
  PROVE  \E n \in Nat : /\ n <= limit /\ after + n <= Len(log)
                        /\ Replay(after, limit) = [i \in 1 .. n |-> after + i]
                        /\ after < Len(log) /\ limit > 0 => n > 0
<1> DEFINE n == Smaller(limit, Len(log) - after)
<1>1. Len(log) \in Nat
  BY DEF ViewInv, TypeOK
<1>2. n \in Nat /\ n <= limit /\ after + n <= Len(log) /\ (after < Len(log) /\ limit > 0 => n > 0)
  BY <1>1 DEF Smaller
<1>3. Replay(after, limit) = [i \in 1 .. n |-> after + i]
  BY DEF Replay
<1> QED
  BY <1>2, <1>3

LEMMA PageEnd ==
  ASSUME NEW after \in Nat, NEW n \in Nat
  PROVE  PageCursor(after, [i \in 1 .. n |-> after + i]) = after + n
<1> DEFINE page == [i \in 1 .. n |-> after + i]
<1>1. page \in [1 .. n -> Nat]
  OBVIOUS
<1>2. page \in Seq(Nat) /\ Len(page) = n
  BY <1>1
<1>3. CASE n = 0
  <2>1. page = <<>>
    BY <1>2, <1>3
  <2> QED
    BY <1>3, <2>1 DEF PageCursor
<1>4. CASE n # 0
  <2>1. n \in 1 .. n
    BY <1>4
  <2>2. page # <<>> /\ page[n] = after + n
    BY <1>2, <1>4, <2>1
  <2> HIDE DEF page
  <2>3. PageCursor(after, page) = after + n
    BY <1>2, <2>2 DEF PageCursor
  <2> QED
    BY <2>3 DEF page
<1> QED
  BY <1>3, <1>4

LEMMA PollInv == ViewInv /\ Poll => ViewInv'
<1> SUFFICES ASSUME ViewInv, Poll PROVE ViewInv'
  OBVIOUS
<1> DEFINE page == SubSeq(Backlog, 1, Smaller(PageLimit, Len(Backlog)))
<1>1. /\ pump \in Pump /\ pump.cursor \in 0 .. Len(log) /\ Len(log) \in Nat /\ Len(log) <= MaxEvents
      /\ UNCHANGED <<log, view, command, spent>> /\ PageLimit \in Nat /\ MaxBacklog \in Nat
      /\ MaxEvents \in Nat /\ CatchUps \in Nat
  BY Limits DEF Poll, ViewInv, TypeOK, NotAhead
<1>2. PICK tooMuch \in BOOLEAN :
        pump' = [pump EXCEPT !.pc = "reload", !.pages = 0, !.resync = tooMuch,
                             !.events = IF tooMuch THEN <<>> ELSE page,
                             !.committed = IF tooMuch THEN pump.cursor
                                           ELSE PageCursor(pump.cursor, page)]
  BY DEF Poll
<1>3. PICK n \in Nat : pump.cursor + n <= Len(log) /\ page = [i \in 1 .. n |-> pump.cursor + i]
  <2>1. PICK m \in Nat : pump.cursor + m <= Len(log) /\ Backlog = [i \in 1 .. m |-> pump.cursor + i]
    <3>1. MaxBacklog + 1 \in Nat
      BY <1>1
    <3> QED
      BY <1>1, <3>1, PageCountsUp DEF Backlog
  <2>2. Backlog \in [1 .. m -> Nat] /\ pump.cursor \in Nat
    BY <1>1, <2>1
  <2>3. Backlog \in Seq(Nat) /\ Len(Backlog) = m
    BY <2>2
  <2> DEFINE n == Smaller(PageLimit, m)
  <2>4. n \in Nat /\ n <= m
    BY <1>1, <2>1 DEF Smaller
  <2> HIDE DEF n
  <2>5. \A i \in 1 .. n : Backlog[i] \in Nat /\ Backlog[i] = pump.cursor + i
    BY <2>1, <2>2, <2>4
  <2>6. /\ SubSeq(Backlog, 1, n) \in Seq(Nat) /\ Len(SubSeq(Backlog, 1, n)) = n
        /\ \A i \in 1 .. n : SubSeq(Backlog, 1, n)[i] = Backlog[i]
    BY <2>4, <2>5, SubSeqProperties
  <2>7. page = SubSeq(Backlog, 1, n)
    BY <2>3 DEF n
  <2> HIDE DEF page
  <2>8. page = [i \in 1 .. n |-> page[i]]
    BY <2>4, <2>6, <2>7
  <2>9. page = [i \in 1 .. n |-> pump.cursor + i]
    BY <2>5, <2>6, <2>7, <2>8
  <2>10. pump.cursor + n <= Len(log)
    BY <1>1, <2>1, <2>2, <2>4
  <2> QED
    BY <2>4, <2>9, <2>10
<1> HIDE DEF page
<1>4. page \in Seq(1 .. MaxEvents) /\ Len(page) = n
  BY <1>1, <1>3, CountUp
<1>5. PageCursor(pump.cursor, page) = pump.cursor + n
  BY <1>1, <1>3, PageEnd
<1>6. CASE tooMuch
  <2>1. pump' = [pump EXCEPT !.pc = "reload", !.pages = 0, !.resync = TRUE, !.events = <<>>,
                             !.committed = pump.cursor]
    BY <1>2, <1>6
  <2>2. pump' \in Pump
    <3>1. pump.cursor \in Cursors /\ <<>> \in Seq(1 .. MaxEvents) /\ 0 \in 0 .. CatchUps
      BY <1>1 DEF Pump
    <3> QED
      BY <1>1, <2>1, <3>1 DEF Pump
  <2>3. /\ pump'.cursor = pump.cursor /\ pump'.pc = "reload" /\ pump'.events = <<>> /\ pump'.resync
        /\ pump'.committed = pump.cursor
    BY <1>1, <2>1 DEF Pump
  <2>4. Fetched'
    <3>1. <<>> = [i \in 1 .. Len(<<>>) |-> pump.cursor + i]
      OBVIOUS
    <3> QED
      BY <1>1, <2>3, <3>1 DEF Fetched
  <2> QED
    BY <1>1, <2>2, <2>3, <2>4, PumpKeeps
<1>7. CASE ~tooMuch
  <2>1. pump' = [pump EXCEPT !.pc = "reload", !.pages = 0, !.resync = FALSE, !.events = page,
                             !.committed = pump.cursor + n]
    BY <1>2, <1>5, <1>7
  <2>2. pump' \in Pump
    <3>1. pump.cursor + n \in Cursors /\ 0 \in 0 .. CatchUps
      BY <1>1, <1>3 DEF Cursors
    <3> QED
      BY <1>1, <1>4, <2>1, <3>1 DEF Pump
  <2>3. /\ pump'.cursor = pump.cursor /\ pump'.pc = "reload" /\ pump'.events = page /\ ~pump'.resync
        /\ pump'.committed = pump.cursor + n
    BY <1>1, <2>1 DEF Pump
  <2>4. Fetched'
    BY <1>1, <1>3, <1>4, <2>3 DEF Fetched
  <2> QED
    BY <1>1, <2>2, <2>3, <2>4, PumpKeeps
<1> QED
  BY <1>6, <1>7

LEMMA ReloadInv == ViewInv /\ Reload => ViewInv'
<1> SUFFICES ASSUME ViewInv, Reload PROVE ViewInv'
  OBVIOUS
<1> DEFINE behind == pump.committed < Len(log) /\ pump.pages < CatchUps
<1>1. /\ pump \in Pump /\ Len(log) \in Cursors /\ Len(log) \in Nat
      /\ UNCHANGED <<log, view, command, spent>> /\ Read /\ pump.pc = "reload"
  BY Limits DEF Reload, ViewInv, TypeOK, Cursors, Read
<1>2. /\ pump' \in Pump /\ pump'.cursor = pump.cursor /\ pump'.events = pump.events
      /\ pump'.resync = pump.resync /\ pump'.pages = pump.pages
      /\ pump'.committed = (IF pump.resync THEN Len(log) ELSE pump.committed)
      /\ pump'.pc = (IF behind /\ ~pump.resync THEN "history" ELSE "update")
  <2>1. pump' = [pump EXCEPT !.snapshot = Len(log),
                   !.pc = IF behind /\ ~pump.resync THEN "history" ELSE "update",
                   !.committed = IF pump.resync THEN Len(log) ELSE @]
    BY DEF Reload
  <2> DEFINE pc == IF behind /\ ~pump.resync THEN "history" ELSE "update"
             committed == IF pump.resync THEN Len(log) ELSE pump.committed
  <2>2. committed \in Cursors /\ pc \in {"history", "update"}
    BY <1>1 DEF Pump
  <2>3. pump' = [pump EXCEPT !.snapshot = Len(log), !.pc = pc, !.committed = committed]
    BY <2>1
  <2> HIDE DEF pc, committed
  <2>4. pump' \in Pump
    BY <1>1, <2>2, <2>3 DEF Pump
  <2>5. /\ pump'.cursor = pump.cursor /\ pump'.events = pump.events
        /\ pump'.resync = pump.resync /\ pump'.pages = pump.pages
        /\ pump'.committed = committed /\ pump'.pc = pc
    BY <1>1, <2>3 DEF Pump
  <2> QED
    BY <2>4, <2>5 DEF pc, committed
<1>3. /\ pump.committed <= Len(log)
      /\ pump.events = [i \in 1 .. Len(pump.events) |-> pump.cursor + i]
      /\ IF pump.resync THEN pump.events = <<>>
         ELSE pump.committed = pump.cursor + Len(pump.events)
  BY <1>1 DEF ViewInv, Fetched
<1>4. Fetched'
  <2>1. pump'.committed <= Len(log)
    BY <1>1, <1>2, <1>3
  <2>2. pump'.events = [i \in 1 .. Len(pump'.events) |-> pump'.cursor + i]
    BY <1>2, <1>3
  <2>3. CASE pump.resync
    <3>1. pump'.resync /\ pump'.pc = "update" /\ pump'.events = <<>>
      BY <1>2, <1>3, <2>3
    <3> QED
      BY <1>1, <2>1, <2>2, <3>1 DEF Fetched
  <2>4. CASE ~pump.resync
    <3>1. ~pump'.resync /\ (pump'.pc = "history" => pump'.pages < CatchUps)
          /\ pump'.committed = pump'.cursor + Len(pump'.events)
      BY <1>2, <1>3, <2>4
    <3> QED
      BY <1>1, <2>1, <2>2, <3>1 DEF Fetched
  <2> QED
    BY <2>3, <2>4
<1> QED
  BY <1>1, <1>2, <1>4, PumpKeeps

LEMMA HistoryInv == ViewInv /\ History => ViewInv'
<1> SUFFICES ASSUME ViewInv, History PROVE ViewInv'
  OBVIOUS
<1> DEFINE page == Replay(pump.committed, PageLimit)
<1>1. /\ pump \in Pump /\ Len(log) \in Nat /\ Len(log) <= MaxEvents /\ MaxEvents \in Nat
      /\ UNCHANGED <<log, view, command, spent>> /\ PageLimit \in Nat /\ CatchUps \in Nat
      /\ pump' = [pump EXCEPT !.pc = "reload", !.pages = @ + 1, !.events = @ \o page,
                              !.committed = PageCursor(@, page)]
  BY Limits DEF History, ViewInv, TypeOK
<1>2. /\ pump.committed <= Len(log) /\ pump.committed = pump.cursor + Len(pump.events)
      /\ pump.events = [i \in 1 .. Len(pump.events) |-> pump.cursor + i]
      /\ ~pump.resync /\ pump.pages < CatchUps
  BY DEF ViewInv, History, Fetched, Read
<1>3. /\ pump.committed \in Nat /\ pump.cursor \in Nat /\ Len(pump.events) \in Nat
      /\ pump.events \in Seq(1 .. MaxEvents) /\ pump.pages \in 0 .. CatchUps
  BY <1>1 DEF Pump, Cursors
<1>4. PICK n \in Nat : pump.committed + n <= Len(log)
                       /\ page = [i \in 1 .. n |-> pump.committed + i]
  <2>1. pump.committed \in 0 .. Len(log)
    BY <1>1, <1>2, <1>3
  <2> QED
    BY <1>1, <2>1, PageCountsUp
<1> HIDE DEF page
<1>5. page \in Seq(1 .. MaxEvents) /\ Len(page) = n
  <2>1. pump.committed + n <= MaxEvents
    BY <1>1, <1>3, <1>4
  <2> QED
    BY <1>1, <1>3, <1>4, <2>1, CountUp
<1>6. PageCursor(pump.committed, page) = pump.committed + n
  BY <1>3, <1>4, PageEnd
<1> DEFINE all == pump.events \o page
<1>7. /\ all \in Seq(1 .. MaxEvents) /\ Len(all) = Len(pump.events) + n
      /\ \A i \in 1 .. Len(pump.events) + n :
           all[i] = IF i <= Len(pump.events) THEN pump.events[i] ELSE page[i - Len(pump.events)]
  BY <1>3, <1>5, ConcatProperties, Zenon
<1> HIDE DEF all
<1>8. all = [i \in 1 .. Len(all) |-> pump.cursor + i]
  <2>1. all = [i \in 1 .. Len(all) |-> all[i]]
    BY <1>7
  <2>2. ASSUME NEW i \in 1 .. Len(all) PROVE all[i] = pump.cursor + i
    <3>1. CASE i <= Len(pump.events)
      <4>1. i \in 1 .. Len(pump.events) /\ i \in 1 .. Len(pump.events) + n
        BY <1>3, <1>7, <3>1
      <4> QED
        BY <1>2, <1>7, <3>1, <4>1
    <3>2. CASE i > Len(pump.events)
      <4>1. i - Len(pump.events) \in 1 .. n /\ i \in 1 .. Len(pump.events) + n
        BY <1>3, <1>7, <3>2
      <4>2. all[i] = page[i - Len(pump.events)]
        BY <1>3, <1>7, <3>2, <4>1
      <4>3. page[i - Len(pump.events)] = pump.committed + (i - Len(pump.events))
        BY <1>4, <4>1
      <4>4. pump.committed + (i - Len(pump.events)) = pump.cursor + i
        <5>1. i \in Nat /\ pump.committed = pump.cursor + Len(pump.events)
          BY <1>2, <1>7
        <5>2. pump.cursor \in Nat /\ Len(pump.events) \in Nat
          BY <1>3
        <5> QED
          BY <5>1, <5>2
      <4> QED
        BY <4>2, <4>3, <4>4
    <3> QED
      BY <1>3, <3>1, <3>2
  <2> QED
    BY <2>1, <2>2
<1>9. /\ pump' \in Pump /\ pump'.cursor = pump.cursor /\ pump'.events = all
      /\ pump'.resync = pump.resync /\ pump'.pc = "reload" /\ pump'.committed = pump.committed + n
  <2>1. pump' = [pump EXCEPT !.pc = "reload", !.pages = pump.pages + 1, !.events = all,
                             !.committed = pump.committed + n]
    BY <1>1, <1>6 DEF all
  <2>2. pump.pages + 1 \in 0 .. CatchUps /\ pump.committed + n \in Cursors
    <3>1. pump.pages + 1 \in 0 .. CatchUps
      BY <1>1, <1>2, <1>3
    <3>2. pump.committed + n \in Nat /\ pump.committed + n <= MaxEvents
      BY <1>1, <1>3, <1>4
    <3> QED
      BY <1>1, <3>1, <3>2 DEF Cursors
  <2>3. pump' \in Pump
    BY <1>1, <1>7, <2>1, <2>2 DEF Pump
  <2> QED
    BY <1>1, <2>1, <2>3 DEF Pump
<1>10. Fetched'
  <2>1. pump.committed + n = pump.cursor + Len(all)
    <3>1. pump.committed = pump.cursor + Len(pump.events) /\ Len(all) = Len(pump.events) + n
      BY <1>2, <1>7
    <3> QED
      BY <1>3, <3>1
  <2> QED
    BY <1>1, <1>2, <1>4, <1>8, <1>9, <2>1 DEF Fetched
<1> QED
  BY <1>1, <1>9, <1>10, PumpKeeps

(* A view that loses its connection keeps what it shows.                   *)
LEMMA Disconnected ==
  ASSUME NEW v \in View
  PROVE  /\ Unconnected(v) \in View /\ Unconnected(v).events = v.events
         /\ Unconnected(v).since = v.since /\ Unconnected(v).cursor = v.cursor
BY DEF Unconnected, View

LEMMA UpdateShownInv == ViewInv /\ UpdateShown => ViewInv'
<1> SUFFICES ASSUME ViewInv, UpdateShown PROVE ViewInv'
  OBVIOUS
<1> DEFINE shown == ReceiveEvents(view, Update)
<1>1. /\ pump \in Pump /\ view \in View /\ Len(view.events) <= EventLimit /\ Len(log) \in Nat
      /\ Lists(log, view.events, view.since, view.cursor)
      /\ UNCHANGED <<log, command, spent>>
      /\ view.cursor \in 0 .. Len(log) /\ pump.cursor \in 0 .. Len(log)
  BY DEF UpdateShown, ViewInv, TypeOK, NotAhead, Listed
<1>2. /\ pump.committed <= Len(log)
      /\ pump.events = [i \in 1 .. Len(pump.events) |-> pump.cursor + i]
  BY DEF UpdateShown, ViewInv, Fetched, Read
<1>3. /\ pump.committed \in Cursors /\ pump.cursor \in Cursors
      /\ pump.events \in Seq(1 .. MaxEvents) /\ Len(pump.events) \in Nat
  BY <1>1 DEF Pump
<1>4. Rising(pump.events)
  <2>1. pump.cursor \in Nat
    BY <1>1
  <2> DEFINE n == Len(pump.events)
  <2>2. \A i \in 1 .. n : pump.events[i] = pump.cursor + i
    BY <1>2
  <2> QED
    BY <1>3, <2>1, <2>2 DEF Rising
<1>5. Update.cursor = pump.committed /\ Update.events = pump.events
  BY DEF Update
<1>6. /\ shown \in View /\ Len(shown.events) <= EventLimit
      /\ shown.cursor \in {view.cursor, pump.committed}
      /\ Lists(log, shown.events, shown.since, shown.cursor)
  BY <1>1, <1>3, <1>4, <1>5, EventsShown
<1> HIDE DEF shown
<1>7. /\ view' \in View /\ view'.events = shown.events /\ view'.since = shown.since
      /\ view'.cursor = shown.cursor
  <2>1. view' = shown \/ view' = Unconnected(shown)
    BY DEF UpdateShown, shown
  <2> QED
    BY <1>6, <2>1, Disconnected
<1>8. /\ pump' \in Pump /\ pump'.pc \in {"poll", "load"}
      /\ pump'.cursor \in {pump.committed, pump.cursor}
  <2>1. PICK cursor \in {pump.committed, pump.cursor}, pc \in {"poll", "load"} :
          pump' = Between(pc, cursor)
    BY <1>5 DEF UpdateShown
  <2>2. cursor \in Cursors
    BY <1>3, <2>1
  <2>3. pump' \in Pump
    BY <2>1, <2>2, Limits DEF Between, Pump, Cursors
  <2> QED
    BY <2>1, <2>3 DEF Between
<1>9. TypeOK'
  BY <1>1, <1>6, <1>7, <1>8 DEF ViewInv, TypeOK
<1>10. Listed'
  BY <1>1, <1>6, <1>7 DEF Listed
<1>11. Fetched'
  BY <1>8 DEF Fetched, Read
<1>12. NotAhead'
  <2>1. pump.committed \in 0 .. Len(log)
    BY <1>1, <1>2, <1>3, Limits DEF Cursors
  <2> QED
    BY <1>1, <1>6, <1>7, <1>8, <2>1 DEF ViewInv, NotAhead
<1>13. Reserved'
  BY <1>1 DEF ViewInv, Reserved, Owed
<1> QED
  BY <1>9, <1>10, <1>11, <1>12, <1>13 DEF ViewInv

(* A view that is only told of its connection, and a pump that starts over. *)
LEMMA StartOver ==
  ASSUME ViewInv, view' = Unconnected(view), UNCHANGED <<log, command>>,
         NEW pc \in {"delay", "load"}, pump' = Between(pc, pump.cursor),
         spent' \in [commands : 0 .. MaxCommands, failures : 0 .. MaxFailures,
                     clears : 0 .. MaxClears],
         spent'.commands = spent.commands
  PROVE  ViewInv'
<1>1. /\ view' \in View /\ view'.events = view.events /\ view'.since = view.since
      /\ view'.cursor = view.cursor
  BY Disconnected DEF ViewInv, TypeOK
<1>2. pump' \in Pump /\ pump'.pc = pc /\ pump'.cursor = pump.cursor
  <2>1. pump.cursor \in Cursors
    BY DEF ViewInv, TypeOK, Pump
  <2> QED
    BY <2>1, Limits DEF Between, Pump, Cursors
<1>3. TypeOK'
  BY <1>1, <1>2 DEF ViewInv, TypeOK
<1>4. Listed'
  BY <1>1 DEF ViewInv, Listed
<1>5. Fetched' /\ NotAhead'
  BY <1>1, <1>2 DEF ViewInv, Fetched, Read, NotAhead
<1>6. Reserved'
  BY DEF ViewInv, Reserved, Owed
<1> QED
  BY <1>3, <1>4, <1>5, <1>6 DEF ViewInv

LEMMA PumpFailsInv == ViewInv /\ PumpFails => ViewInv'
<1> SUFFICES ASSUME ViewInv, PumpFails PROVE ViewInv'
  OBVIOUS
<1>1. /\ spent' \in [commands : 0 .. MaxCommands, failures : 0 .. MaxFailures, clears : 0 .. MaxClears]
      /\ spent'.commands = spent.commands
  <2>1. /\ spent \in [commands : 0 .. MaxCommands, failures : 0 .. MaxFailures, clears : 0 .. MaxClears]
        /\ spent' = [spent EXCEPT !.failures = @ + 1] /\ spent.failures < MaxFailures
    BY DEF ViewInv, TypeOK, PumpFails
  <2>2. spent.failures + 1 \in 0 .. MaxFailures
    BY <2>1, Limits
  <2> QED
    BY <2>1, <2>2
<1> QED
  BY <1>1, StartOver DEF PumpFails

LEMMA RetryInv == ViewInv /\ Retry => ViewInv'
BY StartOver DEF Retry, ViewInv, TypeOK

(* A command's step that leaves the view, the pump and the events alone.    *)
LEMMA CommandAlone ==
  ASSUME ViewInv, UNCHANGED <<log, view, pump>>, command' \in Command,
         command'.pc = "show" => command'.snapshot <= Len(log),
         spent' \in [commands : 0 .. MaxCommands, failures : 0 .. MaxFailures,
                     clears : 0 .. MaxClears],
         Owed' <= Owed
  PROVE  ViewInv'
<1>1. TypeOK'
  BY DEF ViewInv, TypeOK
<1>2. Listed' /\ Fetched' /\ NotAhead'
  BY DEF ViewInv, Listed, Fetched, Read, NotAhead
<1>3. Reserved'
  <2>1. Len(log) \in Nat /\ Owed \in Int /\ MaxEvents \in Nat
    <3>1. spent.commands \in 0 .. MaxCommands /\ Len(log) \in Nat
      BY DEF ViewInv, TypeOK
    <3>2. MaxCommands - spent.commands \in Int /\ MaxEvents \in Nat
      BY <3>1, Limits
    <3> QED
      BY <3>1, <3>2 DEF Owed
  <2>2. Owed' \in Int
    <3>1. spent'.commands \in 0 .. MaxCommands
      OBVIOUS
    <3> QED
      BY <3>1, Limits DEF Owed
  <2> QED
    BY <2>1, <2>2 DEF ViewInv, Reserved
<1> QED
  BY <1>1, <1>2, <1>3 DEF ViewInv

LEMMA QueueInv ==
  ASSUME ViewInv, NEW kind \in CommandKinds, Queue(kind)
  PROVE  ViewInv'
<1>1. /\ command.pc = "idle" /\ spent.commands < MaxCommands /\ UNCHANGED <<log, view, pump>>
      /\ spent' = [spent EXCEPT !.commands = @ + 1]
      /\ spent \in [commands : 0 .. MaxCommands, failures : 0 .. MaxFailures, clears : 0 .. MaxClears]
      /\ view.cursor \in Cursors
  BY DEF Queue, ViewInv, TypeOK, View
<1>2. /\ spent' \in [commands : 0 .. MaxCommands, failures : 0 .. MaxFailures, clears : 0 .. MaxClears]
      /\ spent'.commands = spent.commands + 1
  <2>1. spent.commands + 1 \in 0 .. MaxCommands
    BY <1>1, Limits
  <2> QED
    BY <1>1, <2>1
<1>3. \E pc \in {"send", "check"} :
        command' = [pc |-> pc, kind |-> kind, expected |-> view.cursor, snapshot |-> 0]
  BY DEF Queue
<1>4. command' \in Command /\ command'.pc \in {"check", "send"}
  BY <1>1, <1>3, Limits DEF Command, Cursors
<1>5. Owed' <= Owed
  <2>1. Owed = MaxCommands - spent.commands /\ Owed' = MaxCommands - (spent.commands + 1) + 1
    BY <1>1, <1>2, <1>4, Limits DEF Owed
  <2> QED
    BY <1>1, <2>1, Limits
<1> QED
  BY <1>1, <1>2, <1>4, <1>5, CommandAlone

(* What becomes of a command that is not ready to be sent owes less.        *)
LEMMA Settled ==
  ASSUME ViewInv, UNCHANGED spent, command.pc = "check" \/ command'.pc \notin {"check", "send"}
  PROVE  Owed' <= Owed
<1>1. MaxCommands - spent.commands \in Int
  BY Limits DEF ViewInv, TypeOK
<1> QED
  BY <1>1 DEF Owed

LEMMA CheckInv == ViewInv /\ Check => ViewInv'
<1> SUFFICES ASSUME ViewInv, Check PROVE ViewInv'
  OBVIOUS
<1>1. /\ command.pc = "check" /\ UNCHANGED <<log, view, pump, spent>> /\ command \in Command
      /\ spent' \in [commands : 0 .. MaxCommands, failures : 0 .. MaxFailures, clears : 0 .. MaxClears]
  BY DEF Check, ViewInv, TypeOK
<1>2. command' = [command EXCEPT !.pc = "send"] \/ command' = NoCommand
  BY DEF Check
<1>3. command' \in Command /\ command'.pc # "show"
  BY <1>1, <1>2, Limits DEF Command, NoCommand, Cursors, CommandKinds
<1>4. Owed' <= Owed
  BY <1>1, Settled
<1> QED
  BY <1>1, <1>3, <1>4, CommandAlone

LEMMA RefreshReadInv == ViewInv /\ RefreshRead => ViewInv'
<1> SUFFICES ASSUME ViewInv, RefreshRead PROVE ViewInv'
  OBVIOUS
<1>1. /\ UNCHANGED <<log, view, pump, spent>> /\ command \in Command
      /\ spent' \in [commands : 0 .. MaxCommands, failures : 0 .. MaxFailures, clears : 0 .. MaxClears]
      /\ command' = [command EXCEPT !.pc = "show", !.snapshot = Len(log)]
      /\ Len(log) \in Cursors /\ Len(log) \in Nat
  BY Limits DEF RefreshRead, ViewInv, TypeOK, Cursors
<1>2. command' \in Command /\ command'.pc = "show" /\ command'.snapshot = Len(log)
  BY <1>1 DEF Command
<1>3. Owed' <= Owed
  BY <1>1, <1>2, Settled
<1> QED
  BY <1>1, <1>2, <1>3, CommandAlone

LEMMA RefreshShownInv == ViewInv /\ RefreshShown => ViewInv'
<1> SUFFICES ASSUME ViewInv, RefreshShown PROVE ViewInv'
  OBVIOUS
<1>1. /\ view' = ReceiveSnapshot(view, command.snapshot) /\ command' = NoCommand
      /\ UNCHANGED <<log, pump, spent>> /\ command.snapshot <= Len(log)
      /\ command.snapshot \in Cursors /\ Len(log) \in Nat
  BY DEF RefreshShown, ViewInv, NotAhead, TypeOK, Command
<1>2. /\ view' \in View /\ Len(view'.events) <= EventLimit /\ view'.cursor = command.snapshot
      /\ Lists(log, view'.events, view'.since, view'.cursor)
  BY <1>1, SnapshotShown
<1>3. command' \in Command /\ command'.pc = "idle"
  BY <1>1, Limits DEF NoCommand, Command, Cursors, CommandKinds
<1>4. TypeOK'
  BY <1>1, <1>2, <1>3 DEF ViewInv, TypeOK
<1>5. Listed'
  BY <1>1, <1>2 DEF Listed
<1>6. Fetched'
  BY <1>1 DEF ViewInv, Fetched, Read
<1>7. NotAhead'
  <2>1. command.snapshot \in 0 .. Len(log)
    BY <1>1, Limits DEF Cursors
  <2> QED
    BY <1>1, <1>2, <1>3, <2>1 DEF ViewInv, NotAhead
<1>8. Reserved'
  <2>1. Owed' <= Owed
    BY <1>1, <1>3, Settled
  <2>2. Owed \in Int /\ Owed' \in Int /\ MaxEvents \in Nat
    <3>1. spent.commands \in 0 .. MaxCommands /\ spent' = spent
      BY <1>1 DEF ViewInv, TypeOK
    <3>2. MaxCommands - spent.commands \in Int /\ MaxEvents \in Nat
      BY <3>1, Limits
    <3> QED
      BY <3>1, <3>2 DEF Owed
  <2> QED
    BY <1>1, <2>1, <2>2 DEF ViewInv, Reserved
<1> QED
  BY <1>4, <1>5, <1>6, <1>7, <1>8 DEF ViewInv

(* A command that takes effect, or ends, uses the event that was kept for   *)
(* it and leaves what is shown.                                             *)
LEMMA CommandEnds ==
  ASSUME ViewInv, (command.pc = "send" /\ Commit("room")) \/ UNCHANGED log,
         command' \in Command, command'.pc \in {"idle", "refresh"},
         view' \in View, view'.events = view.events, view'.since = view.since,
         view'.cursor = view.cursor,
         pump' = pump \/ pump' = Between("stopped", pump.cursor),
         spent' \in [commands : 0 .. MaxCommands, failures : 0 .. MaxFailures,
                     clears : 0 .. MaxClears],
         spent'.commands = spent.commands
  PROVE  ViewInv'
<1>1. /\ log \in Seq(EventKinds) /\ Len(log) \in Nat /\ Len(log) + Owed <= MaxEvents
      /\ Owed \in Nat /\ Owed' \in Nat /\ MaxEvents \in Nat
      /\ Owed' = (IF command.pc \in {"check", "send"} THEN Owed - 1 ELSE Owed)
  <2>1. /\ spent.commands \in 0 .. MaxCommands /\ spent'.commands = spent.commands
        /\ MaxCommands \in Nat /\ MaxEvents \in Nat
    BY Limits DEF ViewInv, TypeOK
  <2>2. log \in Seq(EventKinds) /\ Len(log) \in Nat /\ Len(log) + Owed <= MaxEvents
    BY DEF ViewInv, TypeOK, Reserved
  <2>3. command'.pc \notin {"check", "send"}
    OBVIOUS
  <2> DEFINE left == MaxCommands - spent.commands
  <2>4. left \in Nat
    BY <2>1
  <2>5. Owed' = left /\ Owed = left + (IF command.pc \in {"check", "send"} THEN 1 ELSE 0)
    BY <2>1, <2>3 DEF Owed
  <2> HIDE DEF left
  <2> QED
    BY <2>1, <2>2, <2>4, <2>5
<1>2. /\ log' \in Seq(EventKinds) /\ Len(log') <= MaxEvents /\ Len(log') \in Nat
      /\ Len(log) <= Len(log') /\ Len(log') + Owed' <= MaxEvents
      /\ Lists(log', view.events, view.since, view.cursor)
  <2>1. CASE command.pc = "send" /\ Commit("room")
    <3>1. Len(log) < MaxEvents /\ "room" \in EventKinds
      BY <1>1, <2>1 DEF EventKinds
    <3>2. /\ log' \in Seq(EventKinds) /\ Len(log') = Len(log) + 1 /\ Len(log') <= MaxEvents
          /\ Lists(log', view.events, view.since, view.cursor)
      BY <2>1, <3>1, Committed
    <3> QED
      BY <1>1, <2>1, <3>2
  <2>2. CASE UNCHANGED log
    BY <1>1, <2>2 DEF ViewInv, Listed
  <2> QED
    BY <2>1, <2>2
<1>3. pump' \in Pump /\ pump'.cursor = pump.cursor
      /\ (pump' = pump \/ pump'.pc = "stopped")
  <2>1. pump \in Pump /\ pump.cursor \in Cursors
    BY DEF ViewInv, TypeOK, Pump
  <2>2. Between("stopped", pump.cursor) \in Pump
    BY <2>1, Limits DEF Between, Pump, Cursors
  <2>3. Between("stopped", pump.cursor).pc = "stopped"
        /\ Between("stopped", pump.cursor).cursor = pump.cursor
    BY DEF Between
  <2> QED
    BY <2>1, <2>2, <2>3
<1>4. TypeOK'
  BY <1>2, <1>3 DEF ViewInv, TypeOK
<1>5. Listed'
  BY <1>2 DEF Listed
<1>6. Fetched'
  <2>1. CASE pump' = pump
    <3>1. pump.committed \in Nat
      BY Limits DEF ViewInv, TypeOK, Pump, Cursors
    <3>2. pump.committed <= Len(log) => pump.committed <= Len(log')
      BY <1>1, <1>2, <3>1
    <3> QED
      BY <2>1, <3>2 DEF ViewInv, Fetched, Read
  <2>2. CASE pump'.pc = "stopped"
    BY <2>2 DEF Fetched, Read
  <2> QED
    BY <1>3, <2>1, <2>2
<1>7. NotAhead'
  <2>1. view.cursor \in 0 .. Len(log) /\ pump.cursor \in 0 .. Len(log)
    BY DEF ViewInv, NotAhead
  <2>2. view'.cursor \in 0 .. Len(log') /\ pump'.cursor \in 0 .. Len(log')
    BY <1>1, <1>2, <1>3, <2>1
  <2>3. pump'.pc = "show" => pump'.snapshot <= Len(log')
    <3>1. pump.snapshot \in Nat
      BY Limits DEF ViewInv, TypeOK, Pump, Cursors
    <3> QED
      BY <1>1, <1>2, <1>3, <3>1 DEF ViewInv, NotAhead
  <2> QED
    BY <2>2, <2>3 DEF NotAhead
<1>8. Reserved'
  BY <1>2 DEF Reserved
<1> QED
  BY <1>4, <1>5, <1>6, <1>7, <1>8 DEF ViewInv

LEMMA NoCommandTyped == NoCommand \in Command /\ NoCommand.pc = "idle"
BY Limits DEF NoCommand, Command, Cursors, CommandKinds

LEMMA ExecuteInv == ViewInv /\ Execute => ViewInv'
<1> SUFFICES ASSUME ViewInv, Execute PROVE ViewInv'
  OBVIOUS
<1>1. /\ UNCHANGED <<view, spent>> /\ view \in View /\ command \in Command
      /\ ((command.pc = "send" /\ Commit("room")) \/ UNCHANGED log)
      /\ spent' \in [commands : 0 .. MaxCommands, failures : 0 .. MaxFailures, clears : 0 .. MaxClears]
  BY DEF Execute, ViewInv, TypeOK
<1>2. \/ command' = NoCommand /\ pump' = Between("stopped", pump.cursor)
      \/ command' = [command EXCEPT !.pc = "refresh"] /\ UNCHANGED pump
  BY DEF Execute
<1>3. command' \in Command /\ command'.pc \in {"idle", "refresh"}
  <2>1. [command EXCEPT !.pc = "refresh"] \in Command
        /\ [command EXCEPT !.pc = "refresh"].pc = "refresh"
    BY <1>1 DEF Command
  <2> QED
    BY <1>2, <2>1, NoCommandTyped
<1> QED
  BY <1>1, <1>2, <1>3, CommandEnds

LEMMA CommandFailsInv == ViewInv /\ CommandFails => ViewInv'
<1> SUFFICES ASSUME ViewInv, CommandFails PROVE ViewInv'
  OBVIOUS
<1>1. /\ command' = NoCommand /\ pump' = pump /\ view \in View
      /\ ((command.pc = "send" /\ Commit("room")) \/ UNCHANGED log)
      /\ (view' = view \/ view' = Unconnected(view))
  BY DEF CommandFails, ViewInv, TypeOK
<1>2. /\ view' \in View /\ view'.events = view.events /\ view'.since = view.since
      /\ view'.cursor = view.cursor
  BY <1>1, Disconnected
<1>3. /\ spent' \in [commands : 0 .. MaxCommands, failures : 0 .. MaxFailures, clears : 0 .. MaxClears]
      /\ spent'.commands = spent.commands
  <2>1. /\ spent \in [commands : 0 .. MaxCommands, failures : 0 .. MaxFailures, clears : 0 .. MaxClears]
        /\ spent' = [spent EXCEPT !.failures = @ + 1] /\ spent.failures < MaxFailures
    BY DEF ViewInv, TypeOK, CommandFails
  <2>2. spent.failures + 1 \in 0 .. MaxFailures
    BY <2>1, Limits
  <2> QED
    BY <2>1, <2>2
<1> QED
  BY <1>1, <1>2, <1>3, NoCommandTyped, CommandEnds

LEMMA ViewStep == ViewInv /\ [Next]_vars => ViewInv'
<1> SUFFICES ASSUME ViewInv, [Next]_vars PROVE ViewInv'
  OBVIOUS
<1>1. CASE Progress
  BY <1>1, ProgressInv
<1>2. CASE ClearLocal
  BY <1>2, ClearInv
<1>3. CASE PumpStep
  BY <1>3, LoadReadInv, LoadShownInv, PollInv, ReloadInv, HistoryInv, UpdateShownInv, RetryInv
     DEF PumpStep
<1>4. CASE PumpFails
  BY <1>4, PumpFailsInv
<1>5. CASE \E kind \in CommandKinds : Queue(kind)
  BY <1>5, QueueInv
<1>6. CASE CommandStep
  BY <1>6, CheckInv, ExecuteInv, RefreshReadInv, RefreshShownInv DEF CommandStep
<1>7. CASE CommandFails
  BY <1>7, CommandFailsInv
<1>8. CASE UNCHANGED vars
  BY <1>8 DEF vars, ViewInv, TypeOK, Listed, Fetched, Read, NotAhead, Reserved, Owed
<1> QED
  BY <1>1, <1>2, <1>3, <1>4, <1>5, <1>6, <1>7, <1>8 DEF Next

-----------------------------------------------------------------------------
(* What the user types, says and decides.                                   *)
LEMMA Overlays ==
  /\ \A k \in {"none", "menu", "composer", "leave", "confirm"} :
       Input!At(k) \in Input!Overlay /\ Input!At(k).kind = k
  /\ \A s \in Input!Sessions, p \in Input!Phases :
       /\ Input!Voice(s, p) \in Input!Overlay /\ Input!Voice(s, p).kind = "voice"
       /\ Input!Voice(s, p).session = s /\ Input!Voice(s, p).phase = p
<1>1. ASSUME NEW k \in {"none", "menu", "composer", "leave", "confirm"}
      PROVE  Input!At(k) \in Input!Overlay /\ Input!At(k).kind = k
  BY <1>1 DEF Input!Overlay, Input!Plain, Input!At
<1>2. ASSUME NEW s \in Input!Sessions, NEW p \in Input!Phases
      PROVE  Input!Voice(s, p) \in Input!Overlay
  BY <1>2 DEF Input!Overlay
<1> QED
  BY <1>1, <1>2 DEF Input!Voice

LEMMA OverlayCases ==
  ASSUME NEW o \in Input!Overlay
  PROVE  \/ o.kind \in {"none", "menu", "composer", "leave", "confirm"}
         \/ /\ o.kind = "voice" /\ o.session \in Input!Sessions /\ o.phase \in Input!Phases
            /\ o = Input!Voice(o.session, o.phase)
BY DEF Input!Overlay, Input!Plain, Input!At, Input!Voice

LEMMA InputInit ==
  ASSUME Input!InputAssumption, Input!Init
  PROVE  InputInv /\ AllShown
<1> USE DEF Input!InputAssumption, Input!Init, Input!NoReply
<1>1. Screen /\ NotBusy
  BY Overlays DEF Screen, NotBusy
<1>2. Commands /\ Answers
  BY DEF Commands, Answers
<1>3. Sessions
  BY DEF Sessions, Input!Sessions
<1>4. Spoken /\ Input!RepliesAreSpokenOnce
  BY DEF Spoken, Input!RepliesAreSpokenOnce
<1>5. Recordings /\ AllShown
  BY DEF Recordings, AllShown, Beginning, Held, Ending, Lost, Mine, Shown
<1> QED
  BY <1>1, <1>2, <1>3, <1>4, <1>5 DEF InputInv, UserInv, VoicesInv

(* What the user does at the keyboard, and the commands.                   *)
LEMMA ScreenKeepsVoices ==
  ASSUME VoicesInv, UNCHANGED <<Input!voice, displaced>>, hidden' \subseteq Input!Sessions,
         overlay' = overlay \/ overlay'.kind # "voice"
  PROVE  VoicesInv'
<1> USE DEF Input!voice, Input!unseen
<1>1. Sessions'
  BY DEF VoicesInv, Sessions, Input!Sessions
<1>2. Recordings'
  BY DEF VoicesInv, Recordings, Beginning, Held, Ending, Input!Sessions
<1> QED
  BY <1>1, <1>2 DEF VoicesInv

(* What is taken off the screen goes into hidden.                          *)
LEMMA ScreenKeepsShown ==
  ASSUME AllShown, UNCHANGED <<Input!voice, mounted, displaced>>, hidden \subseteq hidden',
         \A s \in Input!Sessions, p \in {"starting", "recording"} :
           overlay = Input!Voice(s, p) => overlay' = overlay \/ s \in hidden'
  PROVE  AllShown'
<1> USE DEF Input!voice
<1>1. Lost'
  BY DEF AllShown, Lost
<1>2. ASSUME NEW s \in Input!Sessions
      PROVE  Mine(s)' /\ Shown(s)'
  BY <1>2 DEF AllShown, Mine, Shown
<1> QED
  BY <1>1, <1>2 DEF AllShown, Input!Sessions

(* The overlay shows a microphone that is opened or open.                  *)
Recorded == overlay.kind = "voice" /\ overlay.phase \in {"starting", "recording"}

LEMMA CommandTyped ==
  \A type \in {"message", "other", "leave"}, draft \in BOOLEAN :
    Input!Command(type, draft) \in [type : {"message", "other", "leave"}, draft : BOOLEAN]
BY DEF Input!Command

LEMMA ReplyTyped ==
  \A a \in BOOLEAN, t \in Input!Tasks \cup {None}, r \in BOOLEAN :
    [after |-> a, task |-> t, ready |-> r]
      \in [after : BOOLEAN, task : Input!Tasks \cup {None}, ready : BOOLEAN]
OBVIOUS

(* Such a step leaves the recordings alone; what it takes off the screen   *)
(* while it is opened or open is Ctrl+C's.                                 *)
Calm ==
  /\ UNCHANGED <<mounted, Input!voice, displaced>>
  /\ overlay' = overlay \/ overlay'.kind # "voice"
  /\ \/ hidden' = hidden /\ (overlay' = overlay \/ ~Recorded)
     \/ overlay.kind = "voice" /\ hidden' = hidden \cup {overlay.session}

(* Overlays and the composer.                                              *)
LEMMA KeyKeeps ==
  ASSUME Input!InputAssumption, UserInv, Input!Navigate \/ Input!OpenComposer \/ Input!Type
  PROVE  UserInv' /\ Calm
<1> USE DEF Input!Navigate, Input!OpenComposer, Input!Type, Input!composer, Input!command,
            Input!answer, Input!voice, Input!unseen
<1>1. Screen'
  <2>1. overlay' \in Input!Overlay
    <3>1. \/ overlay' = overlay
          \/ \E k \in {"none", "menu", "composer", "leave", "confirm"} : overlay' = Input!At(k)
      BY DEF Input!Show, Input!Plain
    <3> QED
      BY <3>1, Overlays DEF UserInv, Screen
  <2>2. {mounted, voiceDraft, run}' \subseteq BOOLEAN /\ text' \in {"empty", "words"}
    BY DEF UserInv, Screen
  <2> QED
    BY <2>1, <2>2 DEF Screen
<1>6. Calm
  BY Overlays DEF UserInv, Screen, Calm, Recorded, Input!In, Input!Show, Input!Plain
<1>2. Commands'
  BY CommandTyped DEF UserInv, Screen, Commands, Input!Busy
<1>5. Answers'
  BY ReplyTyped DEF UserInv, Commands, Answers, Spoken
<1>3. Spoken' /\ Input!RepliesAreSpokenOnce'
  BY DEF UserInv, Screen, Commands, Answers, Spoken, Input!RepliesAreSpokenOnce
<1>4. NotBusy'
  BY Overlays DEF UserInv, NotBusy, Commands, Input!Busy, Input!In, Input!Show, Input!Plain
<1> QED
  BY <1>1, <1>2, <1>3, <1>4, <1>5, <1>6 DEF UserInv

(* Ctrl+C, and a key after an error.                                       *)
LEMMA CtrlCKeeps ==
  ASSUME Input!InputAssumption, UserInv, Input!CtrlC \/ Input!DismissError
  PROVE  UserInv' /\ Calm
<1> USE DEF Input!CtrlC, Input!DismissError, Input!composer, Input!command, Input!answer,
            Input!voice, Input!unseen
<1>1. Screen'
  <2>1. overlay' \in Input!Overlay
    <3>1. \/ overlay' = overlay
          \/ \E k \in {"none", "menu", "composer", "leave", "confirm"} : overlay' = Input!At(k)
      BY DEF Input!Show, Input!Plain
    <3> QED
      BY <3>1, Overlays DEF UserInv, Screen
  <2>2. {mounted, voiceDraft, run}' \subseteq BOOLEAN /\ text' \in {"empty", "words"}
    BY DEF UserInv, Screen
  <2> QED
    BY <2>1, <2>2 DEF Screen
<1>6. Calm
  BY Overlays DEF UserInv, Screen, Calm, Recorded, Input!In, Input!Show, Input!Plain
<1>2. Commands'
  BY CommandTyped DEF UserInv, Screen, Commands, Input!Busy
<1>5. Answers'
  BY ReplyTyped DEF UserInv, Commands, Answers, Spoken
<1>3. Spoken' /\ Input!RepliesAreSpokenOnce'
  BY DEF UserInv, Screen, Commands, Answers, Spoken, Input!RepliesAreSpokenOnce
<1>4. NotBusy'
  BY Overlays DEF UserInv, NotBusy, Commands, Input!Busy, Input!In, Input!Show, Input!Plain
<1> QED
  BY <1>1, <1>2, <1>3, <1>4, <1>5, <1>6 DEF UserInv

(* The composer's text is sent.                                            *)
LEMMA WordsKeeps ==
  ASSUME Input!InputAssumption, UserInv, Input!SubmitWords
  PROVE  UserInv' /\ Calm
<1> USE DEF Input!SubmitWords, Input!Queue, Input!voice, Input!unseen
<1>1. Screen'
  <2>1. overlay' \in Input!Overlay
    <3>1. \/ overlay' = overlay
          \/ \E k \in {"none", "menu", "composer", "leave", "confirm"} : overlay' = Input!At(k)
      BY DEF Input!Show, Input!Plain
    <3> QED
      BY <3>1, Overlays DEF UserInv, Screen
  <2>2. {mounted, voiceDraft, run}' \subseteq BOOLEAN /\ text' \in {"empty", "words"}
    BY DEF UserInv, Screen
  <2> QED
    BY <2>1, <2>2 DEF Screen
<1>6. Calm
  BY Overlays DEF UserInv, Screen, Calm, Recorded, Input!In, Input!Show, Input!Plain
<1>2. Commands'
  BY CommandTyped DEF UserInv, Screen, Commands, Input!Busy
<1>5. Answers'
  BY ReplyTyped DEF UserInv, Commands, Answers, Spoken
<1>3. Spoken' /\ Input!RepliesAreSpokenOnce'
  BY DEF UserInv, Screen, Commands, Answers, Spoken, Input!RepliesAreSpokenOnce
<1>4. NotBusy'
  BY Overlays DEF UserInv, NotBusy, Commands, Input!Busy, Input!In, Input!Show, Input!Plain
<1> QED
  BY <1>1, <1>2, <1>3, <1>4, <1>5, <1>6 DEF UserInv

(* A slash command.                                                        *)
LEMMA SlashKeeps ==
  ASSUME Input!InputAssumption, UserInv, Input!SubmitSlash
  PROVE  UserInv' /\ Calm
<1> USE DEF Input!SubmitSlash, Input!answer, Input!voice, Input!unseen
<1>1. Screen'
  <2>1. overlay' \in Input!Overlay
    <3>1. \/ overlay' = overlay
          \/ \E k \in {"none", "menu", "composer", "leave", "confirm"} : overlay' = Input!At(k)
      BY DEF Input!Show, Input!Plain
    <3> QED
      BY <3>1, Overlays DEF UserInv, Screen
  <2>2. {mounted, voiceDraft, run}' \subseteq BOOLEAN /\ text' \in {"empty", "words"}
    BY DEF UserInv, Screen
  <2> QED
    BY <2>1, <2>2 DEF Screen
<1>6. Calm
  BY Overlays DEF UserInv, Screen, Calm, Recorded, Input!In, Input!Show, Input!Plain
<1>2. Commands'
  BY CommandTyped DEF UserInv, Screen, Commands, Input!Busy
<1>5. Answers'
  BY ReplyTyped DEF UserInv, Commands, Answers, Spoken
<1>7. /\ \A t \in Input!Tasks : task'[t] = task[t] \/ (task[t] = "done" /\ task'[t] = "cleared")
      /\ UNCHANGED <<mounted, reply, speaking, spoken>>
  BY DEF UserInv, Commands
<1>3. Spoken' /\ Input!RepliesAreSpokenOnce'
  <2>1. Spoken'
    BY <1>7 DEF UserInv, Answers, Spoken
  <2>2. Input!RepliesAreSpokenOnce'
    BY <1>7 DEF UserInv, Answers, Input!RepliesAreSpokenOnce
  <2> QED
    BY <2>1, <2>2
<1>4. NotBusy'
  <2>1. overlay'.kind # "voice"
    <3>1. \E k \in {"none", "menu", "composer", "leave", "confirm"} : overlay' = Input!At(k)
      BY DEF Input!Show
    <3> QED
      BY <3>1, Overlays
  <2> QED
    BY <2>1 DEF NotBusy
<1> QED
  BY <1>1, <1>2, <1>3, <1>4, <1>5, <1>6 DEF UserInv

(* What is confirmed is queued.                                            *)
LEMMA ConfirmKeeps ==
  ASSUME Input!InputAssumption, UserInv, Input!Confirm \/ Input!ConfirmLeave
  PROVE  UserInv' /\ Calm
<1> USE DEF Input!Confirm, Input!ConfirmLeave, Input!Queue, Input!composer, Input!command,
            Input!answer, Input!voice, Input!unseen
<1>1. Screen'
  <2>1. overlay' \in Input!Overlay
    <3>1. \/ overlay' = overlay
          \/ \E k \in {"none", "menu", "composer", "leave", "confirm"} : overlay' = Input!At(k)
      BY DEF Input!Show, Input!Plain
    <3> QED
      BY <3>1, Overlays DEF UserInv, Screen
  <2>2. {mounted, voiceDraft, run}' \subseteq BOOLEAN /\ text' \in {"empty", "words"}
    BY DEF UserInv, Screen
  <2> QED
    BY <2>1, <2>2 DEF Screen
<1>6. Calm
  BY Overlays DEF UserInv, Screen, Calm, Recorded, Input!In, Input!Show, Input!Plain
<1>2. Commands'
  BY CommandTyped DEF UserInv, Screen, Commands, Input!Busy
<1>5. Answers'
  BY ReplyTyped DEF UserInv, Commands, Answers, Spoken
<1>3. Spoken' /\ Input!RepliesAreSpokenOnce'
  BY DEF UserInv, Screen, Commands, Answers, Spoken, Input!RepliesAreSpokenOnce
<1>4. NotBusy'
  BY Overlays DEF UserInv, NotBusy, Commands, Input!Busy, Input!In, Input!Show, Input!Plain
<1> QED
  BY <1>1, <1>2, <1>3, <1>4, <1>5, <1>6 DEF UserInv

(* A message has its task.                                                 *)
LEMMA MessageKeeps ==
  ASSUME Input!InputAssumption, UserInv, Input!MessageSucceeds
  PROVE  UserInv' /\ Calm
<1> USE DEF Input!MessageSucceeds, Input!Expect, Input!NoReply, Input!Sent, Input!composer,
            Input!voice, Input!InputAssumption, Input!unseen
<1>1. Screen'
  <2>1. overlay' \in Input!Overlay
    <3>1. \/ overlay' = overlay
          \/ \E k \in {"none", "menu", "composer", "leave", "confirm"} : overlay' = Input!At(k)
      BY DEF Input!Show, Input!Plain
    <3> QED
      BY <3>1, Overlays DEF UserInv, Screen
  <2>2. {mounted, voiceDraft, run}' \subseteq BOOLEAN /\ text' \in {"empty", "words"}
    BY DEF UserInv, Screen
  <2> QED
    BY <2>1, <2>2 DEF Screen
<1>6. Calm
  BY Overlays DEF UserInv, Screen, Calm, Recorded, Input!In, Input!Show, Input!Plain
<1>2. Commands'
  BY CommandTyped DEF UserInv, Screen, Commands, Input!Busy
<1>5. Answers'
  BY ReplyTyped DEF UserInv, Commands, Answers, Spoken
<1>3. Spoken' /\ Input!RepliesAreSpokenOnce'
  BY DEF UserInv, Screen, Commands, Answers, Spoken, Input!RepliesAreSpokenOnce
<1>4. NotBusy'
  BY Overlays DEF UserInv, NotBusy, Commands, Input!Busy, Input!In, Input!Show, Input!Plain
<1> QED
  BY <1>1, <1>2, <1>3, <1>4, <1>5, <1>6 DEF UserInv

(* Another command's answer.                                               *)
LEMMA CommandKeeps ==
  ASSUME Input!InputAssumption, UserInv, Input!OtherSucceeds \/ Input!CommandFails
  PROVE  UserInv' /\ Calm
<1> USE DEF Input!OtherSucceeds, Input!CommandFails, Input!Expect, Input!NoReply, Input!composer,
            Input!voice, Input!unseen
<1>1. Screen'
  <2>1. overlay' \in Input!Overlay
    <3>1. \/ overlay' = overlay
          \/ \E k \in {"none", "menu", "composer", "leave", "confirm"} : overlay' = Input!At(k)
      BY DEF Input!Show, Input!Plain
    <3> QED
      BY <3>1, Overlays DEF UserInv, Screen
  <2>2. {mounted, voiceDraft, run}' \subseteq BOOLEAN /\ text' \in {"empty", "words"}
    BY DEF UserInv, Screen
  <2> QED
    BY <2>1, <2>2 DEF Screen
<1>6. Calm
  BY Overlays DEF UserInv, Screen, Calm, Recorded, Input!In, Input!Show, Input!Plain
<1>2. Commands'
  BY CommandTyped DEF UserInv, Screen, Commands, Input!Busy
<1>5. Answers'
  BY ReplyTyped DEF UserInv, Commands, Answers, Spoken
<1>3. Spoken' /\ Input!RepliesAreSpokenOnce'
  BY DEF UserInv, Screen, Commands, Answers, Spoken, Input!RepliesAreSpokenOnce
<1>4. NotBusy'
  BY Overlays DEF UserInv, NotBusy, Commands, Input!Busy, Input!In, Input!Show, Input!Plain
<1> QED
  BY <1>1, <1>2, <1>3, <1>4, <1>5, <1>6 DEF UserInv

(* A task is done, its reply spoken.                                       *)
LEMMA ReplyKeeps ==
  ASSUME Input!InputAssumption, UserInv, \/ Input!Speak \/ Input!SpeakEnds
         \/ \E t \in Input!Tasks : Input!TaskDone(t)
  PROVE  UserInv' /\ Calm
<1> USE DEF Input!TaskDone, Input!Speak, Input!SpeakEnds, Input!NoLongerExpected, Input!NoReply,
            Input!composer, Input!command, Input!answer, Input!voice, Input!InputAssumption, Input!unseen
<1>1. Screen'
  <2>1. overlay' \in Input!Overlay
    <3>1. \/ overlay' = overlay
          \/ \E k \in {"none", "menu", "composer", "leave", "confirm"} : overlay' = Input!At(k)
      BY DEF Input!Show, Input!Plain
    <3> QED
      BY <3>1, Overlays DEF UserInv, Screen
  <2>2. {mounted, voiceDraft, run}' \subseteq BOOLEAN /\ text' \in {"empty", "words"}
    BY DEF UserInv, Screen
  <2> QED
    BY <2>1, <2>2 DEF Screen
<1>6. Calm
  BY Overlays DEF UserInv, Screen, Calm, Recorded, Input!In, Input!Show, Input!Plain
<1>2. Commands'
  BY CommandTyped DEF UserInv, Screen, Commands, Input!Busy
<1>5. Answers'
  <2>1. CASE Input!Speak
    <3>1. reply.task \in Input!Tasks
      BY <2>1 DEF UserInv, Answers, Spoken
    <3> QED
      BY <2>1, <3>1, ReplyTyped DEF UserInv, Answers
  <2> QED
    BY <2>1 DEF UserInv, Answers
<1>3. Spoken' /\ Input!RepliesAreSpokenOnce'
  BY DEF UserInv, Screen, Commands, Answers, Spoken, Input!RepliesAreSpokenOnce
<1>4. NotBusy'
  BY Overlays DEF UserInv, NotBusy, Commands, Input!Busy, Input!In, Input!Show, Input!Plain
<1> QED
  BY <1>1, <1>2, <1>3, <1>4, <1>5, <1>6 DEF UserInv

(* A recording begins.                                                     *)
LEMMA BeginKeeps ==
  ASSUME Input!InputAssumption, InputInv, Input!BeginVoice
  PROVE  InputInv' /\ (AllShown => AllShown')
<1> USE DEF Input!BeginVoice, Input!In, Input!command, Input!answer, Input!unseen
<1>1. Screen'
  <2>1. overlay' \in Input!Overlay
    BY Overlays DEF InputInv, UserInv, VoicesInv, Screen, Sessions, Input!Show, Input!Phases,
       Input!Sessions, Input!InputAssumption
  <2>2. {mounted, voiceDraft, run}' \subseteq BOOLEAN /\ text' \in {"empty", "words"}
    BY DEF InputInv, UserInv, Screen
  <2> QED
    BY <2>1, <2>2 DEF Screen
<1>2. Commands' /\ Answers' /\ Spoken' /\ Input!RepliesAreSpokenOnce'
  BY DEF InputInv, UserInv, Commands, Answers, Spoken, Input!RepliesAreSpokenOnce
<1>3. NotBusy'
  BY Overlays DEF InputInv, UserInv, NotBusy, Input!InVoice, Input!Show, Input!Busy, Input!Phases
<1>4. Sessions'
  BY DEF InputInv, VoicesInv, Sessions, Input!Sessions, Input!InputAssumption
<1>5. ASSUME NEW r \in Input!Sessions
      PROVE  Beginning(r)' /\ Held(r)' /\ Ending(r)'
  <2> USE DEF InputInv, VoicesInv, Recordings, Sessions
  <2>1. Beginning(r)'
    BY DEF Beginning, Held, Input!Sessions, Input!InputAssumption
  <2>2. Held(r)'
    BY DEF Beginning, Held
  <2>3. Ending(r)'
    BY Overlays DEF Ending, Beginning, Input!InVoice, Input!Show, Input!Phases, Input!Sessions,
       Input!InputAssumption
  <2> QED
    BY <2>1, <2>2, <2>3
<1>6. ASSUME AllShown, NEW r \in Input!Sessions
      PROVE  Mine(r)' /\ Shown(r)'
  <2> USE DEF InputInv, VoicesInv, Recordings, Sessions, AllShown, Mine
  <2>1. Mine(r)'
    BY <1>6 DEF Beginning, Input!InputAssumption
  <2>2. Shown(r)'
    BY <1>6, Overlays DEF UserInv, NotBusy, Screen, Shown, Beginning, Held,
       Input!InVoice, Input!Show, Input!Busy, Input!Phases
  <2> QED
    BY <2>1, <2>2
<1>7. ASSUME AllShown, hidden = {}
      PROVE  displaced' = {}
  <2>1. displaced = {}
    BY <1>7 DEF AllShown, Lost
  <2>2. ASSUME NEW r \in {startRef} \cap Input!Sessions
        PROVE  r \in aborted
    <3>1. overlay.kind # "voice"
      BY Overlays
    <3>2. job[r] = "opening" /\ overlay # Input!Voice(r, "starting")
      BY <1>7, <2>2, <3>1, Overlays DEF AllShown, Mine, Input!Phases
    <3> QED
      BY <1>7, <2>1, <2>2, <3>2 DEF AllShown, Shown
  <2> QED
    BY <2>1, <2>2
<1> QED
  BY <1>1, <1>2, <1>3, <1>4, <1>5, <1>6, <1>7 DEF InputInv, UserInv, VoicesInv, Recordings,
     AllShown, Lost

(* The microphone is open, or not.                                         *)
LEMMA OpenedKeeps ==
  ASSUME Input!InputAssumption, InputInv, NEW s \in Input!Sessions,
         Input!Opened(s)
  PROVE  InputInv' /\ (AllShown => AllShown')
<1> USE DEF Input!Opened, Input!Cleared, Input!Failed, Input!composer, Input!command, Input!answer, Input!unseen
<1>1. Screen'
  <2>1. overlay' \in Input!Overlay
    BY Overlays DEF InputInv, UserInv, VoicesInv, Screen, Sessions, Input!Show, Input!Phases,
       Input!Sessions, Input!InputAssumption
  <2>2. {mounted, voiceDraft, run}' \subseteq BOOLEAN /\ text' \in {"empty", "words"}
    BY DEF InputInv, UserInv, Screen
  <2> QED
    BY <2>1, <2>2 DEF Screen
<1>2. Commands' /\ Answers' /\ Spoken' /\ Input!RepliesAreSpokenOnce'
  BY DEF InputInv, UserInv, Commands, Answers, Spoken, Input!RepliesAreSpokenOnce
<1>3. NotBusy'
  BY Overlays DEF InputInv, UserInv, NotBusy, Input!InVoice, Input!Show, Input!Busy, Input!Phases
<1>4. Sessions'
  BY DEF InputInv, VoicesInv, Sessions, Input!Sessions, Input!InputAssumption, Input!Displaced
<1>5. ASSUME NEW r \in Input!Sessions
      PROVE  Beginning(r)' /\ Held(r)' /\ Ending(r)'
  <2> USE DEF InputInv, VoicesInv, Recordings, Sessions
  <2>1. Beginning(r)'
    BY DEF Beginning, Held, Input!Sessions, Input!InputAssumption
  <2>2. Held(r)'
    BY DEF Beginning, Held
  <2>3. Ending(r)'
    BY Overlays DEF Ending, Beginning, Input!InVoice, Input!Show, Input!Phases, Input!Sessions,
       Input!InputAssumption
  <2> QED
    BY <2>1, <2>2, <2>3
<1>6. ASSUME AllShown, NEW r \in Input!Sessions
      PROVE  Mine(r)' /\ Shown(r)'
  <2> USE DEF InputInv, VoicesInv, Recordings, Sessions, AllShown, Mine
  <2>1. Mine(r)'
    BY <1>6 DEF Beginning, Input!InputAssumption
  <2>2. Shown(r)'
    BY <1>6, Overlays DEF Input!Displaced, UserInv, NotBusy, Screen, Shown, Beginning, Held,
       Input!InVoice, Input!Show, Input!Busy, Input!Phases
  <2> QED
    BY <2>1, <2>2
<1>7. ASSUME AllShown, hidden = {}
      PROVE  displaced' = {}
  <2>1. displaced = {}
    BY <1>7 DEF AllShown, Lost
  <2>2. ASSUME s \notin aborted, NEW r \in Input!Displaced(s)
        PROVE  FALSE
    <3>1. mounted /\ overlay = Input!Voice(s, "starting")
      BY <1>7, <2>1, <2>2 DEF AllShown, Shown
    <3>2. r \in Input!Sessions /\ r # s /\ session = r /\ job[r] = "open"
      BY <2>2 DEF Input!Displaced
    <3>3. r \notin canceling /\ recorder[r] # "released"
      BY <1>7, <3>1, <3>2 DEF AllShown, Mine
    <3>4. overlay = Input!Voice(r, "recording")
      BY <1>7, <2>1, <3>2, <3>3 DEF AllShown, Shown
    <3> QED
      BY <3>1, <3>2, <3>4, Overlays DEF Input!Phases
  <2>3. displaced' = displaced \/ (s \notin aborted /\ displaced' = displaced \cup Input!Displaced(s))
    OBVIOUS
  <2> QED
    BY <2>1, <2>2, <2>3
<1> QED
  BY <1>1, <1>2, <1>3, <1>4, <1>5, <1>6, <1>7 DEF InputInv, UserInv, VoicesInv, Recordings,
     AllShown, Lost

(* Samples arrive.                                                         *)
LEMMA CaptureKeeps ==
  ASSUME Input!InputAssumption, InputInv, NEW s \in Input!Sessions,
         Input!Capture(s)
  PROVE  InputInv' /\ (AllShown => AllShown')
<1> USE DEF Input!Capture, Input!StopRecorder, Input!composer, Input!command, Input!answer, Input!unseen
<1>1. Screen'
  <2>1. overlay' \in Input!Overlay
    BY Overlays DEF InputInv, UserInv, VoicesInv, Screen, Sessions, Input!Show, Input!Phases,
       Input!Sessions, Input!InputAssumption
  <2>2. {mounted, voiceDraft, run}' \subseteq BOOLEAN /\ text' \in {"empty", "words"}
    BY DEF InputInv, UserInv, Screen
  <2> QED
    BY <2>1, <2>2 DEF Screen
<1>2. Commands' /\ Answers' /\ Spoken' /\ Input!RepliesAreSpokenOnce'
  BY DEF InputInv, UserInv, Commands, Answers, Spoken, Input!RepliesAreSpokenOnce
<1>3. NotBusy'
  BY Overlays DEF InputInv, UserInv, NotBusy, Input!InVoice, Input!Show, Input!Busy, Input!Phases
<1>4. Sessions'
  BY DEF InputInv, VoicesInv, Sessions, Input!Sessions, Input!InputAssumption
<1>5. ASSUME NEW r \in Input!Sessions
      PROVE  Beginning(r)' /\ Held(r)' /\ Ending(r)'
  <2> USE DEF InputInv, VoicesInv, Recordings, Sessions
  <2>1. Beginning(r)'
    BY DEF Beginning, Held, Input!Sessions, Input!InputAssumption
  <2>2. Held(r)'
    BY DEF Beginning, Held
  <2>3. Ending(r)'
    BY Overlays DEF Ending, Beginning, Input!InVoice, Input!Show, Input!Phases, Input!Sessions,
       Input!InputAssumption
  <2> QED
    BY <2>1, <2>2, <2>3
<1>6. ASSUME AllShown, NEW r \in Input!Sessions
      PROVE  Mine(r)' /\ Shown(r)'
  <2> USE DEF InputInv, VoicesInv, Recordings, Sessions, AllShown, Mine
  <2>1. Mine(r)'
    BY <1>6 DEF Beginning, Input!InputAssumption
  <2>2. Shown(r)'
    BY <1>6, Overlays DEF UserInv, NotBusy, Screen, Shown, Beginning, Held,
       Input!InVoice, Input!Show, Input!Busy, Input!Phases
  <2> QED
    BY <2>1, <2>2
<1>7. AllShown => Lost'
  BY DEF AllShown, Lost
<1> QED
  BY <1>1, <1>2, <1>3, <1>4, <1>5, <1>6, <1>7 DEF InputInv, UserInv, VoicesInv, Recordings,
     AllShown

(* It is stopped.                                                          *)
LEMMA StopKeeps ==
  ASSUME Input!InputAssumption, InputInv, NEW s \in Input!Sessions,
         Input!StopVoice(s)
  PROVE  InputInv' /\ (AllShown => AllShown')
<1> USE DEF Input!StopVoice, Input!StopRecorder, Input!composer, Input!command, Input!answer, Input!unseen
<1>1. Screen'
  <2>1. overlay' \in Input!Overlay
    BY Overlays DEF InputInv, UserInv, VoicesInv, Screen, Sessions, Input!Show, Input!Phases,
       Input!Sessions, Input!InputAssumption
  <2>2. {mounted, voiceDraft, run}' \subseteq BOOLEAN /\ text' \in {"empty", "words"}
    BY DEF InputInv, UserInv, Screen
  <2> QED
    BY <2>1, <2>2 DEF Screen
<1>2. Commands' /\ Answers' /\ Spoken' /\ Input!RepliesAreSpokenOnce'
  BY DEF InputInv, UserInv, Commands, Answers, Spoken, Input!RepliesAreSpokenOnce
<1>3. NotBusy'
  BY Overlays DEF InputInv, UserInv, NotBusy, Input!InVoice, Input!Show, Input!Busy, Input!Phases
<1>4. Sessions'
  BY DEF InputInv, VoicesInv, Sessions, Input!Sessions, Input!InputAssumption
<1>5. ASSUME NEW r \in Input!Sessions
      PROVE  Beginning(r)' /\ Held(r)' /\ Ending(r)'
  <2> USE DEF InputInv, VoicesInv, Recordings, Sessions
  <2>1. Beginning(r)'
    BY DEF Beginning, Held, Input!Sessions, Input!InputAssumption
  <2>2. Held(r)'
    BY DEF Beginning, Held
  <2>3. Ending(r)'
    BY Overlays DEF Ending, Beginning, Input!InVoice, Input!Show, Input!Phases, Input!Sessions,
       Input!InputAssumption
  <2> QED
    BY <2>1, <2>2, <2>3
<1>6. ASSUME AllShown, NEW r \in Input!Sessions
      PROVE  Mine(r)' /\ Shown(r)'
  <2> USE DEF InputInv, VoicesInv, Recordings, Sessions, AllShown, Mine
  <2>1. Mine(r)'
    BY <1>6 DEF Beginning, Input!InputAssumption
  <2>2. Shown(r)'
    BY <1>6, Overlays DEF UserInv, NotBusy, Screen, Shown, Beginning, Held,
       Input!InVoice, Input!Show, Input!Busy, Input!Phases
  <2> QED
    BY <2>1, <2>2
<1>7. AllShown => Lost'
  BY DEF AllShown, Lost
<1> QED
  BY <1>1, <1>2, <1>3, <1>4, <1>5, <1>6, <1>7 DEF InputInv, UserInv, VoicesInv, Recordings,
     AllShown

(* The capture has ended.                                                  *)
LEMMA CaptureEndsKeeps ==
  ASSUME Input!InputAssumption, InputInv, NEW s \in Input!Sessions,
         Input!CaptureEnds(s)
  PROVE  InputInv' /\ (AllShown => AllShown')
<1> USE DEF Input!CaptureEnds, Input!Released, Input!Finished, Input!Cleared, Input!Failed,
            Input!composer, Input!command, Input!answer, Input!unseen
<1>1. Screen'
  <2>1. overlay' \in Input!Overlay
    BY Overlays DEF InputInv, UserInv, VoicesInv, Screen, Sessions, Input!Show, Input!Phases,
       Input!Sessions, Input!InputAssumption
  <2>2. {mounted, voiceDraft, run}' \subseteq BOOLEAN /\ text' \in {"empty", "words"}
    BY DEF InputInv, UserInv, Screen
  <2> QED
    BY <2>1, <2>2 DEF Screen
<1>2. Commands' /\ Answers' /\ Spoken' /\ Input!RepliesAreSpokenOnce'
  BY DEF InputInv, UserInv, Commands, Answers, Spoken, Input!RepliesAreSpokenOnce
<1>3. NotBusy'
  BY Overlays DEF InputInv, UserInv, NotBusy, Input!InVoice, Input!Show, Input!Busy, Input!Phases
<1>4. Sessions'
  BY DEF InputInv, VoicesInv, Sessions, Input!Sessions, Input!InputAssumption
<1>5. ASSUME NEW r \in Input!Sessions
      PROVE  Beginning(r)' /\ Held(r)' /\ Ending(r)'
  <2> USE DEF InputInv, VoicesInv, Recordings, Sessions
  <2>1. Beginning(r)'
    BY DEF Beginning, Held, Input!Sessions, Input!InputAssumption
  <2>2. Held(r)'
    BY DEF Beginning, Held
  <2>3. Ending(r)'
    <3>1. CASE job'[r] = job[r] /\ overlay' = overlay
      <4>1. finishRef = r /\ r # s => finishRef' = r
        OBVIOUS
      <4>2. r = s => finishRef' = finishRef
        BY <3>1
      <4> QED
        BY <3>1, <4>1, <4>2 DEF Ending
    <3>2. CASE job'[r] # job[r]
      <4>1. r = s
        BY <3>2
      <4>2. job'[s] = "over" \/ UNCHANGED <<overlay, aborted, finishRef>>
        BY <4>1
      <4> QED
        BY <4>1, <4>2 DEF Ending
    <3>3. CASE overlay' # overlay
      <4>1. overlay' = Input!Voice(s, "error") /\ job'[s] = "over"
        BY <3>3
      <4>2. overlay'.session = s
        BY <4>1, Overlays DEF Input!Phases
      <4> QED
        BY <4>1, <4>2 DEF Ending
    <3> QED
      BY <3>1, <3>2, <3>3
  <2> QED
    BY <2>1, <2>2, <2>3
<1>6. ASSUME AllShown, NEW r \in Input!Sessions
      PROVE  Mine(r)' /\ Shown(r)'
  <2> USE DEF InputInv, VoicesInv, Recordings, Sessions, AllShown, Mine
  <2>1. Mine(r)'
    BY <1>6 DEF Beginning, Input!InputAssumption
  <2>2. Shown(r)'
    BY <1>6, Overlays DEF UserInv, NotBusy, Screen, Shown, Beginning, Held,
       Input!InVoice, Input!Show, Input!Busy, Input!Phases
  <2> QED
    BY <2>1, <2>2
<1>7. AllShown => Lost'
  BY DEF AllShown, Lost
<1> QED
  BY <1>1, <1>2, <1>3, <1>4, <1>5, <1>6, <1>7 DEF InputInv, UserInv, VoicesInv, Recordings,
     AllShown

(* It is transcribed.                                                      *)
LEMMA TranscribedKeeps ==
  ASSUME Input!InputAssumption, InputInv, NEW s \in Input!Sessions,
         Input!Transcribed(s)
  PROVE  InputInv' /\ (AllShown => AllShown')
<1> USE DEF Input!Transcribed, Input!Finished, Input!Cleared, Input!Heard, Input!command,
            Input!answer, Input!unseen
<1>1. Screen'
  <2>1. overlay' \in Input!Overlay
    BY Overlays DEF InputInv, UserInv, VoicesInv, Screen, Sessions, Input!Show, Input!Phases,
       Input!Sessions, Input!InputAssumption
  <2>2. {mounted, voiceDraft, run}' \subseteq BOOLEAN /\ text' \in {"empty", "words"}
    BY DEF InputInv, UserInv, Screen
  <2> QED
    BY <2>1, <2>2 DEF Screen
<1>2. Commands' /\ Answers' /\ Spoken' /\ Input!RepliesAreSpokenOnce'
  BY DEF InputInv, UserInv, Commands, Answers, Spoken, Input!RepliesAreSpokenOnce
<1>3. NotBusy'
  BY Overlays DEF InputInv, UserInv, NotBusy, Input!InVoice, Input!Show, Input!Busy, Input!Phases
<1>4. Sessions'
  BY DEF InputInv, VoicesInv, Sessions, Input!Sessions, Input!InputAssumption
<1>5. ASSUME NEW r \in Input!Sessions
      PROVE  Beginning(r)' /\ Held(r)' /\ Ending(r)'
  <2> USE DEF InputInv, VoicesInv, Recordings, Sessions
  <2>1. Beginning(r)'
    BY DEF Beginning, Held, Input!Sessions, Input!InputAssumption
  <2>2. Held(r)'
    BY DEF Beginning, Held
  <2>3. Ending(r)'
    BY Overlays DEF Ending, Beginning, Input!InVoice, Input!Show, Input!Phases, Input!Sessions,
       Input!InputAssumption
  <2> QED
    BY <2>1, <2>2, <2>3
<1>6. ASSUME AllShown, NEW r \in Input!Sessions
      PROVE  Mine(r)' /\ Shown(r)'
  <2> USE DEF InputInv, VoicesInv, Recordings, Sessions, AllShown, Mine
  <2>1. Mine(r)'
    BY <1>6 DEF Beginning, Input!InputAssumption
  <2>2. Shown(r)'
    BY <1>6, Overlays DEF UserInv, NotBusy, Screen, Shown, Beginning, Held,
       Input!InVoice, Input!Show, Input!Busy, Input!Phases
  <2> QED
    BY <2>1, <2>2
<1>7. AllShown => Lost'
  BY DEF AllShown, Lost
<1> QED
  BY <1>1, <1>2, <1>3, <1>4, <1>5, <1>6, <1>7 DEF InputInv, UserInv, VoicesInv, Recordings,
     AllShown

(* It is not.                                                              *)
LEMMA FailedKeeps ==
  ASSUME Input!InputAssumption, InputInv, NEW s \in Input!Sessions,
         Input!TranscriptionFails(s)
  PROVE  InputInv' /\ (AllShown => AllShown')
<1> USE DEF Input!TranscriptionFails, Input!Finished, Input!Cleared, Input!Failed, Input!composer,
            Input!command, Input!answer, Input!unseen
<1>1. Screen'
  <2>1. overlay' \in Input!Overlay
    BY Overlays DEF InputInv, UserInv, VoicesInv, Screen, Sessions, Input!Show, Input!Phases,
       Input!Sessions, Input!InputAssumption
  <2>2. {mounted, voiceDraft, run}' \subseteq BOOLEAN /\ text' \in {"empty", "words"}
    BY DEF InputInv, UserInv, Screen
  <2> QED
    BY <2>1, <2>2 DEF Screen
<1>2. Commands' /\ Answers' /\ Spoken' /\ Input!RepliesAreSpokenOnce'
  BY DEF InputInv, UserInv, Commands, Answers, Spoken, Input!RepliesAreSpokenOnce
<1>3. NotBusy'
  BY Overlays DEF InputInv, UserInv, NotBusy, Input!InVoice, Input!Show, Input!Busy, Input!Phases
<1>4. Sessions'
  BY DEF InputInv, VoicesInv, Sessions, Input!Sessions, Input!InputAssumption
<1>5. ASSUME NEW r \in Input!Sessions
      PROVE  Beginning(r)' /\ Held(r)' /\ Ending(r)'
  <2> USE DEF InputInv, VoicesInv, Recordings, Sessions
  <2>1. Beginning(r)'
    BY DEF Beginning, Held, Input!Sessions, Input!InputAssumption
  <2>2. Held(r)'
    BY DEF Beginning, Held
  <2>3. Ending(r)'
    BY Overlays DEF Ending, Beginning, Input!InVoice, Input!Show, Input!Phases, Input!Sessions,
       Input!InputAssumption
  <2> QED
    BY <2>1, <2>2, <2>3
<1>6. ASSUME AllShown, NEW r \in Input!Sessions
      PROVE  Mine(r)' /\ Shown(r)'
  <2> USE DEF InputInv, VoicesInv, Recordings, Sessions, AllShown, Mine
  <2>1. Mine(r)'
    BY <1>6 DEF Beginning, Input!InputAssumption
  <2>2. Shown(r)'
    BY <1>6, Overlays DEF UserInv, NotBusy, Screen, Shown, Beginning, Held,
       Input!InVoice, Input!Show, Input!Busy, Input!Phases
  <2> QED
    BY <2>1, <2>2
<1>7. AllShown => Lost'
  BY DEF AllShown, Lost
<1> QED
  BY <1>1, <1>2, <1>3, <1>4, <1>5, <1>6, <1>7 DEF InputInv, UserInv, VoicesInv, Recordings,
     AllShown

(* It is canceled.                                                         *)
LEMMA CancelVoiceKeeps ==
  ASSUME Input!InputAssumption, InputInv, NEW s \in Input!Sessions,
         Input!CancelVoice(s)
  PROVE  InputInv' /\ (AllShown => AllShown')
<1> USE DEF Input!CancelVoice, Input!Canceled, Input!NothingToCancel, Input!StopRecorder,
            Input!composer, Input!command, Input!answer, Input!unseen
<1>1. Screen'
  <2>1. overlay' \in Input!Overlay
    BY Overlays DEF InputInv, UserInv, VoicesInv, Screen, Sessions, Input!Show, Input!Phases,
       Input!Sessions, Input!InputAssumption
  <2>2. {mounted, voiceDraft, run}' \subseteq BOOLEAN /\ text' \in {"empty", "words"}
    BY DEF InputInv, UserInv, Screen
  <2> QED
    BY <2>1, <2>2 DEF Screen
<1>2. Commands' /\ Answers' /\ Spoken' /\ Input!RepliesAreSpokenOnce'
  BY DEF InputInv, UserInv, Commands, Answers, Spoken, Input!RepliesAreSpokenOnce
<1>3. NotBusy'
  BY Overlays DEF InputInv, UserInv, NotBusy, Input!InVoice, Input!Show, Input!Busy, Input!Phases
<1>4. Sessions'
  BY DEF InputInv, VoicesInv, Sessions, Input!Sessions, Input!InputAssumption
<1>5. ASSUME NEW r \in Input!Sessions
      PROVE  Beginning(r)' /\ Held(r)' /\ Ending(r)'
  <2> USE DEF InputInv, VoicesInv, Recordings, Sessions
  <2>1. Beginning(r)'
    BY DEF Beginning, Held, Input!Sessions, Input!InputAssumption
  <2>2. Held(r)'
    BY DEF Beginning, Held
  <2>3. Ending(r)'
    BY Overlays DEF Ending, Beginning, Input!InVoice, Input!Show, Input!Phases, Input!Sessions,
       Input!InputAssumption
  <2> QED
    BY <2>1, <2>2, <2>3
<1>6. ASSUME AllShown, NEW r \in Input!Sessions
      PROVE  Mine(r)' /\ Shown(r)'
  <2> USE DEF InputInv, VoicesInv, Recordings, Sessions, AllShown, Mine
  <2>1. Mine(r)'
    BY <1>6 DEF Beginning, Input!InputAssumption
  <2>2. Shown(r)'
    BY <1>6, Overlays DEF UserInv, NotBusy, Screen, Shown, Beginning, Held,
       Input!InVoice, Input!Show, Input!Busy, Input!Phases
  <2> QED
    BY <2>1, <2>2
<1>7. AllShown => Lost'
  BY DEF AllShown, Lost
<1> QED
  BY <1>1, <1>2, <1>3, <1>4, <1>5, <1>6, <1>7 DEF InputInv, UserInv, VoicesInv, Recordings,
     AllShown

(* That has an end.                                                        *)
LEMMA CancelEndsKeeps ==
  ASSUME Input!InputAssumption, InputInv, NEW s \in Input!Sessions,
         Input!CancelEnds(s)
  PROVE  InputInv' /\ (AllShown => AllShown')
<1> USE DEF Input!CancelEnds, Input!Released, Input!composer, Input!command, Input!answer, Input!unseen
<1>1. Screen'
  <2>1. overlay' \in Input!Overlay
    BY Overlays DEF InputInv, UserInv, VoicesInv, Screen, Sessions, Input!Show, Input!Phases,
       Input!Sessions, Input!InputAssumption
  <2>2. {mounted, voiceDraft, run}' \subseteq BOOLEAN /\ text' \in {"empty", "words"}
    BY DEF InputInv, UserInv, Screen
  <2> QED
    BY <2>1, <2>2 DEF Screen
<1>2. Commands' /\ Answers' /\ Spoken' /\ Input!RepliesAreSpokenOnce'
  BY DEF InputInv, UserInv, Commands, Answers, Spoken, Input!RepliesAreSpokenOnce
<1>3. NotBusy'
  BY Overlays DEF InputInv, UserInv, NotBusy, Input!InVoice, Input!Show, Input!Busy, Input!Phases
<1>4. Sessions'
  BY DEF InputInv, VoicesInv, Sessions, Input!Sessions, Input!InputAssumption
<1>5. ASSUME NEW r \in Input!Sessions
      PROVE  Beginning(r)' /\ Held(r)' /\ Ending(r)'
  <2> USE DEF InputInv, VoicesInv, Recordings, Sessions
  <2>1. Beginning(r)'
    BY DEF Beginning, Held, Input!Sessions, Input!InputAssumption
  <2>2. Held(r)'
    BY DEF Beginning, Held
  <2>3. Ending(r)'
    BY Overlays DEF Ending, Beginning, Input!InVoice, Input!Show, Input!Phases, Input!Sessions,
       Input!InputAssumption
  <2> QED
    BY <2>1, <2>2, <2>3
<1>6. ASSUME AllShown, NEW r \in Input!Sessions
      PROVE  Mine(r)' /\ Shown(r)'
  <2> USE DEF InputInv, VoicesInv, Recordings, Sessions, AllShown, Mine
  <2>1. Mine(r)'
    BY <1>6 DEF Beginning, Input!InputAssumption
  <2>2. Shown(r)'
    BY <1>6, Overlays DEF UserInv, NotBusy, Screen, Shown, Beginning, Held,
       Input!InVoice, Input!Show, Input!Busy, Input!Phases
  <2> QED
    BY <2>1, <2>2
<1>7. AllShown => Lost'
  BY DEF AllShown, Lost
<1> QED
  BY <1>1, <1>2, <1>3, <1>4, <1>5, <1>6, <1>7 DEF InputInv, UserInv, VoicesInv, Recordings,
     AllShown

(* The room is left.                                                       *)
LEMMA LeaveKeeps ==
  ASSUME Input!InputAssumption, InputInv, Input!LeaveSucceeds
  PROVE  InputInv' /\ (AllShown => AllShown')
<1> USE DEF Input!LeaveSucceeds, Input!StopRecorder, Input!composer, Input!command, Input!answer, Input!unseen
<1>1. Screen'
  <2>1. overlay' \in Input!Overlay
    BY Overlays DEF InputInv, UserInv, VoicesInv, Screen, Sessions, Input!Show, Input!Phases,
       Input!Sessions, Input!InputAssumption
  <2>2. {mounted, voiceDraft, run}' \subseteq BOOLEAN /\ text' \in {"empty", "words"}
    BY DEF InputInv, UserInv, Screen
  <2> QED
    BY <2>1, <2>2 DEF Screen
<1>2. Commands' /\ Answers' /\ Spoken' /\ Input!RepliesAreSpokenOnce'
  BY DEF InputInv, UserInv, Commands, Answers, Spoken, Input!RepliesAreSpokenOnce
<1>3. NotBusy'
  BY Overlays DEF InputInv, UserInv, NotBusy, Input!InVoice, Input!Show, Input!Busy, Input!Phases
<1>4. Sessions'
  BY DEF InputInv, VoicesInv, Sessions, Input!Sessions, Input!InputAssumption
<1>5. ASSUME NEW r \in Input!Sessions
      PROVE  Beginning(r)' /\ Held(r)' /\ Ending(r)'
  <2> USE DEF InputInv, VoicesInv, Recordings, Sessions
  <2>1. Beginning(r)'
    BY DEF Beginning, Held, Input!Sessions, Input!InputAssumption
  <2>2. Held(r)'
    BY DEF Beginning, Held
  <2>3. Ending(r)'
    BY Overlays DEF Ending, Beginning, Input!InVoice, Input!Show, Input!Phases, Input!Sessions,
       Input!InputAssumption
  <2> QED
    BY <2>1, <2>2, <2>3
<1>6. ASSUME AllShown, NEW r \in Input!Sessions
      PROVE  Mine(r)' /\ Shown(r)'
  <2> USE DEF InputInv, VoicesInv, Recordings, Sessions, AllShown, Mine
  <2>1. Mine(r)'
    BY <1>6 DEF Beginning, Input!InputAssumption
  <2>2. Shown(r)'
    BY <1>6, Overlays DEF UserInv, NotBusy, Screen, Shown, Beginning, Held,
       Input!InVoice, Input!Show, Input!Busy, Input!Phases, Input!InputAssumption
  <2> QED
    BY <2>1, <2>2
<1>7. AllShown => Lost'
  BY DEF AllShown, Lost
<1> QED
  BY <1>1, <1>2, <1>3, <1>4, <1>5, <1>6, <1>7 DEF InputInv, UserInv, VoicesInv, Recordings,
     AllShown

LEMMA UserSteps ==
  Input!Next <=>
    \/ Input!Navigate \/ Input!CtrlC \/ Input!OpenComposer \/ Input!Type
    \/ Input!SubmitWords \/ Input!SubmitSlash \/ Input!Confirm \/ Input!ConfirmLeave
    \/ Input!MessageSucceeds \/ Input!OtherSucceeds \/ Input!CommandFails \/ Input!DismissError
    \/ (\E t \in Input!Tasks : Input!TaskDone(t)) \/ Input!Speak \/ Input!SpeakEnds
    \/ Input!BeginVoice \/ Input!LeaveSucceeds
    \/ \E s \in Input!Sessions :
         \/ Input!Opened(s) \/ Input!Capture(s) \/ Input!StopVoice(s) \/ Input!CaptureEnds(s)
         \/ Input!Transcribed(s) \/ Input!TranscriptionFails(s) \/ Input!CancelVoice(s)
         \/ Input!CancelEnds(s)
BY DEF Input!Next

LEMMA CalmKeeps ==
  ASSUME InputInv, UserInv', Calm
  PROVE  InputInv' /\ (AllShown => AllShown')
<1>1. VoicesInv'
  <2>1. hidden' \subseteq Input!Sessions
    BY OverlayCases DEF InputInv, UserInv, VoicesInv, Screen, Sessions, Calm
  <2> QED
    BY <2>1, ScreenKeepsVoices DEF InputInv, Calm
<1>2. ASSUME AllShown
      PROVE  AllShown'
  <2>1. ASSUME NEW s \in Input!Sessions, NEW p \in {"starting", "recording"},
               overlay = Input!Voice(s, p)
        PROVE  overlay' = overlay \/ s \in hidden'
    BY <2>1, Overlays DEF Calm, Recorded, Input!Phases
  <2> QED
    BY <1>2, <2>1, ScreenKeepsShown DEF Calm
<1> QED
  BY <1>1, <1>2 DEF InputInv

LEMMA InputStep ==
  ASSUME Input!InputAssumption, InputInv, [Input!Next]_(Input!vars)
  PROVE  InputInv' /\ (AllShown => AllShown')
<1>1. CASE UNCHANGED Input!vars
  BY <1>1 DEF Input!vars, Input!composer, Input!command, Input!answer, Input!voice, Input!unseen,
     InputInv, UserInv,
       Screen, Commands, Answers, Spoken, NotBusy, Input!RepliesAreSpokenOnce, VoicesInv, Sessions,
       Recordings, Beginning, Held, Ending, AllShown, Lost, Mine, Shown
<1>2. CASE UserInv' /\ Calm
  BY <1>2, CalmKeeps
<1> QED
  BY <1>1, <1>2, UserSteps, KeyKeeps, CtrlCKeeps, WordsKeeps, SlashKeeps, ConfirmKeeps,
     MessageKeeps,
     CommandKeeps, ReplyKeeps, BeginKeeps, OpenedKeeps, CaptureKeeps, StopKeeps, CaptureEndsKeeps,
     TranscribedKeeps, FailedKeeps, CancelVoiceKeeps, CancelEndsKeeps, LeaveKeeps DEF InputInv

LEMMA InputHolds ==
  ASSUME Input!InputAssumption
  PROVE  Input!Spec => []InputInv
BY InputInit, InputStep, PTL DEF Input!Spec

LEMMA InputTyped ==
  ASSUME InputInv
  PROVE  Input!TypeOK
BY DEF InputInv, UserInv, VoicesInv, Screen, Commands, Answers, Sessions, Input!TypeOK

LEMMA ShownEnough ==
  ASSUME InputInv, AllShown
  PROVE  Input!RecordingsAreShown
BY Overlays DEF InputInv, UserInv, VoicesInv, Screen, Sessions, Recordings, Held, AllShown, Lost,
     Shown, Input!RecordingsAreShown, Input!InVoice, Input!Phases

LEMMA ShownHolds ==
  ASSUME Input!InputAssumption
  PROVE  Input!Spec => [](Input!TypeOK /\ Input!RecordingsAreShown)
<1>1. Input!Init => InputInv /\ AllShown
  BY InputInit
<1>2. InputInv /\ AllShown /\ [Input!Next]_(Input!vars) => (InputInv /\ AllShown)'
  BY InputStep
<1>3. InputInv /\ AllShown => Input!TypeOK /\ Input!RecordingsAreShown
  BY InputTyped, ShownEnough
<1> QED
  BY <1>1, <1>2, <1>3, PTL DEF Input!Spec

LEMMA DraftStep ==
  ASSUME Input!InputAssumption, InputInv, [Input!Next]_(Input!vars), NEW s \in Input!Sessions,
         job[s] = "request", job'[s] = "over", voiceDraft' # voiceDraft
  PROVE  overlay = Input!Voice(s, "transcribing") /\ s \notin aborted
<1>1. job' # job /\ voiceDraft' # voiceDraft
  OBVIOUS
<1>2. PICK r \in Input!Sessions : Input!Transcribed(r)
  <2>1. CASE Input!BeginVoice
    BY <2>1 DEF Input!BeginVoice, InputInv, VoicesInv, Sessions
  <2> USE DEF Input!composer, Input!voice, Input!unseen
  <2> QED
    BY <1>1, <2>1, UserSteps DEF Input!vars, Input!Navigate, Input!CtrlC, Input!OpenComposer,
       Input!Type, Input!SubmitWords, Input!SubmitSlash,
      Input!Confirm, Input!ConfirmLeave, Input!MessageSucceeds, Input!OtherSucceeds,
      Input!CommandFails,
      Input!DismissError, Input!TaskDone, Input!Speak, Input!SpeakEnds, Input!LeaveSucceeds,
      Input!Opened,
      Input!Capture, Input!StopVoice, Input!CaptureEnds, Input!TranscriptionFails,
      Input!CancelVoice,
      Input!CancelEnds
<1>3. r = s
  BY <1>2 DEF Input!Transcribed, Input!Finished, InputInv, VoicesInv, Sessions
<1>4. Input!InVoice(s) /\ s \notin aborted
  BY <1>2, <1>3 DEF Input!Transcribed, Input!Heard
<1> QED
  BY <1>4, OverlayCases DEF InputInv, UserInv, VoicesInv, Screen, Recordings, Ending, Input!InVoice

-----------------------------------------------------------------------------
(* A recording and a reply.                                                 *)
LEMMA VoiceInitInv ==
  ASSUME Voice!RecordingAssumption, Voice!Init
  PROVE  VoiceInv
<1> USE DEF Voice!RecordingAssumption, Voice!Init, Voice!Signals
<1>1. Flags BY DEF Flags
<1>2. Stages /\ Amounts BY DEF Stages, Amounts
<1>3. Recorder BY DEF Recorder
<1>4. Release BY DEF Release
<1>5. Memory BY DEF Memory
<1>6. Keeping BY DEF Keeping
<1> QED BY <1>1, <1>2, <1>3, <1>4, <1>5, <1>6 DEF VoiceInv

(* start, until the recorder arrives or fails.                             *)
LEMMA StartKeeps ==
  ASSUME VoiceInv, Voice!Start \/ Voice!StartFails \/ Voice!Created
  PROVE  VoiceInv'
<1> USE DEF Voice!Start, Voice!StartFails, Voice!Created, Voice!recording
<1>1. Flags'
  BY DEF VoiceInv, Flags
<1>2. Stages'
  BY DEF VoiceInv, Stages
<1>3. Amounts'
  BY DEF VoiceInv, Amounts, Memory
<1>4. Memory'
  BY DEF VoiceInv, Stages, Amounts, Recorder, Release, Memory
<1>5. Recorder' /\ Release' /\ Keeping'
  BY DEF VoiceInv, Flags, Stages, Amounts, Recorder, Release, Keeping
<1> QED
  BY <1>1, <1>2, <1>3, <1>4, <1>5 DEF VoiceInv

(* A signal is raised, a recording stopped or canceled.                    *)
LEMMA CallKeeps ==
  ASSUME VoiceInv,
         Voice!CallStop \/ Voice!CallCancel \/ \E signal \in Voice!Signals : Voice!Abort(signal)
  PROVE  VoiceInv'
<1> USE DEF Voice!CallStop, Voice!CallCancel, Voice!Abort, Voice!StopRecorder, Voice!recording
<1>1. Flags'
  BY DEF VoiceInv, Flags
<1>2. Stages'
  BY DEF VoiceInv, Stages
<1>3. Amounts'
  BY DEF VoiceInv, Amounts, Memory
<1>4. Memory'
  BY DEF VoiceInv, Stages, Amounts, Recorder, Release, Memory
<1>5. Recorder' /\ Release' /\ Keeping'
  BY DEF VoiceInv, Flags, Stages, Amounts, Recorder, Release, Keeping
<1> QED
  BY <1>1, <1>2, <1>3, <1>4, <1>5 DEF VoiceInv

(* A frame is read.                                                        *)
LEMMA FrameKeeps ==
  ASSUME Voice!RecordingAssumption, VoiceInv, Voice!Frame
  PROVE  VoiceInv'
<1> USE DEF Voice!RecordingAssumption, Voice!Frame, Voice!StopRecorder
<1>1. Flags'
  BY DEF VoiceInv, Flags
<1>2. Stages'
  BY DEF VoiceInv, Stages
<1>3. Amounts'
  BY DEF VoiceInv, Amounts, Memory
<1>4. Memory'
  BY DEF VoiceInv, Stages, Amounts, Recorder, Release, Memory
<1>5. Recorder' /\ Release' /\ Keeping'
  BY DEF VoiceInv, Flags, Stages, Amounts, Recorder, Release, Keeping
<1> QED
  BY <1>1, <1>2, <1>3, <1>4, <1>5 DEF VoiceInv

(* No frame is.                                                            *)
LEMMA ReadFailsKeeps ==
  ASSUME VoiceInv, Voice!ReadFails
  PROVE  VoiceInv'
<1> USE DEF Voice!ReadFails
<1>1. Flags'
  BY DEF VoiceInv, Flags
<1>2. Stages'
  BY DEF VoiceInv, Stages
<1>3. Amounts'
  BY DEF VoiceInv, Amounts, Memory
<1>4. Memory'
  BY DEF VoiceInv, Stages, Amounts, Recorder, Release, Memory
<1>5. Recorder' /\ Release' /\ Keeping'
  BY DEF VoiceInv, Flags, Stages, Amounts, Recorder, Release, Keeping
<1> QED
  BY <1>1, <1>2, <1>3, <1>4, <1>5 DEF VoiceInv

(* The capture is over: the microphone is released, the samples are erased. *)
LEMMA FinishKeeps ==
  ASSUME Voice!RecordingAssumption, VoiceInv,
         Voice!Cancel \/ Voice!StopUnusable \/ Voice!Copy
  PROVE  VoiceInv'
<1> USE DEF Voice!RecordingAssumption, Voice!Cancel, Voice!StopUnusable, Voice!Copy,
            Voice!FinishCapture, Voice!CaptureOver
<1>1. Flags'
  BY DEF VoiceInv, Flags
<1>2. Stages'
  BY DEF VoiceInv, Stages
<1>3. Amounts'
  <2>1. CASE Voice!Cancel
    BY <2>1 DEF VoiceInv, Amounts, Memory
  <2>2. CASE Voice!StopUnusable
    BY <2>2 DEF VoiceInv, Amounts, Memory
  <2>3. CASE Voice!Copy
    BY <2>3 DEF VoiceInv, Amounts, Memory
  <2> QED
    BY <2>1, <2>2, <2>3
<1>4. Memory'
  BY DEF VoiceInv, Stages, Amounts, Recorder, Release, Memory
<1>5. Recorder' /\ Release' /\ Keeping'
  BY DEF VoiceInv, Flags, Stages, Amounts, Recorder, Release, Keeping
<1> QED
  BY <1>1, <1>2, <1>3, <1>4, <1>5 DEF VoiceInv

(* The request.                                                            *)
LEMMA TranscribeKeeps ==
  ASSUME Voice!RecordingAssumption, VoiceInv, Voice!Leased \/ Voice!Transcribed
  PROVE  VoiceInv'
<1> USE DEF Voice!RecordingAssumption, Voice!Leased, Voice!Transcribed, Voice!recording
<1>1. Flags'
  BY DEF VoiceInv, Flags
<1>2. Stages'
  BY DEF VoiceInv, Stages
<1>3. Amounts'
  <2>1. CASE Voice!Leased
    BY <2>1 DEF VoiceInv, Amounts, Memory
  <2>2. CASE Voice!Transcribed
    BY <2>2 DEF VoiceInv, Amounts, Memory
  <2> QED
    BY <2>1, <2>2
<1>4. Memory'
  BY DEF VoiceInv, Stages, Amounts, Recorder, Release, Memory
<1>5. Recorder' /\ Release' /\ Keeping'
  BY DEF VoiceInv, Flags, Stages, Amounts, Recorder, Release, Keeping
<1> QED
  BY <1>1, <1>2, <1>3, <1>4, <1>5 DEF VoiceInv

(* speak, until there is a file.                                           *)
LEMMA SpeakKeeps ==
  ASSUME Voice!RecordingAssumption, VoiceInv,
         Voice!Speak \/ Voice!SpeechLeased \/ Voice!Fetched
  PROVE  VoiceInv'
<1> USE DEF Voice!RecordingAssumption, Voice!Speak, Voice!SpeechLeased, Voice!Fetched,
            Voice!recording
<1>1. Flags'
  BY DEF VoiceInv, Flags
<1>2. Stages'
  BY DEF VoiceInv, Stages
<1>3. Amounts'
  <2>1. CASE Voice!Speak
    BY <2>1 DEF VoiceInv, Amounts, Memory
  <2>2. CASE Voice!SpeechLeased
    BY <2>2 DEF VoiceInv, Amounts, Memory
  <2>3. CASE Voice!Fetched
    BY <2>3 DEF VoiceInv, Amounts, Memory
  <2> QED
    BY <2>1, <2>2, <2>3
<1>4. Memory'
  BY DEF VoiceInv, Stages, Amounts, Recorder, Release, Memory
<1>5. Recorder' /\ Release' /\ Keeping'
  BY DEF VoiceInv, Flags, Stages, Amounts, Recorder, Release, Keeping
<1> QED
  BY <1>1, <1>2, <1>3, <1>4, <1>5 DEF VoiceInv

(* It is over.                                                             *)
LEMMA SilenceKeeps ==
  ASSUME Voice!RecordingAssumption, VoiceInv, Voice!Silence, speech # "none"
  PROVE  VoiceInv'
<1> USE DEF Voice!RecordingAssumption, Voice!Silence, Voice!recording
<1>1. Flags'
  BY DEF VoiceInv, Flags
<1>2. Stages'
  BY DEF VoiceInv, Stages
<1>3. Amounts'
  BY DEF VoiceInv, Amounts, Memory
<1>4. Memory'
  BY DEF VoiceInv, Stages, Amounts, Recorder, Release, Memory
<1>5. Recorder' /\ Release' /\ Keeping'
  BY DEF VoiceInv, Flags, Stages, Amounts, Recorder, Release, Keeping
<1> QED
  BY <1>1, <1>2, <1>3, <1>4, <1>5 DEF VoiceInv

(* The next player is tried.                                               *)
LEMMA NextPlayerKeeps ==
  ASSUME Voice!RecordingAssumption, VoiceInv, player < Players, player' = player + 1,
         UNCHANGED <<start, Voice!recording, stop, cancel, speech, signalled, sound, leases, file>>
  PROVE  VoiceInv'
<1> USE DEF Voice!RecordingAssumption, Voice!recording
<1>1. Flags'
  BY DEF VoiceInv, Flags
<1>2. Stages'
  BY DEF VoiceInv, Stages
<1>3. Amounts'
  BY DEF VoiceInv, Amounts, Memory
<1>4. Memory'
  BY DEF VoiceInv, Stages, Amounts, Recorder, Release, Memory
<1>5. Recorder' /\ Release' /\ Keeping'
  BY DEF VoiceInv, Flags, Stages, Amounts, Recorder, Release, Keeping
<1> QED
  BY <1>1, <1>2, <1>3, <1>4, <1>5 DEF VoiceInv

LEMMA VoiceHolds ==
  ASSUME Voice!RecordingAssumption
  PROVE  Voice!Spec => []VoiceInv
<1>1. ASSUME VoiceInv, [Voice!Next]_(Voice!vars)
      PROVE  VoiceInv'
  <2>1. CASE UNCHANGED Voice!vars
    BY <1>1, <2>1 DEF Voice!vars, Voice!recording, VoiceInv, Flags, Stages, Amounts,
                      Recorder, Release, Memory, Keeping
  <2>2. CASE Voice!Capture
    BY <1>1, <2>2, FrameKeeps, ReadFailsKeeps DEF Voice!Capture
  <2>3. CASE Voice!Finish
    BY <1>1, <2>3, FinishKeeps, TranscribeKeeps DEF Voice!Finish
  <2>4. CASE Voice!Talk
    <3>1. CASE Voice!SpeechFails \/ Voice!Played
      BY <1>1, <3>1, SilenceKeeps DEF Voice!SpeechFails, Voice!Played
    <3>2. CASE Voice!PlayerFails /\ player < Players
      BY <1>1, <3>2, NextPlayerKeeps DEF Voice!PlayerFails
    <3>3. CASE Voice!PlayerFails /\ ~(player < Players)
      BY <1>1, <3>3, SilenceKeeps DEF Voice!PlayerFails
    <3> QED
      BY <1>1, <2>4, <3>1, <3>2, <3>3, SpeakKeeps DEF Voice!Talk
  <2> QED
    BY <1>1, <2>1, <2>2, <2>3, <2>4, StartKeeps, CallKeeps, SpeakKeeps DEF Voice!Next
<1> QED
  BY <1>1, VoiceInitInv, PTL DEF Voice!Spec

LEMMA VoiceEnough ==
  ASSUME VoiceInv
  PROVE  Voice!TypeOK /\ Voice!NothingIsKept
<1>1. Voice!TypeOK
  BY DEF VoiceInv, Flags, Stages, Amounts, Voice!TypeOK
<1>2. Voice!NothingIsKept
  BY DEF VoiceInv, Stages, Recorder, Release, Memory, Keeping, Voice!NothingIsKept
<1> QED
  BY <1>1, <1>2

-----------------------------------------------------------------------------
(* The results.                                                             *)

(* The inductive invariant of the view: however snapshots of the two readers, *)
(* pages, resyncs, failures and commands alternate, the timeline lists what it *)
(* should, what the pump has fetched goes on from its cursor, no reader is     *)
(* ahead of the controller, and an event is left for every command.            *)
THEOREM ViewHolds == Spec => []ViewInv
BY ViewInitInv, ViewStep, PTL DEF Spec

(* TimelineComplete: no hole, no repetition, nothing beyond the cursor, for    *)
(* any lengths of logs, pages, snapshots and timelines.                        *)
THEOREM TimelineHolds == Spec => []TimelineComplete
BY ViewHolds, TimelineEnough, PTL

(* RecordingsAreShown, for any number of recordings, tasks, samples and        *)
(* players, whenever Ctrl+C is pressed.                                        *)
THEOREM RecordingsShown ==
  ASSUME Input!InputAssumption, Voice!RecordingAssumption
  PROVE  Spec /\ Input!Spec /\ Voice!Spec => []RecordingsAreShown
<1>1. ViewInv => TypeOK
  BY DEF ViewInv
<1>2. VoiceInv => Voice!TypeOK /\ Voice!NothingIsKept
  BY VoiceEnough
<1>3. /\ TypeOK
      /\ Input!TypeOK /\ Input!RecordingsAreShown
      /\ Voice!TypeOK /\ Voice!NothingIsKept
      => RecordingsAreShown
  BY DEF RecordingsAreShown
<1> QED
  BY <1>1, <1>2, <1>3, ViewHolds, ShownHolds, VoiceHolds, PTL

(* RepliesAreSpokenOnce, for any number of tasks that are answered by voice.   *)
THEOREM RepliesSpokenOnce ==
  ASSUME Input!InputAssumption
  PROVE  Input!Spec => []RepliesAreSpokenOnce
<1>1. InputInv => RepliesAreSpokenOnce
  BY DEF InputInv, UserInv, RepliesAreSpokenOnce
<1> QED
  BY <1>1, InputHolds, PTL

(* DraftsAreHeard: a transcript that changes the draft is of the recording     *)
(* that the room waits for, and not one that was canceled.                     *)
THEOREM DraftsHeard ==
  ASSUME Input!InputAssumption
  PROVE  Input!Spec => DraftsAreHeard
<1>1. InputInv /\ [Input!Next]_(Input!vars) =>
        [\A s \in Input!Sessions :
           job[s] = "request" /\ job'[s] = "over" /\ voiceDraft' # voiceDraft
             => overlay = Input!Voice(s, "transcribing") /\ s \notin aborted]_(Input!vars)
  BY DraftStep
<1> QED
  BY <1>1, InputHolds, PTL DEF Input!Spec, Input!DraftsAreHeard, DraftsAreHeard
=============================================================================
