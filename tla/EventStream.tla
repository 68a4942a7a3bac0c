----------------------------- MODULE EventStream -----------------------------
(***************************************************************************)
(* The event bus of the backend with the flows that publish on it, the SSE *)
(* endpoint that streams it and the browser client that follows a scan.    *)
(* The bus runs on one thread: a step is the code between two awaits, and  *)
(* a flow that flushes its buffered events lets nobody in between.         *)
(***************************************************************************)
EXTENDS Naturals, Sequences, FiniteSets

CONSTANTS Scans,       \* scans, each the work of one flow
          Clients,     \* browser clients, each following one scan
          RingPerScan, \* events kept per scan for replay
          MaxScans,    \* scans tracked before one is evicted
          MaxLastId,   \* MAX_LAST_EVENT_ID: a larger Last-Event-ID is cut to it
          MaxEvents,   \* bound: events of a flow
          MaxTime      \* bound: milliseconds that can be told apart

ASSUME ConstantsAssumption ==
  /\ IsFiniteSet(Scans) /\ IsFiniteSet(Clients)
  /\ RingPerScan \in Nat \ {0} /\ MaxScans \in Nat \ {0}
  /\ MaxLastId \in Nat /\ MaxEvents \in Nat /\ MaxTime \in Nat

VARIABLES sequences,   \* last sequence of each scan, 0 when the scan is not tracked
          rings,       \* the replay window of each scan
          touched,     \* time of the last publish
          subscribers, \* identity of the subscriber set of each scan, 0 when none
          evicted,     \* scans that were evicted at some time (history)
          now,         \* Date.now()
          mode,        \* per scan: how far its flow is
          pending,     \* per scan: events buffered before the scan has an id
          emitted,     \* per scan: events emitted by its flow (history)
          conn         \* per client: its connection and what it has shown

bus == <<sequences, rings, touched, subscribers, evicted>>
flow == <<mode, pending, emitted>>
vars == <<bus, now, flow, conn>>

(* An event: its place in the emission order of its flow, SCAN_STARTED     *)
(* being 0, and the sequence the bus gave it.                              *)
Event == [nth : Nat, sequence : Nat]
Mode == {"early", "row", "flushing", "running", "dropped"}
Connection ==
  [at : {"away", "gate", "open", "refused", "left", "ghost"}, scan : Scans,
   set : Nat, lastId : Nat, wire : Seq(Event), view : Seq(Event)]

Init ==
  /\ sequences = [s \in Scans |-> 0] /\ touched = [s \in Scans |-> 0]
  /\ rings = [s \in Scans |-> <<>>] /\ subscribers = [s \in Scans |-> 0]
  /\ evicted = {} /\ now = 0
  /\ mode = [s \in Scans |-> "early"]
  /\ pending = [s \in Scans |-> <<>>] /\ emitted = [s \in Scans |-> 0]
  /\ conn \in [Clients -> [at : {"away"}, scan : Scans, set : {0}, lastId : {0},
                           wire : {<<>>}, view : {<<>>}]]

-----------------------------------------------------------------------------
(* The bus *)

Tracked == {s \in Scans : sequences[s] > 0}

(* The connections in a subscriber set, which outlives its place in the    *)
(* map of the bus: each unsubscribe function keeps the set it was added to.*)
Streaming == {"open", "ghost"}
Members(s, set) ==
  {c \in Clients : conn[c].at \in Streaming /\ conn[c].scan = s /\ conn[c].set = set}

RingPush(ring, e) ==
  IF Len(ring) < RingPerScan THEN Append(ring, e) ELSE Append(Tail(ring), e)

(* evictLeastRecentlyPublished: the scan published on least recently (any  *)
(* of them when the clock does not tell) makes room for a new one.         *)
Full == Cardinality(Tracked) >= MaxScans
Victims(s) ==
  IF Full /\ s \notin Tracked
  THEN {{v} : v \in {v \in Tracked : \A w \in Tracked : touched[v] <= touched[w]}}
  ELSE {{}}

(* What release() leaves of a map of the bus.                              *)
Without(map, gone, none) == [s \in Scans |-> IF s \in gone THEN none ELSE map[s]]

(* The SSE subscriber pushes the frame on its own buffer and drains the    *)
(* buffer at once, so the buffer is never found full.                      *)
Notify(s, set, e) ==
  [c \in Clients |->
     IF set # 0 /\ c \in Members(s, set) /\ conn[c].at = "open"
     THEN [conn[c] EXCEPT !.wire = Append(@, e)] ELSE conn[c]]

Publish(s, nth) ==
  \E gone \in Victims(s) :
    LET e == [nth |-> nth, sequence |-> sequences[s] + 1]
    IN /\ sequences' = [Without(sequences, gone, 0) EXCEPT ![s] = e.sequence]
       /\ rings' = [Without(rings, gone, <<>>) EXCEPT ![s] = RingPush(@, e)]
       /\ touched' = [Without(touched, gone, 0) EXCEPT ![s] = now]
       /\ subscribers' = Without(subscribers, gone, 0)
       /\ evicted' = evicted \cup gone
       /\ conn' = Notify(s, subscribers[s], e)

-----------------------------------------------------------------------------
(* The flow of a scan: DeferredEventPublisher buffers what happens before  *)
(* the scan has an id and flushes it right behind SCAN_STARTED.            *)

Settled == \A s \in Scans : mode[s] # "flushing"
Step(s, from, to) == mode[s] = from /\ mode' = [mode EXCEPT ![s] = to]

EmitEarly(s) ==
  /\ Settled /\ mode[s] = "early" /\ emitted[s] < MaxEvents
  /\ emitted' = [emitted EXCEPT ![s] = @ + 1]
  /\ pending' = [pending EXCEPT ![s] = Append(@, emitted[s] + 1)]
  /\ UNCHANGED <<bus, now, mode, conn>>

CreateScan(s) ==
  /\ Settled /\ Step(s, "early", "row")
  /\ UNCHANGED <<bus, now, pending, emitted, conn>>

(* The flow fails before the scan has an id.                               *)
Discard(s) ==
  /\ Settled /\ Step(s, "early", "dropped")
  /\ pending' = [pending EXCEPT ![s] = <<>>]
  /\ UNCHANGED <<bus, now, emitted, conn>>

Started(s) ==
  /\ Settled /\ Step(s, "row", "flushing")
  /\ Publish(s, 0)
  /\ UNCHANGED <<now, pending, emitted>>

Flush(s) ==
  /\ mode[s] = "flushing"
  /\ \/ /\ pending[s] # <<>>
        /\ Publish(s, Head(pending[s]))
        /\ pending' = [pending EXCEPT ![s] = Tail(@)]
        /\ UNCHANGED mode
     \/ /\ pending[s] = <<>>
        /\ Step(s, "flushing", "running") /\ UNCHANGED <<bus, pending, conn>>
  /\ UNCHANGED <<now, emitted>>

Emit(s) ==
  /\ Settled /\ mode[s] = "running" /\ emitted[s] < MaxEvents
  /\ emitted' = [emitted EXCEPT ![s] = @ + 1]
  /\ Publish(s, emitted[s] + 1)
  /\ UNCHANGED <<now, mode, pending>>

Tick == Settled /\ now < MaxTime /\ now' = now + 1 /\ UNCHANGED <<bus, flow, conn>>

-----------------------------------------------------------------------------
(* The endpoint and the browser.  Connect also stands for EventSource      *)
(* connecting again by itself, with the last id it has seen.               *)

At(c, from, to) == conn[c].at = from /\ conn' = [conn EXCEPT ![c].at = to]
HasRow(s) == mode[s] \notin {"early", "dropped"}

Connect(c) == Settled /\ At(c, "away", "gate") /\ UNCHANGED <<bus, now, flow>>

(* The scan-existence gate awaits the database; 404 ends the EventSource.  *)
Refuse(c) ==
  /\ Settled /\ ~HasRow(conn[c].scan) /\ At(c, "gate", "refused")
  /\ UNCHANGED <<bus, now, flow>>

(* The user leaves while the gate is awaited.                              *)
Leave(c) == Settled /\ At(c, "gate", "left") /\ UNCHANGED <<bus, now, flow>>

(* Last-Event-ID resumes behind the last frame that was read.  A window is  *)
(* in sequence order, so what replay() filters out is its beginning.       *)
Behind(ring, after) ==
  LET read == {k \in DOMAIN ring : ring[k].sequence <= after}
  IN SubSeq(ring, Cardinality(read) + 1, Len(ring))
ReplaySkips(s, id) == Behind(rings[s], id + 1)  \* slip: one too far
Replay(s, id) == Behind(rings[s], IF id < MaxLastId THEN id ELSE MaxLastId)

FreshSet(s) == CHOOSE n \in 1 .. Cardinality(Clients) + 1 : Members(s, n) = {}

(* Replay and subscription happen in one step.  The close listeners are    *)
(* registered last: a connection that closed during the gate never fires   *)
(* them and stays subscribed.                                              *)
Stream(c) ==
  LET s == conn[c].scan
      set == IF subscribers[s] = 0 THEN FreshSet(s) ELSE subscribers[s]
  IN /\ Settled /\ HasRow(s) /\ conn[c].at \in {"gate", "left"}
     /\ subscribers' = [subscribers EXCEPT ![s] = set]
     /\ conn' = [conn EXCEPT ![c].at = IF @ = "gate" THEN "open" ELSE "ghost",
                             ![c].set = set,
                             ![c].wire = IF conn[c].at = "gate" THEN Replay(s, conn[c].lastId)
                                         ELSE <<>>]
     /\ UNCHANGED <<sequences, rings, touched, evicted, now, flow>>

(* The client keeps the keys of what it has shown.                         *)
ShowsKey(view, e) == Append(view, [nth |-> e.nth])  \* slip: the key in place of the event
Show(view, e) == IF \E k \in DOMAIN view : view[k].nth = e.nth THEN view ELSE Append(view, e)

Read(c) ==
  /\ Settled /\ conn[c].at = "open" /\ conn[c].wire # <<>>
  /\ LET e == Head(conn[c].wire)
     IN conn' = [conn EXCEPT ![c].wire = Tail(@), ![c].lastId = e.sequence,
                             ![c].view = Show(@, e)]
  /\ UNCHANGED <<bus, now, flow>>

(* The connection drops, with what is still on the wire.  unsubscribe()    *)
(* empties its own set and then removes the entry of the scan, whichever   *)
(* set that entry holds by now.                                            *)
KeepsEntry(s, c) == subscribers[s]  \* slip: the set is left in the map
Unsubscribed(s, c) == IF Members(s, conn[c].set) = {c} THEN 0 ELSE subscribers[s]

Close(c) ==
  LET s == conn[c].scan
  IN /\ Settled /\ conn[c].at = "open"
     /\ subscribers' = [subscribers EXCEPT ![s] = Unsubscribed(s, c)]
     /\ conn' = [conn EXCEPT ![c].at = "away", ![c].set = 0, ![c].wire = <<>>]
     /\ UNCHANGED <<sequences, rings, touched, evicted, now, flow>>

-----------------------------------------------------------------------------
Flow(s) == EmitEarly(s) \/ CreateScan(s) \/ Discard(s) \/ Started(s) \/ Flush(s) \/ Emit(s)
Client(c) == Connect(c) \/ Refuse(c) \/ Leave(c) \/ Stream(c) \/ Read(c) \/ Close(c)
Next == (\E s \in Scans : Flow(s)) \/ (\E c \in Clients : Client(c)) \/ Tick
Spec == Init /\ [][Next]_vars

-----------------------------------------------------------------------------
(* Properties *)

(* Every variable keeps its type.                                          *)
TypeOK ==
  /\ sequences \in [Scans -> Nat] /\ touched \in [Scans -> Nat]
  /\ rings \in [Scans -> Seq(Event)] /\ subscribers \in [Scans -> Nat]
  /\ evicted \subseteq Scans /\ now \in 0 .. MaxTime
  /\ mode \in [Scans -> Mode] /\ emitted \in [Scans -> 0 .. MaxEvents]
  /\ pending \in [Scans -> Seq(Nat)]
  /\ conn \in [Clients -> Connection]

(* The replay window is the unbroken tail of what was published: bounded,  *)
(* never with a hole, never stale after an eviction.                       *)
RingIsTail ==
  \A s \in Scans :
    /\ Len(rings[s]) = IF sequences[s] < RingPerScan THEN sequences[s] ELSE RingPerScan
    /\ \A k \in 1 .. Len(rings[s]) :
         rings[s][k].sequence = sequences[s] - Len(rings[s]) + k

(* The bus never tracks more scans than its cap, whatever is published.    *)
TracksAtMostMaxScans == Cardinality(Tracked) <= MaxScans

(* What a client of a scan that was never evicted shows is in the order of *)
(* emission, SCAN_STARTED first and nothing twice, over any number of      *)
(* disconnections and lost frames.                                         *)
ViewInOrder ==
  \A c \in Clients :
    conn[c].scan \notin evicted =>
      \A k, m \in DOMAIN conn[c].view : k < m => conn[c].view[k].nth < conn[c].view[m].nth

(* A connected client of such a scan misses nothing that can be replayed:  *)
(* all of the window has been shown or is on its wire.                     *)
ConnectedMissesNothing ==
  \A c \in Clients :
    conn[c].at = "open" /\ conn[c].scan \notin evicted =>
      \A k \in DOMAIN rings[conn[c].scan] :
        LET e == rings[conn[c].scan][k]
        IN (\E m \in DOMAIN conn[c].view : conn[c].view[m] = e)
           \/ (\E m \in DOMAIN conn[c].wire : conn[c].wire[m] = e)

(* What a client is shown: nothing out of order or twice, nothing left out.*)
ViewIsFaithful == ViewInOrder /\ ConnectedMissesNothing

(* The subscriber sets of the bus hold nothing but connections that stream.*)
EntriesHaveMembers ==
  \A s \in Scans : subscribers[s] # 0 => Members(s, subscribers[s]) # {}

(* What the bus keeps: exact windows, of a bounded number of scans, and    *)
(* no subscriber set that nobody is in.                                    *)
BusIsExact == RingIsTail /\ TracksAtMostMaxScans /\ EntriesHaveMembers

(* The id of the frames a client reads only grows: it is documented as the *)
(* per-scan monotonic sequence and used to resume.                         *)
LastIdGrows == [][\A c \in Clients : conn'[c].lastId >= conn[c].lastId]_vars
=============================================================================
