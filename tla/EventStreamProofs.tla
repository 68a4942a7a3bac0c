-------------------------- MODULE EventStreamProofs --------------------------
(***************************************************************************)
(* Proofs about EventStream for every finite set of scans and of clients,  *)
(* every size of the replay window and of the bus, and every cut of the    *)
(* Last-Event-ID.                                                          *)
(***************************************************************************)
EXTENDS EventStream, FiniteSetTheorems, SequenceTheorems, TLAPS

USE ConstantsAssumption

-----------------------------------------------------------------------------
(* The strengthening.  As long as a scan was never evicted, the sequence   *)
(* of an event is one more than its place in the emission order of its     *)
(* flow, because the flow publishes in that order.                         *)

Numbered(e) == e.sequence = e.nth + 1

NextInTurn(s) ==
  /\ mode[s] \in {"early", "row"} =>
       /\ sequences[s] = 0 /\ Len(pending[s]) = emitted[s]
       /\ \A k \in 1 .. Len(pending[s]) : pending[s][k] = k
  /\ mode[s] = "flushing" =>
       /\ sequences[s] + Len(pending[s]) = emitted[s] + 1
       /\ \A k \in 1 .. Len(pending[s]) : pending[s][k] = sequences[s] + k - 1
  /\ mode[s] = "running" => sequences[s] = emitted[s] + 1

WindowNumbered(s) == \A k \in DOMAIN rings[s] : Numbered(rings[s][k])

FlowInTurn == \A s \in Scans \ evicted : NextInTurn(s) /\ WindowNumbered(s)

(* What has been shown and what is still to be shown: an event of the      *)
(* window or of the wire that the view does not have is behind all it has. *)
Has(q, e) == \E k \in 1 .. Len(q) : q[k] = e
BehindAll(q, e) == \A k \in 1 .. Len(q) : q[k].sequence < e.sequence
InSequence(q, top) ==
  /\ \A k \in 1 .. Len(q) : Numbered(q[k]) /\ q[k].sequence <= top
  /\ \A k, m \in 1 .. Len(q) : k < m => q[k].sequence < q[m].sequence

(* A frame that was read, up to the last id, needs no second reading.      *)
Reads(view, id, ring, n) ==
  /\ id <= n /\ InSequence(view, n)
  /\ \A k \in 1 .. Len(ring) :
       Has(view, ring[k]) \/ (BehindAll(view, ring[k]) /\ id < ring[k].sequence)

(* What the window holds is on the wire if it has not been shown.          *)
Wired(view, wire, ring, n) ==
  /\ InSequence(wire, n)
  /\ \A k \in 1 .. Len(wire) : Has(view, wire[k]) \/ BehindAll(view, wire[k])
  /\ \A k \in 1 .. Len(ring) : Has(view, ring[k]) \/ Has(wire, ring[k])

(* While a client is connected, its set is the one the bus notifies.       *)
KeepsUp(c) ==
  LET s == conn[c].scan
  IN /\ Reads(conn[c].view, conn[c].lastId, rings[s], sequences[s])
     /\ conn[c].at = "open" =>
          /\ subscribers[s] # 0 /\ conn[c].set = subscribers[s]
          /\ Wired(conn[c].view, conn[c].wire, rings[s], sequences[s])

ClientInv == \A c \in Clients : conn[c].scan \notin evicted => KeepsUp(c)

-----------------------------------------------------------------------------
(* What a publication does to the maps of the bus: at most one other scan  *)
(* is evicted, and only when a scan that is not tracked takes its place.   *)

PublishedWith(s, nth, gone) ==
  /\ gone \subseteq Tracked \ {s} /\ (s \in Tracked => gone = {})
  /\ IF Full /\ s \notin Tracked THEN \E v \in Tracked : gone = {v} ELSE gone = {}
  /\ sequences' = [z \in Scans |-> IF z \in gone THEN 0 ELSE
                     IF z = s THEN sequences[s] + 1 ELSE sequences[z]]
  /\ rings' = [z \in Scans |-> IF z \in gone THEN <<>> ELSE
                 IF z = s THEN RingPush(rings[s], [nth |-> nth, sequence |-> sequences[s] + 1])
                 ELSE rings[z]]
  /\ touched' = [z \in Scans |-> IF z \in gone THEN 0 ELSE IF z = s THEN now ELSE touched[z]]
  /\ subscribers' = [z \in Scans |-> IF z \in gone THEN 0 ELSE subscribers[z]]
  /\ evicted' = evicted \cup gone
  /\ conn' = Notify(s, subscribers[s], [nth |-> nth, sequence |-> sequences[s] + 1])

LEMMA PublishFacts ==
  ASSUME TypeOK, NEW s \in Scans, NEW nth \in Nat, Publish(s, nth)
  PROVE  \E gone \in SUBSET Scans : PublishedWith(s, nth, gone)
<1> DEFINE e == [nth |-> nth, sequence |-> sequences[s] + 1]
<1>1. PICK gone \in Victims(s) :
        /\ sequences' = [Without(sequences, gone, 0) EXCEPT ![s] = e.sequence]
        /\ rings' = [Without(rings, gone, <<>>) EXCEPT ![s] = RingPush(@, e)]
        /\ touched' = [Without(touched, gone, 0) EXCEPT ![s] = now]
        /\ subscribers' = Without(subscribers, gone, 0)
        /\ evicted' = evicted \cup gone
        /\ conn' = Notify(s, subscribers[s], e)
  BY DEF Publish
<1>2. /\ gone \subseteq Tracked \ {s} /\ (s \in Tracked => gone = {})
      /\ IF Full /\ s \notin Tracked THEN \E v \in Tracked : gone = {v} ELSE gone = {}
  BY <1>1 DEF Victims
<1>3. gone \in SUBSET Scans
  BY <1>2 DEF Tracked
<1> QED BY <1>1, <1>2, <1>3 DEF PublishedWith, Without

(* A frame that is pushed replaces the oldest of a full window.            *)
LEMMA RingPushFacts ==
  ASSUME NEW ring \in Seq(Event), NEW e \in Event, Len(ring) <= RingPerScan
  PROVE  /\ RingPush(ring, e) \in Seq(Event)
         /\ Len(RingPush(ring, e)) = IF Len(ring) < RingPerScan THEN Len(ring) + 1 ELSE RingPerScan
         /\ RingPush(ring, e)[Len(RingPush(ring, e))] = e
         /\ \A k \in 1 .. Len(RingPush(ring, e)) - 1 :
              RingPush(ring, e)[k] = ring[k + 1 + Len(ring) - Len(RingPush(ring, e))]
<1>1. CASE Len(ring) < RingPerScan
  BY <1>1, AppendProperties DEF RingPush
<1>2. CASE Len(ring) = RingPerScan
  <2>1. ring # <<>>
    BY <1>2
  <2>2. /\ Tail(ring) \in Seq(Event) /\ Len(Tail(ring)) = Len(ring) - 1
        /\ \A k \in 1 .. Len(Tail(ring)) : Tail(ring)[k] = ring[k + 1]
    BY <2>1, HeadTailProperties
  <2> DEFINE rest == Tail(ring)
  <2> HIDE DEF rest
  <2>3. /\ Append(rest, e) \in Seq(Event) /\ Len(Append(rest, e)) = Len(ring)
        /\ \A k \in 1 .. Len(ring) - 1 : Append(rest, e)[k] = ring[k + 1]
        /\ Append(rest, e)[Len(ring)] = e
    BY <1>2, <2>2, AppendProperties DEF rest
  <2>4. RingPush(ring, e) = Append(rest, e)
    BY <1>2 DEF RingPush, rest
  <2> QED BY <1>2, <2>3, <2>4
<1> QED BY <1>1, <1>2

-----------------------------------------------------------------------------
(* Types.                                                                  *)

LEMMA MembersAreClients == \A s, n : Members(s, n) \subseteq Clients
BY DEF Members

(* A client is in one set only, so one of the sets 1 .. Clients + 1 of a   *)
(* scan is empty: the identity a new set takes exists.                     *)
LEMMA FreshSetExists ==
  ASSUME NEW s
  PROVE  FreshSet(s) \in Nat \ {0} /\ Members(s, FreshSet(s)) = {}
<1> DEFINE N == Cardinality(Clients)
           f == [n \in 1 .. N + 1 |-> CHOOSE c \in Clients : c \in Members(s, n)]
<1>1. N \in Nat
  BY FS_CardinalityType
<1>2. ASSUME \A n \in 1 .. N + 1 : Members(s, n) # {} PROVE FALSE
  <2>1. \A n \in 1 .. N + 1 : f[n] \in Clients /\ f[n] \in Members(s, n)
    BY <1>2 DEF Members
  <2>2. IsFiniteSet(1 .. N + 1) /\ Cardinality(1 .. N + 1) = N + 1
    BY <1>1, FS_Interval
  <2>3. f \in [1 .. N + 1 -> Clients]
    BY <2>1
  <2> HIDE DEF f, N
  <2>4. PICK x, y \in 1 .. N + 1 : x # y /\ f[x] = f[y]
    BY <1>1, <2>2, <2>3, FS_PigeonHole DEF N
  <2>5. conn[f[x]].set = x /\ conn[f[y]].set = y
    BY <2>1 DEF Members
  <2> QED BY <2>4, <2>5
<1>3. \E n \in 1 .. N + 1 : Members(s, n) = {}
  BY <1>2
<1>4. FreshSet(s) \in 1 .. N + 1 /\ Members(s, FreshSet(s)) = {}
  BY <1>3 DEF FreshSet
<1> QED BY <1>1, <1>4

LEMMA NotifyTypes ==
  ASSUME TypeOK, NEW s, NEW set, NEW e \in Event
  PROVE  Notify(s, set, e) \in [Clients -> Connection]
<1> SUFFICES ASSUME NEW c \in Clients PROVE [conn[c] EXCEPT !.wire = Append(@, e)] \in Connection
  BY DEF Notify, TypeOK
<1>1. conn[c] \in Connection /\ conn[c].wire \in Seq(Event)
  BY DEF TypeOK, Connection
<1>2. Append(conn[c].wire, e) \in Seq(Event)
  BY <1>1, AppendProperties
<1> QED BY <1>1, <1>2 DEF Connection

(* What a publication makes of the bus and of the connections.             *)
LEMMA PublishTypes ==
  ASSUME TypeOK, RingIsTail, NEW s \in Scans, NEW nth \in Nat, Publish(s, nth)
  PROVE  /\ sequences' \in [Scans -> Nat] /\ touched' \in [Scans -> Nat]
         /\ rings' \in [Scans -> Seq(Event)] /\ subscribers' \in [Scans -> Nat]
         /\ evicted' \subseteq Scans /\ conn' \in [Clients -> Connection]
<1> DEFINE e == [nth |-> nth, sequence |-> sequences[s] + 1]
<1>1. PICK gone \in SUBSET Scans : PublishedWith(s, nth, gone)
  BY PublishFacts
<1>2. e \in Event
  BY DEF TypeOK, Event
<1>3. RingPush(rings[s], e) \in Seq(Event)
  <2>1. rings[s] \in Seq(Event) /\ Len(rings[s]) <= RingPerScan
    BY DEF TypeOK, RingIsTail
  <2> QED BY <1>2, <2>1, RingPushFacts
<1>4. conn' \in [Clients -> Connection]
  BY <1>1, <1>2, NotifyTypes DEF PublishedWith
<1>5. <<>> \in Seq(Event)
  OBVIOUS
<1>6. rings' \in [Scans -> Seq(Event)]
  BY <1>1, <1>3, <1>5 DEF PublishedWith, TypeOK
<1>7. /\ sequences' \in [Scans -> Nat] /\ touched' \in [Scans -> Nat]
      /\ subscribers' \in [Scans -> Nat] /\ evicted' \subseteq Scans
  BY <1>1 DEF PublishedWith, TypeOK
<1> QED BY <1>4, <1>6, <1>7

(* The window after a publication is again the tail of what was published. *)
IsTail(ring, n) ==
  /\ Len(ring) = IF n < RingPerScan THEN n ELSE RingPerScan
  /\ \A k \in 1 .. Len(ring) : ring[k].sequence = n - Len(ring) + k

LEMMA PushKeepsTail ==
  ASSUME NEW ring \in Seq(Event), NEW n \in Nat, IsTail(ring, n),
         NEW e \in Event, e.sequence = n + 1
  PROVE  IsTail(RingPush(ring, e), n + 1)
<1> DEFINE new == RingPush(ring, e)
<1>1. /\ Len(ring) \in Nat /\ RingPerScan \in Nat \ {0}
      /\ Len(ring) = IF n < RingPerScan THEN n ELSE RingPerScan
      /\ \A k \in 1 .. Len(ring) : ring[k].sequence = n - Len(ring) + k
      /\ Len(ring) <= RingPerScan
  BY DEF IsTail
<1>2. /\ new \in Seq(Event)
      /\ Len(new) = IF Len(ring) < RingPerScan THEN Len(ring) + 1 ELSE RingPerScan
      /\ new[Len(new)] = e
      /\ \A k \in 1 .. Len(new) - 1 : new[k] = ring[k + 1 + Len(ring) - Len(new)]
  <2> HIDE DEF new
  <2>1. Len(ring) <= RingPerScan
    BY <1>1
  <2> QED BY <2>1, RingPushFacts DEF new
<1> HIDE DEF new
<1>3. Len(new) = IF n + 1 < RingPerScan THEN n + 1 ELSE RingPerScan
  BY <1>1, <1>2
<1>4. ASSUME NEW k \in 1 .. Len(new) - 1 PROVE new[k].sequence = n + 1 - Len(new) + k
  <2> DEFINE j == k + 1 + Len(ring) - Len(new)
  <2>1. j \in 1 .. Len(ring) /\ new[k] = ring[j]
    BY <1>1, <1>2, <1>4
  <2>2. ring[j].sequence = n - Len(ring) + j
    BY <1>1, <2>1
  <2> QED BY <1>1, <1>3, <2>1, <2>2
<1>5. Len(new) \in Nat /\ \A k \in 1 .. Len(new) : k = Len(new) \/ k \in 1 .. Len(new) - 1
  BY <1>2
<1>6. new[Len(new)].sequence = n + 1 - Len(new) + Len(new)
  BY <1>2, <1>5
<1>7. ASSUME NEW k \in 1 .. Len(new) PROVE new[k].sequence = n + 1 - Len(new) + k
  <2>1. CASE k = Len(new)
    BY <1>6, <2>1
  <2>2. CASE k \in 1 .. Len(new) - 1
    BY <1>4, <2>2
  <2> QED BY <1>5, <2>1, <2>2
<1> QED BY <1>3, <1>7 DEF IsTail, new

LEMMA PublishKeepsTail ==
  ASSUME TypeOK, RingIsTail, NEW s \in Scans, NEW nth \in Nat, Publish(s, nth)
  PROVE  RingIsTail'
<1> DEFINE e == [nth |-> nth, sequence |-> sequences[s] + 1]
<1>1. PICK gone \in SUBSET Scans : PublishedWith(s, nth, gone)
  BY PublishFacts
<1>2. e \in Event /\ e.sequence = sequences[s] + 1
  BY DEF TypeOK, Event
<1>3. \A z \in Scans : IsTail(rings[z], sequences[z]) /\ rings[z] \in Seq(Event) /\ sequences[z] \in Nat
  BY DEF TypeOK, RingIsTail, IsTail
<1>4. IsTail(RingPush(rings[s], e), sequences[s] + 1)
  BY <1>2, <1>3, PushKeepsTail
<1>5. IsTail(<<>>, 0)
  BY DEF IsTail
<1>6. ASSUME NEW z \in Scans PROVE IsTail(rings'[z], sequences'[z])
  BY <1>1, <1>3, <1>4, <1>5, <1>6 DEF PublishedWith
<1> QED BY <1>6 DEF RingIsTail, IsTail

(* Every step publishes an event or leaves the windows alone; what is      *)
(* published has a place in the emission order of its flow.                *)
LEMMA Steps ==
  ASSUME TypeOK, [Next]_vars
  PROVE  \/ UNCHANGED <<sequences, rings, touched, evicted>>
         \/ \E s \in Scans, nth \in Nat : Publish(s, nth) /\ (Started(s) \/ Flush(s) \/ Emit(s))
<1>1. ASSUME NEW s \in Scans, Flush(s), pending[s] # <<>>
      PROVE  Publish(s, Head(pending[s])) /\ Head(pending[s]) \in Nat
  BY <1>1, HeadTailProperties DEF Flush, TypeOK
<1>2. ASSUME NEW s \in Scans, Flush(s), pending[s] = <<>> PROVE UNCHANGED bus
  BY <1>2 DEF Flush
<1>3. ASSUME NEW s \in Scans, Emit(s) PROVE Publish(s, emitted[s] + 1) /\ emitted[s] + 1 \in Nat
  BY <1>3 DEF Emit, TypeOK
<1>4. ASSUME NEW s \in Scans, Started(s) PROVE Publish(s, 0)
  BY <1>4 DEF Started
<1>5. ASSUME NEW s \in Scans, EmitEarly(s) \/ CreateScan(s) \/ Discard(s) PROVE UNCHANGED bus
  BY <1>5 DEF EmitEarly, CreateScan, Discard
<1>6. ASSUME NEW c \in Clients, Client(c) PROVE UNCHANGED <<sequences, rings, touched, evicted>>
  BY <1>6 DEF Client, Connect, Refuse, Leave, Stream, Read, Close, bus
<1>7. CASE Tick \/ UNCHANGED vars
  BY <1>7 DEF Tick, vars, bus
<1> QED BY <1>1, <1>2, <1>3, <1>4, <1>5, <1>6, <1>7 DEF Next, Flow, bus

LEMMA RingIsTailStep ==
  ASSUME TypeOK, RingIsTail, [Next]_vars
  PROVE  RingIsTail'
<1>1. CASE UNCHANGED <<sequences, rings, touched, evicted>>
  BY <1>1 DEF RingIsTail
<1> QED BY <1>1, Steps, PublishKeepsTail

LEMMA FlowTypes ==
  ASSUME TypeOK, RingIsTail, NEW s \in Scans, Flow(s)
  PROVE  TypeOK'
<1>1. CASE EmitEarly(s)
  <2>1. Append(pending[s], emitted[s] + 1) \in Seq(Nat)
    BY AppendProperties DEF TypeOK
  <2> QED BY <1>1, <2>1 DEF TypeOK, EmitEarly, bus
<1>2. CASE CreateScan(s)
  BY <1>2 DEF TypeOK, CreateScan, Step, Mode, bus
<1>3. CASE Discard(s)
  BY <1>3 DEF TypeOK, Discard, Step, Mode, bus
<1>4. CASE Started(s)
  BY <1>4, PublishTypes DEF TypeOK, Started, Step, Mode
<1>5. CASE Flush(s)
  <2>1. CASE pending[s] = <<>>
    BY <1>5, <2>1 DEF TypeOK, Flush, Step, Mode, bus
  <2>2. CASE pending[s] # <<>>
    <3>1. Head(pending[s]) \in Nat /\ Tail(pending[s]) \in Seq(Nat)
      BY <2>2, HeadTailProperties DEF TypeOK
    <3>2. Publish(s, Head(pending[s])) /\ pending' = [pending EXCEPT ![s] = Tail(@)]
          /\ UNCHANGED <<mode, now, emitted>>
      BY <1>5, <2>2 DEF Flush
    <3>3. pending' \in [Scans -> Seq(Nat)]
      BY <3>1, <3>2 DEF TypeOK
    <3> QED BY <3>1, <3>2, <3>3, PublishTypes DEF TypeOK
  <2> QED BY <2>1, <2>2
<1>6. CASE Emit(s)
  <2>1. Publish(s, emitted[s] + 1) /\ emitted[s] + 1 \in 0 .. MaxEvents /\ emitted[s] + 1 \in Nat
    BY <1>6 DEF Emit, TypeOK
  <2>2. emitted' \in [Scans -> 0 .. MaxEvents] /\ UNCHANGED <<now, mode, pending>>
    BY <1>6, <2>1 DEF Emit, TypeOK
  <2>3. /\ sequences' \in [Scans -> Nat] /\ touched' \in [Scans -> Nat]
        /\ rings' \in [Scans -> Seq(Event)] /\ subscribers' \in [Scans -> Nat]
        /\ evicted' \subseteq Scans /\ conn' \in [Clients -> Connection]
    BY <2>1, PublishTypes
  <2> QED BY <2>2, <2>3 DEF TypeOK
<1> QED BY <1>1, <1>2, <1>3, <1>4, <1>5, <1>6 DEF Flow

(* What is behind the last id is a suffix of the window.                   *)
LEMMA BehindFacts ==
  ASSUME NEW ring \in Seq(Event), NEW n \in Nat, IsTail(ring, n), NEW after \in Nat
  PROVE  \E m \in 0 .. Len(ring) :
           /\ Behind(ring, after) \in Seq(Event)
           /\ Len(Behind(ring, after)) = Len(ring) - m
           /\ \A k \in 1 .. Len(ring) - m : Behind(ring, after)[k] = ring[m + k]
           /\ \A k \in 1 .. Len(ring) : ring[k].sequence <= after <=> k <= m
<1> DEFINE d == n - Len(ring)
           m == IF after <= d THEN 0 ELSE IF after <= n THEN after - d ELSE Len(ring)
           read == {k \in DOMAIN ring : ring[k].sequence <= after}
<1>1. d \in Nat /\ Len(ring) \in Nat /\ DOMAIN ring = 1 .. Len(ring)
  BY DEF IsTail
<1>2. \A k \in 1 .. Len(ring) : ring[k].sequence = d + k
  BY <1>1 DEF IsTail
<1> HIDE DEF d
<1>3. n = d + Len(ring)
  BY <1>1 DEF d
<1>4. m \in 0 .. Len(ring) /\ \A k \in 1 .. Len(ring) : d + k <= after <=> k <= m
  BY <1>1, <1>3
<1> HIDE DEF m
<1>5. read = 1 .. m
  BY <1>1, <1>2, <1>4
<1>6. Cardinality(1 .. m) = m
  <2>1. m \in Int /\ 1 \in Int
    BY <1>4
  <2>2. Cardinality(1 .. m) = IF 1 > m THEN 0 ELSE m - 1 + 1
    BY <2>1, FS_Interval
  <2> QED BY <1>4, <2>2
<1>7. Behind(ring, after) = SubSeq(ring, m + 1, Len(ring))
  BY <1>5, <1>6 DEF Behind, read
<1>8. /\ SubSeq(ring, m + 1, Len(ring)) \in Seq(Event)
      /\ Len(SubSeq(ring, m + 1, Len(ring))) = Len(ring) - m
      /\ \A k \in 1 .. Len(ring) - m : SubSeq(ring, m + 1, Len(ring))[k] = ring[m + k]
  <2>1. m + 1 \in Int /\ Len(ring) \in Int /\ \A k \in m + 1 .. Len(ring) : ring[k] \in Event
    BY <1>1, <1>4
  <2>2. /\ SubSeq(ring, m + 1, Len(ring)) \in Seq(Event)
        /\ Len(SubSeq(ring, m + 1, Len(ring))) =
             IF m + 1 <= Len(ring) THEN Len(ring) - (m + 1) + 1 ELSE 0
        /\ \A k \in 1 .. Len(ring) - (m + 1) + 1 :
             SubSeq(ring, m + 1, Len(ring))[k] = ring[m + 1 + k - 1]
    BY <2>1, SubSeqProperties
  <2>3. ASSUME NEW k \in 1 .. Len(ring) - m
        PROVE  SubSeq(ring, m + 1, Len(ring))[k] = ring[m + k]
    <3>1. k \in 1 .. Len(ring) - (m + 1) + 1 /\ m + 1 + k - 1 = m + k
      BY <1>1, <1>4, <2>3
    <3> QED BY <2>2, <3>1
  <2>4. Len(SubSeq(ring, m + 1, Len(ring))) = Len(ring) - m
    <3>1. Len(ring) \in Nat /\ m \in 0 .. Len(ring)
      BY <1>1, <1>4
    <3>2. (IF m + 1 <= Len(ring) THEN Len(ring) - (m + 1) + 1 ELSE 0) = Len(ring) - m
      BY <3>1
    <3> QED BY <2>2, <3>2
  <2> QED BY <2>2, <2>3, <2>4
<1>9. \A k \in 1 .. Len(ring) : ring[k].sequence <= after <=> k <= m
  BY <1>2, <1>4
<1>10. m \in 0 .. Len(ring)
  BY <1>4
<1> QED BY <1>7, <1>8, <1>9, <1>10

LEMMA ClientTypes ==
  ASSUME TypeOK, RingIsTail, NEW c \in Clients, Client(c)
  PROVE  TypeOK'
<1> DEFINE s == conn[c].scan
<1>0. /\ conn[c] \in Connection /\ s \in Scans /\ conn[c].wire \in Seq(Event)
      /\ conn[c].view \in Seq(Event) /\ conn[c].lastId \in Nat
  BY DEF TypeOK, Connection
<1>1. CASE Connect(c) \/ Refuse(c) \/ Leave(c)
  <2>1. \A to \in {"gate", "refused", "left"} : [conn[c] EXCEPT !.at = to] \in Connection
    BY <1>0 DEF Connection
  <2>2. \E to \in {"gate", "refused", "left"} : conn' = [conn EXCEPT ![c] = [conn[c] EXCEPT !.at = to]]
    BY <1>1 DEF Connect, Refuse, Leave, At
  <2>3. conn' \in [Clients -> Connection]
    BY <2>1, <2>2 DEF TypeOK
  <2> QED BY <1>1, <2>3 DEF TypeOK, Connect, Refuse, Leave, bus, flow
<1>2. CASE Stream(c)
  <2> DEFINE set == IF subscribers[s] = 0 THEN FreshSet(s) ELSE subscribers[s]
             wire == IF conn[c].at = "gate" THEN Replay(s, conn[c].lastId) ELSE <<>>
             new == [conn[c] EXCEPT !.at = IF @ = "gate" THEN "open" ELSE "ghost",
                                    !.set = set, !.wire = wire]
  <2>1. set \in Nat
    BY <1>0, FreshSetExists DEF TypeOK
  <2>2. wire \in Seq(Event)
    <3> DEFINE after == IF conn[c].lastId < MaxLastId THEN conn[c].lastId ELSE MaxLastId
    <3>1. after \in Nat /\ rings[s] \in Seq(Event) /\ sequences[s] \in Nat
          /\ IsTail(rings[s], sequences[s])
      BY <1>0 DEF TypeOK, RingIsTail, IsTail
    <3>2. Behind(rings[s], after) \in Seq(Event)
      BY <3>1, BehindFacts
    <3> QED BY <3>2 DEF Replay
  <2> HIDE DEF set, wire
  <2>3. new \in Connection
    BY <1>0, <2>1, <2>2 DEF Connection
  <2>4. conn' = [conn EXCEPT ![c] = new] /\ subscribers' = [subscribers EXCEPT ![s] = set]
    BY <1>2 DEF Stream, set, wire
  <2>5. UNCHANGED <<sequences, rings, touched, evicted, now, flow>>
    BY <1>2 DEF Stream
  <2> QED BY <1>0, <2>1, <2>3, <2>4, <2>5 DEF TypeOK, flow
<1>3. CASE Read(c)
  <2>1. Head(conn[c].wire) \in Event /\ Tail(conn[c].wire) \in Seq(Event)
    BY <1>0, <1>3, HeadTailProperties DEF Read
  <2>2. Show(conn[c].view, Head(conn[c].wire)) \in Seq(Event)
    BY <1>0, <2>1, AppendProperties DEF Show
  <2>3. Head(conn[c].wire).sequence \in Nat
    BY <2>1 DEF Event
  <2>4. conn' \in [Clients -> Connection]
    BY <1>0, <1>3, <2>1, <2>2, <2>3 DEF TypeOK, Read, Connection
  <2> QED BY <1>3, <2>4 DEF TypeOK, Read, bus, flow
<1>4. CASE Close(c)
  <2>1. Unsubscribed(s, c) \in Nat
    BY <1>0 DEF TypeOK, Unsubscribed
  <2>2. [conn[c] EXCEPT !.at = "away", !.set = 0, !.wire = <<>>] \in Connection
    <3>1. <<>> \in Seq(Event)
      OBVIOUS
    <3> QED BY <1>0, <3>1 DEF Connection
  <2>3. conn' = [conn EXCEPT ![c] = [conn[c] EXCEPT !.at = "away", !.set = 0, !.wire = <<>>]]
    BY <1>4 DEF Close
  <2>4. conn' \in [Clients -> Connection]
    BY <2>2, <2>3 DEF TypeOK
  <2> QED BY <1>0, <1>4, <2>1, <2>4 DEF TypeOK, Close, flow
<1> QED BY <1>1, <1>2, <1>3, <1>4 DEF Client

(* Type correctness, with the shape of the replay windows on which it      *)
(* rests: what a reconnecting client is sent is a sequence of events.      *)
THEOREM TypeCorrect == Spec => [](TypeOK /\ RingIsTail)
<1>1. Init => TypeOK /\ RingIsTail
  <2> SUFFICES ASSUME Init PROVE TypeOK /\ RingIsTail
    OBVIOUS
  <2>1. \A s \in Scans : rings[s] = <<>> /\ sequences[s] = 0
    BY DEF Init
  <2>2. RingIsTail
    BY <2>1 DEF RingIsTail
  <2>3. <<>> \in Seq(Event) /\ <<>> \in Seq(Nat)
    OBVIOUS
  <2>4. conn \in [Clients -> Connection]
    <3> DEFINE first == [at : {"away"}, scan : Scans, set : {0}, lastId : {0}, wire : {<<>>},
                         view : {<<>>}]
    <3>1. ASSUME NEW x \in first PROVE x \in Connection
      <4>1. x = [at |-> "away", scan |-> x.scan, set |-> 0, lastId |-> 0, wire |-> <<>>, view |-> <<>>]
            /\ x.scan \in Scans
        BY <3>1
      <4>2. ASSUME NEW none \in Seq(Event)
            PROVE  [at |-> "away", scan |-> x.scan, set |-> 0, lastId |-> 0, wire |-> none, view |-> none]
                     \in Connection
        BY <4>1 DEF Connection
      <4> HIDE DEF first
      <4> QED BY <2>3, <4>1, <4>2
    <3>2. conn \in [Clients -> first]
      BY DEF Init
    <3> HIDE DEF first
    <3> QED BY <3>1, <3>2
  <2> QED BY <2>2, <2>3, <2>4 DEF Init, TypeOK, Mode
<1>2. TypeOK /\ RingIsTail /\ [Next]_vars => TypeOK' /\ RingIsTail'
  <2> SUFFICES ASSUME TypeOK, RingIsTail, [Next]_vars PROVE TypeOK'
    BY RingIsTailStep
  <2>1. CASE Tick
    BY <2>1 DEF TypeOK, Tick, bus, flow
  <2>2. CASE UNCHANGED vars
    BY <2>2 DEF TypeOK, vars, bus, flow
  <2> QED BY <2>1, <2>2, FlowTypes, ClientTypes DEF Next
<1> QED BY <1>1, <1>2, PTL DEF Spec

-----------------------------------------------------------------------------
(* The bus: scans tracked, and subscriber sets.                            *)

LEMMA TracksStep ==
  ASSUME TypeOK, TracksAtMostMaxScans, [Next]_vars
  PROVE  TracksAtMostMaxScans'
<1>0. IsFiniteSet(Tracked) /\ Cardinality(Tracked) \in Nat
  BY FS_Subset, FS_CardinalityType DEF Tracked
<1>1. CASE UNCHANGED <<sequences, rings, touched, evicted>>
  BY <1>1 DEF TracksAtMostMaxScans, Tracked
<1>2. ASSUME NEW s \in Scans, NEW nth \in Nat, Publish(s, nth) PROVE TracksAtMostMaxScans'
  <2>1. PICK gone \in SUBSET Scans : PublishedWith(s, nth, gone)
    BY <1>2, PublishFacts
  <2>2. Tracked' = (Tracked \ gone) \cup {s}
    BY <2>1 DEF PublishedWith, Tracked, TypeOK
  <2>3. CASE s \in Tracked
    <3>1. Tracked' = Tracked
      BY <2>1, <2>2, <2>3 DEF PublishedWith
    <3> QED BY <3>1 DEF TracksAtMostMaxScans
  <2>4. CASE s \notin Tracked /\ ~Full
    <3>1. Tracked' = Tracked \cup {s}
      BY <2>1, <2>2, <2>4 DEF PublishedWith
    <3>2. Cardinality(Tracked') = Cardinality(Tracked) + 1
      BY <1>0, <2>4, <3>1, FS_AddElement
    <3> QED BY <1>0, <2>4, <3>2 DEF TracksAtMostMaxScans, Full
  <2>5. CASE s \notin Tracked /\ Full
    <3>1. PICK v \in Tracked : gone = {v}
      BY <2>1, <2>5 DEF PublishedWith
    <3>2. IsFiniteSet(Tracked \ {v}) /\ Cardinality(Tracked \ {v}) = Cardinality(Tracked) - 1
      BY <1>0, FS_RemoveElement
    <3>3. Cardinality((Tracked \ {v}) \cup {s}) = Cardinality(Tracked)
      <4>1. s \notin Tracked \ {v}
        BY <2>5
      <4>2. Cardinality((Tracked \ {v}) \cup {s}) = Cardinality(Tracked \ {v}) + 1
        BY <3>2, <4>1, FS_AddElement
      <4> QED BY <1>0, <3>2, <4>2
    <3> QED BY <2>2, <3>1, <3>3 DEF TracksAtMostMaxScans
  <2> QED BY <2>3, <2>4, <2>5
<1> QED BY <1>1, <1>2, Steps

(* A step that leaves the subscriber sets as they are, or forgets one, and *)
(* neither moves a streaming client nor ends it.                           *)
LEMMA EntriesKept ==
  ASSUME TypeOK, EntriesHaveMembers,
         \A s \in Scans : subscribers'[s] \in {0, subscribers[s]},
         \A c \in Clients : conn[c].at \in Streaming =>
           /\ conn'[c].at = conn[c].at /\ conn'[c].scan = conn[c].scan
           /\ conn'[c].set = conn[c].set
  PROVE  EntriesHaveMembers'
BY DEF EntriesHaveMembers, Members

LEMMA NotifyKeeps ==
  ASSUME TypeOK, NEW s, NEW set, NEW e, conn' = Notify(s, set, e), NEW c \in Clients
  PROVE  /\ conn'[c].at = conn[c].at /\ conn'[c].scan = conn[c].scan
         /\ conn'[c].set = conn[c].set /\ conn'[c].lastId = conn[c].lastId
         /\ conn'[c].view = conn[c].view
         /\ conn'[c].wire = IF set # 0 /\ c \in Members(s, set) /\ conn[c].at = "open"
                            THEN Append(conn[c].wire, e) ELSE conn[c].wire
BY DEF Notify, TypeOK, Connection

LEMMA EntriesStep ==
  ASSUME TypeOK, EntriesHaveMembers, [Next]_vars
  PROVE  EntriesHaveMembers'
<1>1. ASSUME NEW s \in Scans, NEW nth \in Nat, Publish(s, nth) PROVE EntriesHaveMembers'
  <2>1. PICK gone \in SUBSET Scans : PublishedWith(s, nth, gone)
    BY <1>1, PublishFacts
  <2>2. \A z \in Scans : subscribers'[z] \in {0, subscribers[z]}
    BY <2>1 DEF PublishedWith
  <2>3. \A c \in Clients : /\ conn'[c].at = conn[c].at /\ conn'[c].scan = conn[c].scan
                           /\ conn'[c].set = conn[c].set
    BY <2>1, NotifyKeeps DEF PublishedWith
  <2> QED BY <2>2, <2>3, EntriesKept
<1>2. ASSUME UNCHANGED <<subscribers, conn>> PROVE EntriesHaveMembers'
  BY <1>2 DEF EntriesHaveMembers, Members
<1>3. ASSUME NEW s \in Scans, Flow(s) PROVE EntriesHaveMembers'
  <2>1. CASE EmitEarly(s) \/ CreateScan(s) \/ Discard(s)
    BY <1>2, <2>1 DEF EmitEarly, CreateScan, Discard, bus
  <2>2. CASE UNCHANGED <<subscribers, conn>>
    BY <1>2, <2>2
  <2>3. Started(s) \/ Flush(s) \/ Emit(s) =>
          UNCHANGED <<subscribers, conn>> \/ \E nth \in Nat : Publish(s, nth)
    <3>1. pending[s] # <<>> => Head(pending[s]) \in Nat
      BY HeadTailProperties DEF TypeOK
    <3>2. emitted[s] + 1 \in Nat
      BY DEF TypeOK
    <3> QED BY <3>1, <3>2 DEF Started, Flush, Emit, bus
  <2> QED BY <1>1, <1>3, <2>1, <2>2, <2>3 DEF Flow
<1>4. ASSUME NEW c \in Clients, Client(c) PROVE EntriesHaveMembers'
  <2> DEFINE s == conn[c].scan
  <2>0. conn[c] \in Connection /\ s \in Scans
    BY DEF TypeOK, Connection
  <2>1. CASE Connect(c) \/ Refuse(c) \/ Leave(c)
    <3>1. UNCHANGED subscribers /\ conn[c].at \notin Streaming
          /\ \A z \in Clients \ {c} : conn'[z] = conn[z]
      BY <2>1 DEF TypeOK, Connect, Refuse, Leave, At, Streaming, bus
    <3> QED BY <3>1, EntriesKept
  <2>2. CASE Read(c)
    <3>1. UNCHANGED subscribers
          /\ conn'[c].at = conn[c].at /\ conn'[c].scan = conn[c].scan /\ conn'[c].set = conn[c].set
          /\ \A z \in Clients \ {c} : conn'[z] = conn[z]
      BY <2>0, <2>2 DEF TypeOK, Read, Connection, bus
    <3> QED BY <3>1, EntriesKept
  <2>3. CASE Stream(c)
    <3> DEFINE set == IF subscribers[s] = 0 THEN FreshSet(s) ELSE subscribers[s]
    <3>1. /\ subscribers' = [subscribers EXCEPT ![s] = set] /\ conn[c].at \notin Streaming
          /\ conn'[c].at \in Streaming /\ conn'[c].scan = s /\ conn'[c].set = set
          /\ \A z \in Clients \ {c} : conn'[z] = conn[z]
      BY <2>0, <2>3 DEF TypeOK, Stream, Connection, Streaming
    <3> HIDE DEF set
    <3>2. ASSUME NEW z \in Scans, subscribers'[z] # 0
          PROVE  \E y \in Clients : /\ conn'[y].at \in Streaming /\ conn'[y].scan = z
                                    /\ conn'[y].set = subscribers'[z]
      <4>1. CASE z = s
        <5>1. subscribers'[z] = set
          BY <2>0, <3>1, <4>1 DEF TypeOK
        <5> QED BY <3>1, <4>1, <5>1 DEF Members, Streaming
      <4>2. CASE z # s
        <5>1. subscribers'[z] = subscribers[z]
          BY <2>0, <3>1, <4>2 DEF TypeOK
        <5>2. PICK y \in Members(z, subscribers[z]) : TRUE
          BY <3>2, <5>1 DEF EntriesHaveMembers
        <5> QED BY <3>1, <5>1, <5>2 DEF Members
      <4> QED BY <4>1, <4>2
    <3> QED BY <3>2 DEF EntriesHaveMembers, Members
  <2>4. CASE Close(c)
    <3>1. /\ subscribers' = [subscribers EXCEPT ![s] = Unsubscribed(s, c)]
          /\ conn[c].at = "open" /\ conn'[c].at = "away"
          /\ \A z \in Clients \ {c} : conn'[z] = conn[z]
      BY <2>0, <2>4 DEF TypeOK, Close, Connection
    <3>2. ASSUME NEW z \in Scans, subscribers'[z] # 0
          PROVE  \E y \in Clients : /\ conn'[y].at \in Streaming /\ conn'[y].scan = z
                                    /\ conn'[y].set = subscribers'[z]
      <4>1. subscribers'[z] = subscribers[z]
        BY <2>0, <3>1, <3>2 DEF TypeOK, Unsubscribed
      <4>2. PICK y \in Members(z, subscribers[z]) : y # c
        <5>1. PICK x \in Members(z, subscribers[z]) : TRUE
          BY <3>2, <4>1 DEF EntriesHaveMembers
        <5>2. c \in Members(s, conn[c].set)
          BY <3>1 DEF Members, Streaming
        <5>3. ASSUME x = c PROVE \E y \in Members(z, subscribers[z]) : y # c
          <6>1. z = s /\ conn[c].set = subscribers[z]
            BY <5>1, <5>3 DEF Members
          <6>2. Members(s, conn[c].set) # {c}
            BY <2>0, <3>1, <3>2, <6>1 DEF TypeOK, Unsubscribed
          <6> QED BY <5>2, <6>1, <6>2
        <5> QED BY <5>1, <5>3
      <4> QED BY <3>1, <4>1, <4>2 DEF Members
    <3> QED BY <3>2 DEF EntriesHaveMembers, Members
  <2> QED BY <1>4, <2>1, <2>2, <2>3, <2>4 DEF Client
<1>5. CASE Tick \/ UNCHANGED vars
  BY <1>2, <1>5 DEF Tick, vars, bus
<1> QED BY <1>3, <1>4, <1>5 DEF Next

(* The replay windows are exact, the bus tracks no more scans than its     *)
(* cap, and no subscriber set is kept that nobody is in: whatever is       *)
(* published and evicted, and however clients come and go.                 *)
THEOREM BusExact == Spec => []BusIsExact
<1>1. Init => TracksAtMostMaxScans /\ EntriesHaveMembers
  <2> SUFFICES ASSUME Init PROVE TracksAtMostMaxScans /\ EntriesHaveMembers
    OBVIOUS
  <2>1. Tracked = {}
    BY DEF Init, Tracked
  <2> QED BY <2>1, FS_EmptySet DEF Init, TracksAtMostMaxScans, EntriesHaveMembers
<1>2. /\ TypeOK /\ TracksAtMostMaxScans /\ EntriesHaveMembers /\ [Next]_vars
      => TracksAtMostMaxScans' /\ EntriesHaveMembers'
  BY TracksStep, EntriesStep
<1>3. BusIsExact <=> RingIsTail /\ TracksAtMostMaxScans /\ EntriesHaveMembers
  BY DEF BusIsExact
<1> QED BY <1>1, <1>2, <1>3, TypeCorrect, PTL DEF Spec

-----------------------------------------------------------------------------
(* The flow: what is published on a scan that was never evicted is the     *)
(* next event in the order of emission.                                    *)

LEMMA PendingShape ==
  ASSUME TypeOK, NEW s \in Scans
  PROVE  /\ pending[s] \in Seq(Nat) /\ DOMAIN pending[s] = 1 .. Len(pending[s])
         /\ Len(pending[s]) \in Nat /\ sequences[s] \in Nat /\ emitted[s] \in Nat
         /\ pending[s] # <<>> =>
              /\ Len(pending[s]) > 0 /\ Head(pending[s]) = pending[s][1] /\ pending[s][1] \in Nat
              /\ Tail(pending[s]) \in Seq(Nat) /\ Len(Tail(pending[s])) = Len(pending[s]) - 1
              /\ \A k \in 1 .. Len(pending[s]) - 1 : Tail(pending[s])[k] = pending[s][k + 1]
<1>1. /\ pending[s] \in Seq(Nat) /\ DOMAIN pending[s] = 1 .. Len(pending[s])
      /\ Len(pending[s]) \in Nat /\ sequences[s] \in Nat /\ emitted[s] \in Nat
  BY DEF TypeOK
<1>2. ASSUME pending[s] # <<>>
      PROVE  /\ Tail(pending[s]) \in Seq(Nat) /\ Len(Tail(pending[s])) = Len(pending[s]) - 1
             /\ \A k \in 1 .. Len(pending[s]) - 1 : Tail(pending[s])[k] = pending[s][k + 1]
  BY <1>1, <1>2, HeadTailProperties
<1>3. ASSUME pending[s] # <<>>
      PROVE  Len(pending[s]) > 0 /\ Head(pending[s]) = pending[s][1] /\ pending[s][1] \in Nat
  BY <1>1, <1>3
<1> QED BY <1>1, <1>2, <1>3

LEMMA FlowPublishes ==
  ASSUME TypeOK, FlowInTurn, NEW s \in Scans, Flow(s)
  PROVE  \/ UNCHANGED <<bus, conn>>
         \/ \E nth \in Nat : Publish(s, nth) /\ (s \notin evicted => nth = sequences[s])
<1>1. Started(s) => Publish(s, 0) /\ (s \notin evicted => 0 = sequences[s])
  BY DEF Started, Step, FlowInTurn, NextInTurn
<1>2. ASSUME Flush(s), pending[s] # <<>>
      PROVE  /\ Publish(s, Head(pending[s])) /\ Head(pending[s]) \in Nat
             /\ s \notin evicted => Head(pending[s]) = sequences[s]
  <2>1. mode[s] = "flushing" /\ Publish(s, Head(pending[s]))
    BY <1>2 DEF Flush
  <2>2. s \notin evicted => pending[s][1] = sequences[s] + 1 - 1
    BY <1>2, <2>1, PendingShape DEF FlowInTurn, NextInTurn
  <2> QED BY <1>2, <2>1, <2>2, PendingShape
<1>3. Emit(s) => /\ Publish(s, emitted[s] + 1) /\ emitted[s] + 1 \in Nat
                 /\ s \notin evicted => emitted[s] + 1 = sequences[s]
  BY PendingShape DEF Emit, FlowInTurn, NextInTurn
<1>4. UNCHANGED <<bus, conn>> \/ Started(s) \/ Emit(s) \/ (Flush(s) /\ pending[s] # <<>>)
  BY DEF Flow, EmitEarly, CreateScan, Discard, Flush
<1> QED BY <1>1, <1>2, <1>3, <1>4

LEMMA InTurn ==
  ASSUME TypeOK, FlowInTurn, [Next]_vars
  PROVE  \/ UNCHANGED <<sequences, rings, touched, evicted>>
         \/ \E s \in Scans, nth \in Nat : Publish(s, nth) /\ (s \notin evicted => nth = sequences[s])
<1>1. CASE \E s \in Scans : Flow(s)
  BY <1>1, FlowPublishes DEF bus
<1>2. ASSUME NEW c \in Clients, Client(c) PROVE UNCHANGED <<sequences, rings, touched, evicted>>
  BY <1>2 DEF Client, Connect, Refuse, Leave, Stream, Read, Close, bus
<1>3. CASE Tick \/ UNCHANGED vars
  BY <1>3 DEF Tick, vars, bus
<1> QED BY <1>1, <1>2, <1>3 DEF Next

(* The publication of another scan leaves one that is not evicted alone.   *)
LEMMA OthersUntouched ==
  ASSUME TypeOK, NEW s \in Scans, NEW nth \in Nat, Publish(s, nth),
         NEW z \in Scans, z \notin evicted'
  PROVE  /\ z \notin evicted
         /\ subscribers'[z] = subscribers[z]
         /\ z # s => sequences'[z] = sequences[z] /\ rings'[z] = rings[z]
         /\ z = s => sequences'[z] = sequences[z] + 1
                     /\ rings'[z] = RingPush(rings[z], [nth |-> nth, sequence |-> sequences[z] + 1])
<1>1. PICK gone \in SUBSET Scans : PublishedWith(s, nth, gone)
  BY PublishFacts
<1>2. z \notin evicted /\ z \notin gone
  BY <1>1 DEF PublishedWith
<1> QED BY <1>1, <1>2 DEF PublishedWith

LEMMA WindowStep ==
  ASSUME TypeOK, RingIsTail, FlowInTurn, [Next]_vars, NEW z \in Scans \ evicted'
  PROVE  WindowNumbered(z)'
<1>1. CASE UNCHANGED <<sequences, rings, touched, evicted>>
  BY <1>1 DEF FlowInTurn, WindowNumbered
<1>2. ASSUME NEW s \in Scans, NEW nth \in Nat, Publish(s, nth), s \notin evicted => nth = sequences[s]
      PROVE  WindowNumbered(z)'
  <2>1. z \notin evicted /\ WindowNumbered(z)
    BY <1>2, OthersUntouched DEF FlowInTurn
  <2>2. CASE z # s
    BY <1>2, <2>1, <2>2, OthersUntouched DEF WindowNumbered
  <2>3. CASE z = s
    <3> DEFINE e == [nth |-> nth, sequence |-> sequences[s] + 1]
               ring == rings[s]
               new == RingPush(ring, e)
    <3>1. rings'[z] = new
      BY <1>2, <2>3, OthersUntouched
    <3>2. e \in Event /\ Numbered(e)
      BY <1>2, <2>1, <2>3 DEF TypeOK, Event, Numbered
    <3>3. ring \in Seq(Event) /\ Len(ring) <= RingPerScan
      BY DEF TypeOK, RingIsTail
    <3>4. /\ new \in Seq(Event)
          /\ Len(new) = IF Len(ring) < RingPerScan THEN Len(ring) + 1 ELSE RingPerScan
          /\ new[Len(new)] = e
          /\ \A k \in 1 .. Len(new) - 1 : new[k] = ring[k + 1 + Len(ring) - Len(new)]
      <4> HIDE DEF e, ring
      <4> QED BY <3>2, <3>3, RingPushFacts
    <3>5. \A k \in 1 .. Len(ring) : Numbered(ring[k])
      BY <2>1, <2>3, <3>3 DEF WindowNumbered
    <3> HIDE DEF new, ring, e
    <3>6. ASSUME NEW k \in 1 .. Len(new) PROVE Numbered(new[k])
      <4>1. CASE k = Len(new)
        BY <3>2, <3>4, <4>1
      <4>2. CASE k # Len(new)
        <5>1. k \in 1 .. Len(new) - 1 /\ k + 1 + Len(ring) - Len(new) \in 1 .. Len(ring)
          BY <3>3, <3>4, <3>6, <4>2
        <5> QED BY <3>4, <3>5, <5>1
      <4> QED BY <4>1, <4>2
    <3>7. DOMAIN new = 1 .. Len(new)
      BY <3>4
    <3> QED BY <3>1, <3>6, <3>7 DEF WindowNumbered
  <2> QED BY <2>2, <2>3
<1> QED BY <1>1, <1>2, InTurn

(* A scan whose flow does not move, and on which nothing is published.     *)
LEMMA TurnKept ==
  ASSUME NEW z, NextInTurn(z), mode'[z] = mode[z], pending'[z] = pending[z],
         emitted'[z] = emitted[z], sequences'[z] = sequences[z]
  PROVE  NextInTurn(z)'
BY DEF NextInTurn

LEMMA TurnStep ==
  ASSUME TypeOK, FlowInTurn, [Next]_vars, NEW z \in Scans \ evicted'
  PROVE  NextInTurn(z)'
<1>0. z \notin evicted /\ NextInTurn(z)
  <2>1. CASE UNCHANGED evicted
    BY <2>1 DEF FlowInTurn
  <2> QED BY <2>1, InTurn, OthersUntouched DEF FlowInTurn
<1>1. CASE UNCHANGED <<mode, pending, emitted, sequences>>
  BY <1>0, <1>1, TurnKept
<1>2. ASSUME NEW s \in Scans, Flow(s), s # z PROVE NextInTurn(z)'
  <2>1. mode'[z] = mode[z] /\ pending'[z] = pending[z] /\ emitted'[z] = emitted[z]
    BY <1>2 DEF TypeOK, Flow, EmitEarly, CreateScan, Discard, Started, Flush, Emit, Step
  <2>2. UNCHANGED sequences \/ \E nth \in Nat : Publish(s, nth)
    <3>1. pending[s] # <<>> => Head(pending[s]) \in Nat
      BY PendingShape
    <3>2. emitted[s] + 1 \in Nat
      BY PendingShape
    <3> QED BY <1>2, <3>1, <3>2
         DEF Flow, EmitEarly, CreateScan, Discard, Started, Flush, Emit, bus
  <2>3. sequences'[z] = sequences[z]
    BY <1>2, <2>2, OthersUntouched
  <2> QED BY <1>0, <2>1, <2>3, TurnKept
<1>3. CASE Flow(z)
  <2> USE DEF NextInTurn
  <2>0. /\ pending[z] \in Seq(Nat) /\ DOMAIN pending[z] = 1 .. Len(pending[z])
        /\ Len(pending[z]) \in Nat /\ sequences[z] \in Nat /\ emitted[z] \in Nat
    BY PendingShape
  <2>1. CASE EmitEarly(z)
    <3>1. /\ mode[z] = "early" /\ UNCHANGED <<mode, sequences>> /\ emitted'[z] = emitted[z] + 1
          /\ pending'[z] = Append(pending[z], emitted[z] + 1)
      BY <2>1 DEF EmitEarly, TypeOK, bus
    <3>2. /\ Len(pending'[z]) = Len(pending[z]) + 1
          /\ \A k \in 1 .. Len(pending[z]) : pending'[z][k] = pending[z][k]
          /\ pending'[z][Len(pending[z]) + 1] = emitted[z] + 1
          /\ DOMAIN pending'[z] = 1 .. Len(pending[z]) + 1
      BY <2>0, <3>1, AppendProperties
    <3>3. sequences[z] = 0 /\ Len(pending[z]) = emitted[z] /\ \A k \in 1 .. Len(pending[z]) : pending[z][k] = k
      BY <1>0, <2>0, <3>1
    <3>4. ASSUME NEW k \in 1 .. Len(pending[z]) + 1 PROVE pending'[z][k] = k
      <4>1. k \in 1 .. Len(pending[z]) \/ k = Len(pending[z]) + 1
        BY <2>0
      <4> QED BY <3>2, <3>3, <4>1
    <3> QED BY <2>0, <3>1, <3>2, <3>3, <3>4
  <2>2. CASE CreateScan(z)
    BY <1>0, <2>0, <2>2 DEF CreateScan, Step, TypeOK, bus
  <2>3. CASE Discard(z)
    BY <2>3 DEF Discard, Step, TypeOK
  <2>4. CASE Started(z)
    <3>1. /\ mode[z] = "row" /\ mode'[z] = "flushing" /\ UNCHANGED <<pending, emitted>> /\ Publish(z, 0)
      BY <2>4 DEF Started, Step, TypeOK
    <3>2. sequences'[z] = sequences[z] + 1
      BY <3>1, OthersUntouched
    <3> QED BY <1>0, <2>0, <3>1, <3>2
  <2>5. CASE Flush(z)
    <3>1. mode[z] = "flushing" /\ UNCHANGED emitted
      BY <2>5 DEF Flush
    <3>2. /\ sequences[z] + Len(pending[z]) = emitted[z] + 1
          /\ \A k \in 1 .. Len(pending[z]) : pending[z][k] = sequences[z] + k - 1
      BY <1>0, <2>0, <3>1
    <3>3. CASE pending[z] = <<>>
      <4>1. mode'[z] = "running" /\ UNCHANGED <<pending, sequences>>
        BY <2>5, <3>3 DEF Flush, Step, TypeOK, bus
      <4> QED BY <2>0, <3>1, <3>2, <3>3, <4>1
    <3>4. CASE pending[z] # <<>>
      <4>1. Publish(z, Head(pending[z])) /\ pending'[z] = Tail(pending[z]) /\ UNCHANGED mode
        BY <2>5, <3>4 DEF Flush, TypeOK
      <4>2. sequences'[z] = sequences[z] + 1
        BY <3>4, <4>1, PendingShape, OthersUntouched
      <4>3. /\ Len(pending'[z]) = Len(pending[z]) - 1
            /\ \A k \in 1 .. Len(pending[z]) - 1 : pending'[z][k] = pending[z][k + 1]
            /\ DOMAIN pending'[z] = 1 .. Len(pending[z]) - 1
        BY <3>4, <4>1, PendingShape
      <4>4. ASSUME NEW k \in 1 .. Len(pending[z]) - 1
            PROVE  pending'[z][k] = sequences'[z] + k - 1
        <5>1. k + 1 \in 1 .. Len(pending[z]) /\ k \in Nat
          BY <2>0
        <5>2. pending[z][k + 1] = sequences[z] + (k + 1) - 1
          BY <3>2, <5>1
        <5>3. pending'[z][k] = pending[z][k + 1]
          BY <4>3, <4>4
        <5>4. sequences[z] + (k + 1) - 1 = (sequences[z] + 1) + k - 1
          BY <2>0, <5>1
        <5> QED BY <4>2, <5>2, <5>3, <5>4
      <4>5. sequences'[z] + Len(pending'[z]) = emitted'[z] + 1 /\ mode'[z] = "flushing"
        <5>1. mode'[z] = "flushing" /\ emitted'[z] = emitted[z]
          BY <3>1, <4>1
        <5>2. (sequences[z] + 1) + (Len(pending[z]) - 1) = emitted[z] + 1
          <6>1. sequences[z] + Len(pending[z]) = emitted[z] + 1
            BY <3>2
          <6>2. \A m, n \in Nat : (m + 1) + (n - 1) = m + n
            OBVIOUS
          <6> QED BY <2>0, <6>1, <6>2
        <5> QED BY <4>2, <4>3, <5>1, <5>2
      <4>6. \A k \in 1 .. Len(pending'[z]) : pending'[z][k] = sequences'[z] + k - 1
        BY <4>3, <4>4
      <4> QED BY <4>5, <4>6
    <3> QED BY <3>3, <3>4
  <2>6. CASE Emit(z)
    <3>1. mode[z] = "running" /\ UNCHANGED mode /\ emitted'[z] = emitted[z] + 1
          /\ Publish(z, emitted[z] + 1) /\ emitted[z] + 1 \in Nat
      BY <2>0, <2>6 DEF Emit, TypeOK
    <3>2. sequences'[z] = sequences[z] + 1
      BY <3>1, OthersUntouched
    <3> QED BY <1>0, <2>0, <3>1, <3>2
  <2> QED BY <1>3, <2>1, <2>2, <2>3, <2>4, <2>5, <2>6 DEF Flow
<1>4. ASSUME NEW c \in Clients, Client(c) PROVE UNCHANGED <<mode, pending, emitted, sequences>>
  BY <1>4 DEF Client, Connect, Refuse, Leave, Stream, Read, Close, bus, flow
<1>5. CASE Tick \/ UNCHANGED vars
  BY <1>1, <1>5 DEF Tick, vars, bus, flow
<1> QED BY <1>1, <1>2, <1>3, <1>4, <1>5 DEF Next

LEMMA FlowInTurnStep ==
  ASSUME TypeOK, RingIsTail, FlowInTurn, [Next]_vars
  PROVE  FlowInTurn'
BY TurnStep, WindowStep DEF FlowInTurn

-----------------------------------------------------------------------------
(* What a client has read and has on its wire, as a publication, a         *)
(* reconnection and the reading of a frame change it.                      *)

LEMMA SeqElements ==
  ASSUME NEW q \in Seq(Event)
  PROVE  /\ Len(q) \in Nat /\ DOMAIN q = 1 .. Len(q)
         /\ \A k \in 1 .. Len(q) : q[k] \in Event /\ q[k].sequence \in Nat /\ q[k].nth \in Nat
<1>1. \A e \in Event : e.sequence \in Nat /\ e.nth \in Nat
  BY DEF Event
<1> QED BY <1>1, LenProperties, ElementOfSeq

LEMMA NumberedEqual ==
  ASSUME NEW e \in Event, NEW f \in Event, Numbered(e), Numbered(f),
         e.sequence = f.sequence \/ e.nth = f.nth
  PROVE  e = f
<1>1. e.sequence = f.sequence /\ e.nth = f.nth
  BY DEF Numbered, Event
<1>2. e = [nth |-> e.nth, sequence |-> e.sequence] /\ f = [nth |-> f.nth, sequence |-> f.sequence]
  BY DEF Event
<1> QED BY <1>1, <1>2

(* A window after a publication holds what it held, and the new event.     *)
LEMMA PushedHolds ==
  ASSUME NEW ring \in Seq(Event), NEW e \in Event, Len(ring) <= RingPerScan
  PROVE  /\ RingPush(ring, e) \in Seq(Event)
         /\ \A k \in 1 .. Len(RingPush(ring, e)) : Has(ring, RingPush(ring, e)[k]) \/ RingPush(ring, e)[k] = e
<1> DEFINE new == RingPush(ring, e)
<1>1. /\ new \in Seq(Event)
      /\ Len(new) = IF Len(ring) < RingPerScan THEN Len(ring) + 1 ELSE RingPerScan
      /\ new[Len(new)] = e
      /\ \A k \in 1 .. Len(new) - 1 : new[k] = ring[k + 1 + Len(ring) - Len(new)]
  BY RingPushFacts
<1> HIDE DEF new
<1>2. Len(ring) \in Nat /\ Len(new) \in Nat
  BY <1>1
<1>3. ASSUME NEW k \in 1 .. Len(new), k # Len(new) PROVE Has(ring, new[k])
  <2>1. k \in 1 .. Len(new) - 1 /\ k + 1 + Len(ring) - Len(new) \in 1 .. Len(ring)
    BY <1>1, <1>2, <1>3
  <2> QED BY <1>1, <2>1 DEF Has
<1> QED BY <1>1, <1>3 DEF new

LEMMA PushReads ==
  ASSUME NEW view \in Seq(Event), NEW id \in Nat, NEW ring \in Seq(Event), NEW n \in Nat,
         Len(ring) <= RingPerScan, Reads(view, id, ring, n), NEW e \in Event, e.sequence = n + 1
  PROVE  Reads(view, id, RingPush(ring, e), n + 1)
<1> DEFINE new == RingPush(ring, e)
<1>1. /\ new \in Seq(Event)
      /\ \A k \in 1 .. Len(new) : Has(ring, new[k]) \/ new[k] = e
  BY PushedHolds
<1> HIDE DEF new
<1>2. \A k \in 1 .. Len(view) : view[k] \in Event /\ view[k].sequence \in Nat
  BY SeqElements
<1>3. id <= n + 1 /\ InSequence(view, n + 1)
  BY <1>2 DEF Reads, InSequence
<1>4. BehindAll(view, e) /\ id < e.sequence
  BY <1>2 DEF Reads, InSequence, BehindAll
<1>5. ASSUME NEW k \in 1 .. Len(new)
      PROVE  Has(view, new[k]) \/ (BehindAll(view, new[k]) /\ id < new[k].sequence)
  BY <1>1, <1>4 DEF Reads, Has
<1> QED BY <1>3, <1>5 DEF Reads, new

LEMMA PushWired ==
  ASSUME NEW view \in Seq(Event), NEW wire \in Seq(Event), NEW ring \in Seq(Event), NEW n \in Nat,
         Len(ring) <= RingPerScan, InSequence(view, n), Wired(view, wire, ring, n),
         NEW e \in Event, e.sequence = n + 1, Numbered(e)
  PROVE  Wired(view, Append(wire, e), RingPush(ring, e), n + 1)
<1> DEFINE new == RingPush(ring, e)
           longer == Append(wire, e)
<1>1. /\ new \in Seq(Event)
      /\ \A k \in 1 .. Len(new) : Has(ring, new[k]) \/ new[k] = e
  BY PushedHolds
<1>2. /\ Len(longer) = Len(wire) + 1 /\ longer[Len(wire) + 1] = e /\ Len(wire) \in Nat
      /\ \A k \in 1 .. Len(wire) : longer[k] = wire[k]
  BY AppendProperties
<1> HIDE DEF new, longer
<1>3. /\ \A k \in 1 .. Len(view) : view[k] \in Event /\ view[k].sequence \in Nat
      /\ \A k \in 1 .. Len(wire) : wire[k] \in Event /\ wire[k].sequence \in Nat
  BY SeqElements
<1>4. \A k \in 1 .. Len(longer) : k \in 1 .. Len(wire) \/ (k = Len(wire) + 1 /\ longer[k] = e)
  BY <1>2
<1>5. \A k \in 1 .. Len(wire) : wire[k].sequence < n + 1 /\ Numbered(wire[k])
  BY <1>3 DEF Wired, InSequence
<1>6. InSequence(longer, n + 1)
  <2>1. \A k \in 1 .. Len(longer) : Numbered(longer[k]) /\ longer[k].sequence <= n + 1
    BY <1>2, <1>3, <1>4, <1>5
  <2>2. ASSUME NEW k \in 1 .. Len(longer), NEW m \in 1 .. Len(longer), k < m
        PROVE  longer[k].sequence < longer[m].sequence
    <3>1. k \in 1 .. Len(wire)
      BY <1>2, <2>2
    <3>2. CASE m \in 1 .. Len(wire)
      BY <1>2, <2>2, <3>1, <3>2 DEF Wired, InSequence
    <3>3. CASE longer[m] = e
      BY <1>2, <1>5, <3>1, <3>3
    <3> QED BY <1>4, <2>2, <3>2, <3>3
  <2> QED BY <2>1, <2>2 DEF InSequence
<1>7. BehindAll(view, e)
  BY <1>3 DEF InSequence, BehindAll
<1>8. \A k \in 1 .. Len(longer) : Has(view, longer[k]) \/ BehindAll(view, longer[k])
  BY <1>2, <1>4, <1>7 DEF Wired
<1>9. ASSUME NEW r, Has(wire, r) \/ r = e PROVE Has(longer, r)
  BY <1>2, <1>9 DEF Has
<1>10. ASSUME NEW k \in 1 .. Len(new) PROVE Has(view, new[k]) \/ Has(longer, new[k])
  <2>1. CASE new[k] = e
    BY <1>9, <2>1
  <2>2. CASE Has(ring, new[k])
    BY <1>9, <2>2 DEF Wired, Has
  <2> QED BY <1>1, <2>1, <2>2
<1> QED BY <1>6, <1>8, <1>10 DEF Wired, new, longer

(* Nothing of the window is lost by what a reconnection leaves out.        *)
LEMMA ReplayWired ==
  ASSUME NEW view \in Seq(Event), NEW id \in Nat, NEW ring \in Seq(Event), NEW n \in Nat,
         IsTail(ring, n), \A k \in 1 .. Len(ring) : Numbered(ring[k]), Reads(view, id, ring, n),
         NEW after \in Nat, after <= id
  PROVE  Wired(view, Behind(ring, after), ring, n)
<1> DEFINE wire == Behind(ring, after)
<1>1. PICK m \in 0 .. Len(ring) :
        /\ wire \in Seq(Event) /\ Len(wire) = Len(ring) - m
        /\ \A k \in 1 .. Len(ring) - m : wire[k] = ring[m + k]
        /\ \A k \in 1 .. Len(ring) : ring[k].sequence <= after <=> k <= m
  BY BehindFacts
<1> HIDE DEF wire
<1>2. Len(ring) \in Nat /\ n - Len(ring) \in Nat
      /\ \A k \in 1 .. Len(ring) : ring[k].sequence = n - Len(ring) + k
  BY DEF IsTail
<1>3. \A k \in 1 .. Len(wire) : m + k \in 1 .. Len(ring) /\ wire[k] = ring[m + k]
  BY <1>1, <1>2
<1>4. InSequence(wire, n)
  <2>1. \A k \in 1 .. Len(ring) : ring[k].sequence <= n
    BY <1>2
  <2>2. ASSUME NEW k \in 1 .. Len(wire), NEW j \in 1 .. Len(wire), k < j
        PROVE  wire[k].sequence < wire[j].sequence
    <3>1. /\ wire[k].sequence = n - Len(ring) + (m + k)
          /\ wire[j].sequence = n - Len(ring) + (m + j)
      BY <1>2, <1>3
    <3>2. k \in Int /\ j \in Int /\ m \in Int /\ n - Len(ring) \in Int
      BY <1>2
    <3> QED BY <2>2, <3>1, <3>2
  <2> QED BY <1>3, <2>1, <2>2 DEF InSequence
<1>5. \A k \in 1 .. Len(wire) : Has(view, wire[k]) \/ BehindAll(view, wire[k])
  BY <1>3 DEF Reads
<1>6. ASSUME NEW k \in 1 .. Len(ring) PROVE Has(view, ring[k]) \/ Has(wire, ring[k])
  <2>1. CASE k <= m
    <3>1. ring[k].sequence <= after /\ ring[k].sequence \in Nat
      BY <1>1, <1>2, <2>1
    <3> QED BY <3>1 DEF Reads
  <2>2. CASE k > m
    <3>1. k - m \in 1 .. Len(wire) /\ m + (k - m) = k
      BY <1>1, <1>2, <2>2
    <3>2. wire[k - m] = ring[k]
      BY <1>3, <3>1
    <3> QED BY <3>1, <3>2 DEF Has
  <2> QED BY <1>2, <2>1, <2>2
<1> QED BY <1>4, <1>5, <1>6 DEF Wired, wire

(* A frame that is read is shown once, behind all that has been shown.     *)
LEMMA ShowFacts ==
  ASSUME NEW view \in Seq(Event), NEW e \in Event, NEW n \in Nat, InSequence(view, n),
         Numbered(e), e.sequence <= n, Has(view, e) \/ BehindAll(view, e)
  PROVE  /\ Show(view, e) \in Seq(Event) /\ InSequence(Show(view, e), n) /\ Has(Show(view, e), e)
         /\ \A f : Has(view, f) => Has(Show(view, e), f)
         /\ \A f : BehindAll(view, f) /\ e.sequence < f.sequence => BehindAll(Show(view, e), f)
<1>0. /\ Len(view) \in Nat /\ DOMAIN view = 1 .. Len(view)
      /\ \A k \in 1 .. Len(view) : view[k] \in Event /\ view[k].sequence \in Nat
  BY SeqElements
<1>1. CASE \E k \in 1 .. Len(view) : view[k].nth = e.nth
  <2>1. Show(view, e) = view
    BY <1>0, <1>1 DEF Show
  <2>2. PICK k \in 1 .. Len(view) : view[k].nth = e.nth
    BY <1>1
  <2>3. view[k] = e
    BY <1>0, <2>2, NumberedEqual DEF InSequence
  <2> QED BY <2>1, <2>3 DEF Has
<1>2. CASE ~ \E k \in 1 .. Len(view) : view[k].nth = e.nth
  <2> DEFINE new == Append(view, e)
  <2>1. Show(view, e) = new
    BY <1>0, <1>2 DEF Show
  <2>2. /\ new \in Seq(Event) /\ Len(new) = Len(view) + 1 /\ new[Len(view) + 1] = e
        /\ \A k \in 1 .. Len(view) : new[k] = view[k]
    BY AppendProperties
  <2> HIDE DEF new
  <2>3. BehindAll(view, e)
    BY <1>2 DEF Has
  <2>4. \A k \in 1 .. Len(new) : k \in 1 .. Len(view) \/ (k = Len(view) + 1 /\ new[k] = e)
    BY <1>0, <2>2
  <2>5. InSequence(new, n)
    <3>1. \A k \in 1 .. Len(new) : Numbered(new[k]) /\ new[k].sequence <= n
      BY <2>2, <2>4 DEF InSequence
    <3>2. ASSUME NEW k \in 1 .. Len(new), NEW m \in 1 .. Len(new), k < m
          PROVE  new[k].sequence < new[m].sequence
      <4>1. k \in 1 .. Len(view)
        BY <1>0, <2>2, <3>2
      <4>2. CASE m \in 1 .. Len(view)
        BY <2>2, <3>2, <4>1, <4>2 DEF InSequence
      <4>3. CASE new[m] = e
        BY <2>2, <2>3, <4>1, <4>3 DEF BehindAll
      <4> QED BY <2>4, <4>2, <4>3
    <3> QED BY <3>1, <3>2 DEF InSequence
  <2>6. Has(new, e) /\ \A f : Has(view, f) => Has(new, f)
    BY <1>0, <2>2 DEF Has
  <2>7. \A f : BehindAll(view, f) /\ e.sequence < f.sequence => BehindAll(new, f)
    BY <2>2, <2>4 DEF BehindAll
  <2> QED BY <2>1, <2>2, <2>5, <2>6, <2>7
<1> QED BY <1>1, <1>2

LEMMA ReadKeepsUp ==
  ASSUME NEW view \in Seq(Event), NEW wire \in Seq(Event), NEW ring \in Seq(Event), NEW n \in Nat,
         NEW id \in Nat, wire # <<>>, Reads(view, id, ring, n), Wired(view, wire, ring, n)
  PROVE  /\ Reads(Show(view, Head(wire)), Head(wire).sequence, ring, n)
         /\ Wired(Show(view, Head(wire)), Tail(wire), ring, n)
<1> DEFINE e == wire[1]
           shown == Show(view, e)
           rest == Tail(wire)
<1>1. /\ Len(wire) \in Nat /\ Len(wire) >= 1 /\ Head(wire) = e /\ 1 \in 1 .. Len(wire)
  OBVIOUS
<1>2. /\ rest \in Seq(Event) /\ Len(rest) = Len(wire) - 1
      /\ \A k \in 1 .. Len(rest) : rest[k] = wire[k + 1]
  BY HeadTailProperties
<1>3. \A k \in 1 .. Len(wire) : wire[k] \in Event /\ wire[k].sequence \in Nat
  BY SeqElements
<1> HIDE DEF rest
<1>4. /\ e \in Event /\ Numbered(e) /\ e.sequence <= n /\ (Has(view, e) \/ BehindAll(view, e))
      /\ InSequence(view, n) /\ e.sequence \in Nat
  BY <1>1, <1>3 DEF Wired, InSequence, Reads
<1> HIDE DEF e
<1>5. /\ shown \in Seq(Event) /\ InSequence(shown, n) /\ Has(shown, e)
      /\ \A f : Has(view, f) => Has(shown, f)
      /\ \A f : BehindAll(view, f) /\ e.sequence < f.sequence => BehindAll(shown, f)
  BY <1>4, ShowFacts
<1> HIDE DEF shown
<1>6. \A k \in 1 .. Len(rest) : k + 1 \in 1 .. Len(wire) /\ 1 < k + 1 /\ rest[k] = wire[k + 1]
  BY <1>1, <1>2
<1>7. \A k \in 1 .. Len(wire) : wire[k] = e \/ (e.sequence < wire[k].sequence /\ Has(rest, wire[k]))
  <2> SUFFICES ASSUME NEW k \in 1 .. Len(wire), k # 1
               PROVE  e.sequence < wire[k].sequence /\ Has(rest, wire[k])
    BY DEF e
  <2>1. k - 1 \in 1 .. Len(rest) /\ (k - 1) + 1 = k /\ 1 < k
    BY <1>1, <1>2
  <2>2. rest[k - 1] = wire[k]
    BY <1>6, <2>1
  <2> QED BY <1>1, <2>1, <2>2 DEF Has, Wired, InSequence, e
<1>8. ASSUME NEW k \in 1 .. Len(ring)
      PROVE  /\ Has(shown, ring[k]) \/ (BehindAll(shown, ring[k]) /\ e.sequence < ring[k].sequence)
             /\ Has(shown, ring[k]) \/ Has(rest, ring[k])
  <2>1. CASE Has(view, ring[k])
    BY <1>5, <2>1
  <2>2. CASE ~Has(view, ring[k])
    <3>1. Has(wire, ring[k]) /\ BehindAll(view, ring[k])
      BY <2>2 DEF Wired, Reads
    <3>2. ring[k] = e \/ (e.sequence < ring[k].sequence /\ Has(rest, ring[k]))
      BY <1>7, <3>1 DEF Has
    <3> QED BY <1>5, <3>1, <3>2
  <2> QED BY <2>1, <2>2
<1>9. Reads(shown, e.sequence, ring, n)
  BY <1>4, <1>5, <1>8 DEF Reads
<1>10. InSequence(rest, n)
  <2>1. \A k \in 1 .. Len(rest) : Numbered(rest[k]) /\ rest[k].sequence <= n
    BY <1>6 DEF Wired, InSequence
  <2>2. ASSUME NEW k \in 1 .. Len(rest), NEW m \in 1 .. Len(rest), k < m
        PROVE  rest[k].sequence < rest[m].sequence
    <3>1. k + 1 < m + 1
      BY <2>2
    <3> QED BY <1>6, <3>1 DEF Wired, InSequence
  <2> QED BY <2>1, <2>2 DEF InSequence
<1>11. ASSUME NEW k \in 1 .. Len(rest) PROVE Has(shown, rest[k]) \/ BehindAll(shown, rest[k])
  <2>1. /\ Has(view, rest[k]) \/ BehindAll(view, rest[k])
        /\ rest[k] = e \/ e.sequence < rest[k].sequence
    BY <1>6, <1>7 DEF Wired
  <2> QED BY <1>5, <2>1
<1>12. Wired(shown, rest, ring, n)
  BY <1>8, <1>10, <1>11 DEF Wired
<1> QED BY <1>1, <1>9, <1>12 DEF shown, rest

-----------------------------------------------------------------------------
(* Every client of a scan that was never evicted keeps up.                 *)

LEMMA ClientShape ==
  ASSUME TypeOK, RingIsTail, NEW c \in Clients
  PROVE  /\ conn[c] \in Connection /\ conn[c].scan \in Scans /\ conn[c].set \in Nat
         /\ conn[c].view \in Seq(Event) /\ conn[c].wire \in Seq(Event) /\ conn[c].lastId \in Nat
         /\ rings[conn[c].scan] \in Seq(Event) /\ sequences[conn[c].scan] \in Nat
         /\ Len(rings[conn[c].scan]) <= RingPerScan
         /\ IsTail(rings[conn[c].scan], sequences[conn[c].scan])
<1>1. conn[c] \in Connection
  BY DEF TypeOK
<1>2. /\ conn[c].scan \in Scans /\ conn[c].set \in Nat
      /\ conn[c].view \in Seq(Event) /\ conn[c].wire \in Seq(Event) /\ conn[c].lastId \in Nat
  BY <1>1 DEF Connection
<1>3. rings[conn[c].scan] \in Seq(Event) /\ sequences[conn[c].scan] \in Nat
  BY <1>2 DEF TypeOK
<1>4. /\ Len(rings[conn[c].scan]) <= RingPerScan
      /\ IsTail(rings[conn[c].scan], sequences[conn[c].scan])
  BY <1>2, <1>3 DEF RingIsTail, IsTail
<1> QED BY <1>1, <1>2, <1>3, <1>4

(* A client that moves on keeps its scan, its view and its last id.        *)
LEMMA AtFacts ==
  ASSUME TypeOK, NEW c \in Clients, NEW from, NEW to, At(c, from, to)
  PROVE  /\ conn'[c].at = to /\ conn'[c].scan = conn[c].scan
         /\ conn'[c].view = conn[c].view /\ conn'[c].lastId = conn[c].lastId
<1>1. conn[c] \in Connection /\ conn'[c] = [conn[c] EXCEPT !.at = to]
  BY DEF TypeOK, At
<1> QED BY <1>1 DEF Connection

LEMMA StreamFacts ==
  ASSUME TypeOK, NEW c \in Clients, Stream(c)
  PROVE  LET s == conn[c].scan
             set == IF subscribers[s] = 0 THEN FreshSet(s) ELSE subscribers[s]
         IN /\ subscribers' = [subscribers EXCEPT ![s] = set] /\ conn'[c].set = set
            /\ conn'[c].scan = s /\ conn'[c].view = conn[c].view /\ conn'[c].lastId = conn[c].lastId
            /\ conn'[c].at = "open" => conn'[c].wire = Replay(s, conn[c].lastId)
<1> DEFINE s == conn[c].scan
           set == IF subscribers[s] = 0 THEN FreshSet(s) ELSE subscribers[s]
           at == IF conn[c].at = "gate" THEN "open" ELSE "ghost"
           wire == IF conn[c].at = "gate" THEN Replay(s, conn[c].lastId) ELSE <<>>
<1>1. conn[c] \in Connection
  BY DEF TypeOK
<1>2. subscribers' = [subscribers EXCEPT ![s] = set]
      /\ conn'[c] = [conn[c] EXCEPT !.at = at, !.set = set, !.wire = wire]
  BY DEF TypeOK, Stream
<1> HIDE DEF set, wire
<1>3. /\ conn'[c].set = set /\ conn'[c].scan = s /\ conn'[c].view = conn[c].view
      /\ conn'[c].lastId = conn[c].lastId /\ conn'[c].wire = wire /\ conn'[c].at = at
  BY <1>1, <1>2 DEF Connection
<1> QED BY <1>2, <1>3 DEF set, wire

LEMMA ReadFacts ==
  ASSUME TypeOK, NEW c \in Clients, Read(c)
  PROVE  /\ conn'[c].at = conn[c].at /\ conn'[c].set = conn[c].set /\ conn'[c].scan = conn[c].scan
         /\ conn'[c].wire = Tail(conn[c].wire) /\ conn'[c].lastId = Head(conn[c].wire).sequence
         /\ conn'[c].view = Show(conn[c].view, Head(conn[c].wire))
<1>1. conn[c] \in Connection
      /\ conn'[c] = [conn[c] EXCEPT !.wire = Tail(conn[c].wire), !.lastId = Head(conn[c].wire).sequence,
                                    !.view = Show(conn[c].view, Head(conn[c].wire))]
  BY DEF TypeOK, Read
<1> QED BY <1>1 DEF Connection

LEMMA CloseFacts ==
  ASSUME TypeOK, NEW c \in Clients, Close(c)
  PROVE  /\ conn'[c].at = "away" /\ conn'[c].scan = conn[c].scan
         /\ conn'[c].view = conn[c].view /\ conn'[c].lastId = conn[c].lastId
<1>1. conn[c] \in Connection
      /\ conn'[c] = [conn[c] EXCEPT !.at = "away", !.set = 0, !.wire = <<>>]
  BY DEF TypeOK, Close
<1> QED BY <1>1 DEF Connection

LEMMA PublishKeepsUp ==
  ASSUME TypeOK, RingIsTail, FlowInTurn, ClientInv, NEW s \in Scans, NEW nth \in Nat,
         Publish(s, nth), s \notin evicted => nth = sequences[s]
  PROVE  ClientInv'
<1> SUFFICES ASSUME NEW c \in Clients, conn'[c].scan \notin evicted' PROVE KeepsUp(c)'
  BY DEF ClientInv
<1> DEFINE z == conn[c].scan
           e == [nth |-> nth, sequence |-> sequences[s] + 1]
<1>1. PICK gone \in SUBSET Scans : PublishedWith(s, nth, gone)
  BY PublishFacts
<1>2. conn' = Notify(s, subscribers[s], e)
  BY <1>1 DEF PublishedWith
<1>3. /\ conn'[c].at = conn[c].at /\ conn'[c].scan = z
      /\ conn'[c].set = conn[c].set /\ conn'[c].lastId = conn[c].lastId
      /\ conn'[c].view = conn[c].view
      /\ conn'[c].wire = IF subscribers[s] # 0 /\ c \in Members(s, subscribers[s]) /\ conn[c].at = "open"
                         THEN Append(conn[c].wire, e) ELSE conn[c].wire
  BY <1>2, NotifyKeeps
<1>4. z \in Scans /\ z \notin evicted'
  BY <1>3, ClientShape
<1>5. /\ z \notin evicted /\ subscribers'[z] = subscribers[z]
      /\ z # s => sequences'[z] = sequences[z] /\ rings'[z] = rings[z]
      /\ z = s => sequences'[z] = sequences[z] + 1 /\ rings'[z] = RingPush(rings[z], e)
  <2>1. z = s => e = [nth |-> nth, sequence |-> sequences[z] + 1]
    OBVIOUS
  <2>2. /\ z \notin evicted /\ subscribers'[z] = subscribers[z]
        /\ z # s => sequences'[z] = sequences[z] /\ rings'[z] = rings[z]
        /\ z = s => sequences'[z] = sequences[z] + 1
                    /\ rings'[z] = RingPush(rings[z], [nth |-> nth, sequence |-> sequences[z] + 1])
    <3> HIDE DEF z
    <3> QED BY <1>4, OthersUntouched
  <2> HIDE DEF e, z
  <2> QED BY <2>1, <2>2
<1>6. KeepsUp(c)
  BY <1>5 DEF ClientInv
<1>7. CASE z # s
  <2>1. conn'[c].wire = conn[c].wire
    BY <1>3, <1>7 DEF Members
  <2> QED BY <1>3, <1>5, <1>6, <1>7, <2>1 DEF KeepsUp
<1>8. CASE z = s
  <2>1. e \in Event /\ e.sequence = sequences[z] + 1 /\ Numbered(e)
    BY <1>5, <1>8 DEF TypeOK, Event, Numbered
  <2> HIDE DEF e
  <2>2. Reads(conn[c].view, conn[c].lastId, rings'[z], sequences'[z])
    BY <1>5, <1>6, <1>8, <2>1, ClientShape, PushReads DEF KeepsUp
  <2>3. ASSUME conn[c].at = "open"
        PROVE  /\ subscribers[z] # 0 /\ conn[c].set = subscribers[z]
               /\ Wired(conn[c].view, Append(conn[c].wire, e), rings'[z], sequences'[z])
    <3>1. /\ subscribers[z] # 0 /\ conn[c].set = subscribers[z]
          /\ Wired(conn[c].view, conn[c].wire, rings[z], sequences[z])
          /\ InSequence(conn[c].view, sequences[z])
      BY <1>6, <2>3 DEF KeepsUp, Reads
    <3> QED BY <1>5, <1>8, <2>1, <3>1, ClientShape, PushWired
  <2>4. conn[c].at = "open" => conn'[c].wire = Append(conn[c].wire, e)
    BY <1>3, <1>8, <2>3 DEF Members, Streaming
  <2> QED BY <1>3, <1>5, <2>2, <2>3, <2>4 DEF KeepsUp
<1> QED BY <1>7, <1>8

(* What another client does leaves the one that keeps up alone: only a new *)
(* connection to a scan nobody streams makes a set, and only the last one  *)
(* to leave removes it.                                                    *)
LEMMA OtherClients ==
  ASSUME TypeOK, RingIsTail, ClientInv, NEW y \in Clients, Client(y),
         NEW c \in Clients \ {y}, conn[c].scan \notin evicted
  PROVE  /\ conn'[c] = conn[c]
         /\ conn[c].at = "open" => subscribers'[conn[c].scan] = subscribers[conn[c].scan]
<1>1. conn'[c] = conn[c]
  BY DEF TypeOK, Client, Connect, Refuse, Leave, Stream, Read, Close, At
<1>2. ASSUME conn[c].at = "open" PROVE subscribers'[conn[c].scan] = subscribers[conn[c].scan]
  <2> DEFINE z == conn[c].scan
             s == conn[y].scan
  <2>1. z \in Scans /\ s \in Scans /\ subscribers[z] # 0 /\ conn[c].set = subscribers[z]
    BY <1>2, ClientShape DEF ClientInv, KeepsUp
  <2>2. CASE Connect(y) \/ Refuse(y) \/ Leave(y) \/ Read(y)
    BY <2>2 DEF Connect, Refuse, Leave, Read, bus
  <2>3. CASE Stream(y)
    <3>1. subscribers' = [subscribers EXCEPT ![s] =
                            IF subscribers[s] = 0 THEN FreshSet(s) ELSE subscribers[s]]
      BY <2>3 DEF Stream
    <3> QED BY <2>1, <3>1 DEF TypeOK
  <2>4. CASE Close(y)
    <3>1. subscribers' = [subscribers EXCEPT ![s] = Unsubscribed(s, y)] /\ conn[y].at = "open"
      BY <2>4 DEF Close
    <3>2. CASE s # z
      BY <2>1, <3>1, <3>2 DEF TypeOK
    <3>3. CASE s = z
      <4>1. conn[y].set = subscribers[z]
        BY <3>1, <3>3 DEF ClientInv, KeepsUp
      <4>2. c \in Members(s, conn[y].set)
        BY <1>2, <2>1, <3>3, <4>1 DEF Members, Streaming
      <4>3. Unsubscribed(s, y) = subscribers[s]
        BY <4>2 DEF Unsubscribed
      <4> QED BY <2>1, <3>1, <3>3, <4>3 DEF TypeOK
    <3> QED BY <3>2, <3>3
  <2> QED BY <2>2, <2>3, <2>4 DEF Client
<1> QED BY <1>1, <1>2

LEMMA ClientKeepsUp ==
  ASSUME TypeOK, RingIsTail, FlowInTurn, ClientInv, NEW y \in Clients, Client(y)
  PROVE  ClientInv'
<1> SUFFICES ASSUME NEW c \in Clients, conn'[c].scan \notin evicted' PROVE KeepsUp(c)'
  BY DEF ClientInv
<1> DEFINE z == conn[c].scan
<1>0. UNCHANGED <<sequences, rings, evicted>>
  BY DEF Client, Connect, Refuse, Leave, Stream, Read, Close, bus
<1>1. conn'[c].scan = z
  <2>1. conn[c] \in Connection
    BY ClientShape
  <2>2. c # y => conn'[c] = conn[c]
    BY DEF TypeOK, Client, Connect, Refuse, Leave, Stream, Read, Close, At
  <2>3. c = y => conn'[c].scan = conn[c].scan
    BY AtFacts, StreamFacts, ReadFacts, CloseFacts DEF Client, Connect, Refuse, Leave
  <2> QED BY <2>2, <2>3
<1>2. z \in Scans /\ z \notin evicted /\ KeepsUp(c)
  BY <1>0, <1>1, ClientShape DEF ClientInv
<1>3. CASE c # y
  BY <1>0, <1>2, <1>3, OtherClients DEF KeepsUp
<1>4. CASE c = y
  <2>1. CASE Connect(y) \/ Refuse(y) \/ Leave(y)
    <3>1. conn'[c].at # "open" /\ conn'[c].view = conn[c].view /\ conn'[c].lastId = conn[c].lastId
      BY <1>4, <2>1, AtFacts DEF Connect, Refuse, Leave
    <3> QED BY <1>0, <1>1, <1>2, <3>1 DEF KeepsUp
  <2>2. CASE Close(y)
    <3>1. conn'[c].at # "open" /\ conn'[c].view = conn[c].view /\ conn'[c].lastId = conn[c].lastId
      BY <1>4, <2>2, CloseFacts
    <3> QED BY <1>0, <1>1, <1>2, <3>1 DEF KeepsUp
  <2>3. CASE Stream(y)
    <3> DEFINE set == IF subscribers[z] = 0 THEN FreshSet(z) ELSE subscribers[z]
               after == IF conn[c].lastId < MaxLastId THEN conn[c].lastId ELSE MaxLastId
    <3>1. /\ subscribers' = [subscribers EXCEPT ![z] = set] /\ conn'[c].set = set
          /\ conn'[c].view = conn[c].view /\ conn'[c].lastId = conn[c].lastId
          /\ conn'[c].at = "open" => conn'[c].wire = Behind(rings[z], after)
      BY <1>4, <2>3, StreamFacts DEF Replay
    <3>2. set # 0 /\ subscribers'[z] = set
      BY <1>2, <3>1, FreshSetExists DEF TypeOK
    <3>3. Reads(conn[c].view, conn[c].lastId, rings[z], sequences[z])
      BY <1>2 DEF KeepsUp
    <3>4. \A k \in 1 .. Len(rings[z]) : Numbered(rings[z][k])
      BY <1>2, ClientShape DEF FlowInTurn, WindowNumbered
    <3>5. after \in Nat /\ after <= conn[c].lastId
      BY ClientShape
    <3> HIDE DEF after
    <3>6. Wired(conn[c].view, Behind(rings[z], after), rings[z], sequences[z])
      BY <3>3, <3>4, <3>5, ClientShape, ReplayWired
    <3> QED BY <1>0, <1>1, <3>1, <3>2, <3>3, <3>6 DEF KeepsUp
  <2>4. CASE Read(y)
    <3> DEFINE e == Head(conn[c].wire)
    <3>1. /\ conn[c].at = "open" /\ conn[c].wire # <<>> /\ UNCHANGED subscribers
          /\ conn'[c].at = conn[c].at /\ conn'[c].set = conn[c].set
          /\ conn'[c].wire = Tail(conn[c].wire) /\ conn'[c].lastId = e.sequence
          /\ conn'[c].view = Show(conn[c].view, e)
      BY <1>4, <2>4, ReadFacts DEF Read, bus
    <3>2. /\ Reads(conn[c].view, conn[c].lastId, rings[z], sequences[z])
          /\ Wired(conn[c].view, conn[c].wire, rings[z], sequences[z])
      BY <1>2, <3>1 DEF KeepsUp
    <3>3. /\ Reads(Show(conn[c].view, e), e.sequence, rings[z], sequences[z])
          /\ Wired(Show(conn[c].view, e), Tail(conn[c].wire), rings[z], sequences[z])
      BY <3>1, <3>2, ClientShape, ReadKeepsUp
    <3> QED BY <1>0, <1>1, <1>2, <3>1, <3>3 DEF KeepsUp
  <2> QED BY <2>1, <2>2, <2>3, <2>4 DEF Client
<1> QED BY <1>3, <1>4

LEMMA ClientInvStep ==
  ASSUME TypeOK, RingIsTail, FlowInTurn, ClientInv, [Next]_vars
  PROVE  ClientInv'
<1>1. CASE UNCHANGED <<sequences, rings, subscribers, evicted, conn>>
  BY <1>1 DEF ClientInv, KeepsUp
<1>2. CASE \E s \in Scans : Flow(s)
  BY <1>1, <1>2, FlowPublishes, PublishKeepsUp DEF bus
<1>3. CASE \E c \in Clients : Client(c)
  BY <1>3, ClientKeepsUp
<1>4. CASE Tick \/ UNCHANGED vars
  BY <1>1, <1>4 DEF Tick, vars, bus
<1> QED BY <1>2, <1>3, <1>4 DEF Next

(* What a client shows of a scan that was never evicted is in the order of *)
(* emission and shows nothing twice, and while it is connected nothing of  *)
(* the window is lost on it, over any number of lost connections, of       *)
(* browsers and of scans beside it.                                        *)
THEOREM ViewFaithful == Spec => []ViewIsFaithful
<1>1. Init => FlowInTurn /\ ClientInv
  <2> SUFFICES ASSUME Init PROVE FlowInTurn /\ ClientInv
    OBVIOUS
  <2>1. \A s \in Scans : /\ rings[s] = <<>> /\ sequences[s] = 0 /\ mode[s] = "early"
                         /\ pending[s] = <<>> /\ emitted[s] = 0
    BY DEF Init
  <2>2. FlowInTurn
    BY <2>1 DEF FlowInTurn, NextInTurn, WindowNumbered
  <2>3. \A c \in Clients : /\ conn[c].at = "away" /\ conn[c].view = <<>> /\ conn[c].lastId = 0
                           /\ conn[c].scan \in Scans
    BY DEF Init
  <2>4. Reads(<<>>, 0, <<>>, 0)
    BY DEF Reads, InSequence
  <2> QED BY <2>1, <2>2, <2>3, <2>4 DEF ClientInv, KeepsUp
<1>2. /\ TypeOK /\ RingIsTail /\ FlowInTurn /\ ClientInv /\ [Next]_vars
      => FlowInTurn' /\ ClientInv'
  BY FlowInTurnStep, ClientInvStep
<1>3. TypeOK /\ RingIsTail /\ ClientInv => ViewIsFaithful
  <2> SUFFICES ASSUME TypeOK, RingIsTail, ClientInv, NEW c \in Clients, conn[c].scan \notin evicted
               PROVE  /\ \A k, m \in DOMAIN conn[c].view :
                           k < m => conn[c].view[k].nth < conn[c].view[m].nth
                      /\ conn[c].at = "open" =>
                           \A k \in DOMAIN rings[conn[c].scan] :
                             \/ \E m \in DOMAIN conn[c].view : conn[c].view[m] = rings[conn[c].scan][k]
                             \/ \E m \in DOMAIN conn[c].wire : conn[c].wire[m] = rings[conn[c].scan][k]
    BY DEF ViewIsFaithful, ViewInOrder, ConnectedMissesNothing
  <2> DEFINE view == conn[c].view
  <2>1. /\ view \in Seq(Event) /\ conn[c].wire \in Seq(Event) /\ rings[conn[c].scan] \in Seq(Event)
    BY ClientShape
  <2>2. KeepsUp(c)
    BY DEF ClientInv
  <2>3. ASSUME NEW k \in 1 .. Len(view), NEW m \in 1 .. Len(view), k < m
        PROVE  view[k].nth < view[m].nth
    <3>1. view[k].sequence < view[m].sequence /\ Numbered(view[k]) /\ Numbered(view[m])
      BY <2>2, <2>3 DEF KeepsUp, Reads, InSequence
    <3>2. view[k].nth \in Nat /\ view[m].nth \in Nat
      BY <2>1, SeqElements
    <3> QED BY <3>1, <3>2 DEF Numbered
  <2>4. ASSUME conn[c].at = "open", NEW k \in 1 .. Len(rings[conn[c].scan])
        PROVE  Has(view, rings[conn[c].scan][k]) \/ Has(conn[c].wire, rings[conn[c].scan][k])
    BY <2>2, <2>4 DEF KeepsUp, Wired
  <2> QED BY <2>1, <2>3, <2>4, SeqElements DEF Has
<1> QED BY <1>1, <1>2, <1>3, TypeCorrect, PTL DEF Spec
=============================================================================
