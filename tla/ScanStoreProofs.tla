--------------------------- MODULE ScanStoreProofs ---------------------------
(***************************************************************************)
(* Proofs about ScanStore for any number of scans, of visits of the page   *)
(* and of answers under way; and about DemoReplay for any demonstrations,  *)
(* scenarios and speeds.                                                   *)
(***************************************************************************)
EXTENDS ScanStore, DemoReplay, FiniteSetTheorems, SequenceTheorems, WellFoundedInduction, TLAPS

USE StoreAssumption
HIDE DemoAssumption

-----------------------------------------------------------------------------
(* What the backend has stored of a scan, told by the place of the event.  *)
(* A scan tells one story: each event follows from the one before it.      *)
Events ==
  {"SCAN_STARTED", "SCANNER_COMPLETED", "SNIPER_CONFIRMED", "SNIPER_NOT_TESTED",
   "ENGINEER_PATCH_GENERATED", "ENGINEER_REJECTED", "CRITIC_APPROVED", "CRITIC_REJECTED",
   "REMEDIATION_PR_CREATED", "REMEDIATION_DELIVERY_FAILED"}
Story(h) ==
  /\ h \in Seq(Events) /\ Len(h) <= 6
  /\ Len(h) >= 1 => h[1] = "SCAN_STARTED"
  /\ Len(h) >= 2 => h[2] = "SCANNER_COMPLETED"
  /\ Len(h) >= 3 => h[3] \in {"SNIPER_CONFIRMED", "SNIPER_NOT_TESTED"}
  /\ Len(h) >= 4 => h[3] = "SNIPER_CONFIRMED" /\ h[4] \in {"ENGINEER_PATCH_GENERATED", "ENGINEER_REJECTED"}
  /\ Len(h) >= 5 => h[4] = "ENGINEER_PATCH_GENERATED" /\ h[5] \in {"CRITIC_APPROVED", "CRITIC_REJECTED"}
  /\ Len(h) >= 6 => h[5] = "CRITIC_APPROVED"
                      /\ h[6] \in {"REMEDIATION_PR_CREATED", "REMEDIATION_DELIVERY_FAILED"}

Reached(h, p, e) == Len(h) >= p /\ h[p] = e
IsFound(h) == Len(h) >= 2
IsConfirmed(h) == Reached(h, 3, "SNIPER_CONFIRMED")
IsApproved(h) == Reached(h, 5, "CRITIC_APPROVED")
HasPR(h) == Reached(h, 6, "REMEDIATION_PR_CREATED")

(* A view claims no more than the backend has.                             *)
Claims(view, h) ==
  /\ view.confirmed => IsConfirmed(h)
  /\ view.patch = "APPROVED" => IsApproved(h)
  /\ view.pr => HasPR(h)

(* An answer that was read claims no more than the backend has either.     *)
Sound(f) ==
  f.answer # Unread =>
    /\ Claims(f.answer.view, history[f.scan])
    /\ f.answer.view.confirmed \/ f.answer.view.pr => f.answer.found

-----------------------------------------------------------------------------
(* The three facts a page must not lose, each under the place of the event *)
(* that brings it: the finding, its confirmation and its pull request.     *)
Facts == {2, 3, 6}
True(p, h) ==
  /\ p = 2 => IsFound(h)
  /\ p = 3 => IsConfirmed(h)
  /\ p = 6 => HasPR(h)
Shows(p, rec, g) ==
  /\ p = 2 => rec # Absent
  /\ p = 3 => rec.confirmed
  /\ p = 6 => rec.pr \/ "unplaced" \in g
Brings(p, answer) ==
  answer # Unread =>
    /\ answer.found
    /\ p = 3 => answer.view.confirmed
    /\ p = 6 => answer.view.pr

(* On its way to the page: in an answer that is fetched, or in an event of *)
(* the stream that was not handled yet.                                    *)
Coming(p, s, under, next, seen) ==
  \/ \E f \in under : f.scan = s /\ Brings(p, f.answer)
  \/ next <= p /\ <<s, p>> \notin seen

(* While the page is subscribed to the scan it shows and has lost nothing, *)
(* each fact is shown or on its way.                                       *)
Kept ==
  attached \in ScanIds /\ subscribed = attached /\ "lost" \notin gap =>
    \A p \in Facts : True(p, history[attached]) =>
      Shows(p, shown[attached], gap) \/ Coming(p, attached, fetches, cursor, processed)

-----------------------------------------------------------------------------
(* The story goes on.                                                      *)
LEMMA StoryGoesOn ==
  ASSUME NEW s \in ScanIds, Story(history[s]), NEW e \in Follows(LastOf(s))
  PROVE  Story(Append(history[s], e))
<1> DEFINE h == history[s]  g == Append(h, e)
<1>1. h \in Seq(Events) /\ Len(h) \in Nat /\ Len(h) <= 6
  BY DEF Story
<1>2. e \in Events
  BY DEF Follows, Events
<1>3. g \in Seq(Events) /\ Len(g) = Len(h) + 1 /\ g[Len(h) + 1] = e /\ \A i \in 1..Len(h) : g[i] = h[i]
  BY <1>1, <1>2
<1>4. Len(h) # 0 => LastOf(s) = h[Len(h)]
  BY <1>1 DEF LastOf, Last
<1>5. Len(h) = 0 => LastOf(s) = "none"
  BY <1>1 DEF LastOf
<1>6. CASE Len(h) = 0
  <2>1. e = "SCAN_STARTED"
    BY <1>5, <1>6 DEF Follows
  <2> QED BY <1>3, <1>6, <2>1 DEF Story
<1>7. CASE Len(h) = 1
  <2>1. e = "SCANNER_COMPLETED"
    BY <1>4, <1>7 DEF Follows, Story
  <2> QED BY <1>3, <1>7, <2>1 DEF Story
<1>8. CASE Len(h) = 2
  <2>1. e \in {"SNIPER_CONFIRMED", "SNIPER_NOT_TESTED"}
    BY <1>4, <1>8 DEF Follows, Story
  <2> QED BY <1>3, <1>8, <2>1 DEF Story
<1>9. CASE Len(h) = 3
  <2>1. h[3] = "SNIPER_CONFIRMED" /\ e \in {"ENGINEER_PATCH_GENERATED", "ENGINEER_REJECTED"}
    BY <1>4, <1>9 DEF Follows, Story
  <2> QED BY <1>3, <1>9, <2>1 DEF Story
<1>10. CASE Len(h) = 4
  <2>1. h[4] = "ENGINEER_PATCH_GENERATED" /\ e \in {"CRITIC_APPROVED", "CRITIC_REJECTED"}
    BY <1>4, <1>10 DEF Follows, Story
  <2> QED BY <1>3, <1>10, <2>1 DEF Story
<1>11. CASE Len(h) = 5
  <2>1. h[5] = "CRITIC_APPROVED" /\ e \in {"REMEDIATION_PR_CREATED", "REMEDIATION_DELIVERY_FAILED"}
    BY <1>4, <1>11 DEF Follows, Story
  <2> QED BY <1>3, <1>11, <2>1 DEF Story
<1>12. Len(h) # 6
  BY <1>4 DEF Follows, Story
<1>13. ASSUME NEW n \in Nat, n <= 6 PROVE n \in {0, 1, 2, 3, 4, 5, 6}
  BY <1>13
<1>14. Len(h) \in {0, 1, 2, 3, 4, 5, 6}
  BY <1>1, <1>13
<1> QED BY <1>6, <1>7, <1>8, <1>9, <1>10, <1>11, <1>12, <1>14

(* What was stored stays stored.                                           *)
LEMMA StoryStays ==
  ASSUME NEW h \in Seq(Events), NEW e \in Events, NEW view
  PROVE  /\ IsFound(h) => IsFound(Append(h, e))
         /\ Claims(view, h) => Claims(view, Append(h, e))
BY DEF IsFound, Claims, IsConfirmed, IsApproved, HasPR, Reached

(* The rows of a scan, told by its story.                                  *)
LEMMA StoredIsStory ==
  ASSUME NEW s \in ScanIds, Story(history[s])
  PROVE  /\ Stored(s) \in [found : BOOLEAN, view : FindingView]
         /\ Stored(s).found <=> IsFound(history[s])
         /\ Stored(s).view.confirmed <=> IsConfirmed(history[s])
         /\ (Stored(s).view.patch = "APPROVED") <=> IsApproved(history[s])
         /\ Stored(s).view.pr <=> HasPR(history[s])
<1> DEFINE h == history[s]  did == Happened(s)
<1>1. h \in Seq(Events) /\ Len(h) \in Nat /\ Len(h) <= 6
  BY DEF Story
<1>2. \A e : e \in did <=> \E i \in 1..Len(h) : h[i] = e
  BY <1>1 DEF Happened, ToSet
<1>3. \A e : e \in did <=> \E p \in 1..6 : Reached(h, p, e)
  <2>1. ASSUME NEW e, e \in did PROVE \E p \in 1..6 : Reached(h, p, e)
    <3>1. PICK i \in 1..Len(h) : h[i] = e
      BY <1>2, <2>1
    <3>2. i \in 1..6 /\ Reached(h, i, e)
      BY <1>1, <3>1 DEF Reached
    <3> QED BY <3>2
  <2>2. ASSUME NEW e, NEW p \in 1..6, Reached(h, p, e) PROVE e \in did
    BY <1>1, <1>2, <2>2 DEF Reached
  <2> QED BY <2>1, <2>2
<1>4. "SCANNER_COMPLETED" \in did <=> IsFound(h)
  BY <1>1, <1>3 DEF Reached, Story, IsFound
<1>5. "SNIPER_CONFIRMED" \in did <=> IsConfirmed(h)
  BY <1>1, <1>3 DEF Reached, Story, IsConfirmed
<1>6. "CRITIC_APPROVED" \in did <=> IsApproved(h)
  BY <1>1, <1>3 DEF Reached, Story, IsApproved
<1>7. "REMEDIATION_PR_CREATED" \in did <=> HasPR(h)
  BY <1>1, <1>3 DEF Reached, Story, HasPR
<1>8. "CRITIC_APPROVED" \in did => did \cap {"ENGINEER_REJECTED", "CRITIC_REJECTED"} = {}
  BY <1>1, <1>3 DEF Reached, Story
<1> DEFINE patch == IF did \cap {"ENGINEER_REJECTED", "CRITIC_REJECTED"} # {} THEN "REJECTED"
                    ELSE IF "CRITIC_APPROVED" \in did THEN "APPROVED"
                    ELSE IF "ENGINEER_PATCH_GENERATED" \in did THEN "GENERATED" ELSE "none"
<1> DEFINE found == "SCANNER_COMPLETED" \in did
           confirmed == "SNIPER_CONFIRMED" \in did
           pr == "REMEDIATION_PR_CREATED" \in did
<1>9. Stored(s) = [found |-> found, view |-> [confirmed |-> confirmed, patch |-> patch, pr |-> pr]]
  BY DEF Stored
<1>10. patch \in PatchStatus
  BY DEF PatchStatus
<1>11. (patch = "APPROVED") <=> IsApproved(h)
  BY <1>6, <1>8
<1>12. found \in BOOLEAN /\ confirmed \in BOOLEAN /\ pr \in BOOLEAN
  OBVIOUS
<1>13. (found <=> IsFound(h)) /\ (confirmed <=> IsConfirmed(h)) /\ (pr <=> HasPR(h))
  BY <1>4, <1>5, <1>7
<1> HIDE DEF patch, did, found, confirmed, pr
<1>14. /\ Stored(s).found = found /\ Stored(s).view.confirmed = confirmed
       /\ Stored(s).view.patch = patch /\ Stored(s).view.pr = pr
  BY <1>9
<1>15. Stored(s) \in [found : BOOLEAN, view : FindingView]
  BY <1>9, <1>10, <1>12 DEF FindingView
<1> QED BY <1>11, <1>13, <1>14, <1>15

-----------------------------------------------------------------------------
(* Types.                                                                  *)
View == FindingView \cup {Absent}
Answer == [found : BOOLEAN, view : FindingView]
Fetch == [scan : ScanIds, answer : Answer \cup {Unread}]

PipelineOK ==
  /\ history \in [ScanIds -> Seq(Events)] /\ published \in [ScanIds -> Nat] /\ tail \in [ScanIds -> Nat]
  /\ \A s \in ScanIds : /\ Story(history[s]) /\ published[s] <= Len(history[s])
                        /\ 1 <= tail[s] /\ tail[s] <= published[s] + 1
StreamOK ==
  /\ attached \in ScanIds \cup {"none"} /\ subscribed \in ScanIds \cup {"none"}
  /\ cursor \in Nat /\ 1 <= cursor /\ cursor <= 7
  /\ subscribed # "none" => cursor <= published[subscribed] + 1
  /\ processed \subseteq ScanIds \X (1..6) /\ \A k \in processed : k[2] <= published[k[1]]
FetchesOK == fetches \subseteq Fetch /\ IsFiniteSet(fetches) /\ Cardinality(fetches) <= MaxFetches
PageOK ==
  /\ shown \in [ScanIds -> View] /\ creating \in BOOLEAN /\ gap \subseteq {"lost", "unplaced"}
  /\ visits \in 0..MaxVisits
TypeInv == PipelineOK /\ StreamOK /\ FetchesOK /\ PageOK

LEMMA TypesAreTypes == TypeInv => StoreTypeOK
<1> SUFFICES ASSUME TypeInv PROVE StoreTypeOK
  OBVIOUS
<1>1. ASSUME NEW s \in ScanIds PROVE published[s] \in 0..Len(history[s]) /\ Len(history[s]) <= 6
  <2>1. /\ published[s] \in Nat /\ published[s] <= Len(history[s])
        /\ Len(history[s]) \in Nat /\ Len(history[s]) <= 6
    BY DEF TypeInv, PipelineOK, Story
  <2> QED BY <2>1
<1>2. tail \in [ScanIds -> 1..7]
  <2>1. ASSUME NEW s \in ScanIds PROVE tail[s] \in 1..7
    <3>1. /\ published[s] \in Nat /\ published[s] <= Len(history[s]) /\ tail[s] \in Nat
          /\ Len(history[s]) \in Nat /\ Len(history[s]) <= 6
          /\ 1 <= tail[s] /\ tail[s] <= published[s] + 1
      BY DEF TypeInv, PipelineOK, Story
    <3> QED BY <3>1
  <2> QED BY <2>1 DEF TypeInv, PipelineOK
<1>3. cursor \in 1..7
  BY DEF TypeInv, StreamOK
<1>4. \A f \in fetches : /\ f.scan \in ScanIds /\ f.answer.found \in BOOLEAN
                         /\ f.answer.view \in FindingView \cup {Absent}
  <2>1. ASSUME NEW f \in Fetch
        PROVE  /\ f.scan \in ScanIds /\ f.answer.found \in BOOLEAN
               /\ f.answer.view \in FindingView \cup {Absent}
    <3>1. CASE f.answer = Unread
      BY <3>1 DEF Fetch, Unread
    <3>2. CASE f.answer \in Answer
      BY <3>2 DEF Fetch, Answer
    <3> QED BY <3>1, <3>2 DEF Fetch
  <2> QED BY <2>1 DEF TypeInv, FetchesOK
<1> QED BY <1>1, <1>2, <1>3, <1>4 DEF StoreTypeOK, TypeInv, StreamOK, FetchesOK, PageOK, View

LEMMA StartTypes == StoreInit => TypeInv
<1> SUFFICES ASSUME StoreInit PROVE TypeInv
  OBVIOUS
<1>1. \A s \in ScanIds : history[s] \in Seq(Events) /\ Story(history[s])
  <2>1. <<>> \in Seq(Events) /\ Story(<<>>)
    BY DEF Story
  <2>2. Over \in Seq(Events) /\ Story(Over)
    BY DEF Over, Story, Events
  <2> QED BY <2>1, <2>2 DEF StoreInit
<1>2. \A s \in ScanIds : Len(history[s]) \in Nat /\ published[s] = Len(history[s]) /\ tail[s] = 1
  BY <1>1 DEF StoreInit
<1>3. PipelineOK
  <2>1. history \in [ScanIds -> Seq(Events)]
    BY <1>1 DEF StoreInit
  <2>2. published \in [ScanIds -> Nat] /\ tail \in [ScanIds -> Nat]
    BY <1>2 DEF StoreInit
  <2> QED BY <1>1, <1>2, <2>1, <2>2 DEF PipelineOK
<1>4. StreamOK
  BY DEF StoreInit, StreamOK
<1>5. FetchesOK
  BY FS_EmptySet DEF StoreInit, FetchesOK
<1>6. PageOK
  <2>1. shown \in [ScanIds -> View]
    BY DEF StoreInit, NoRecords, View
  <2>2. visits \in 0..MaxVisits
    BY DEF StoreInit
  <2> QED BY <2>1, <2>2 DEF StoreInit, PageOK
<1> QED BY <1>3, <1>4, <1>5, <1>6 DEF TypeInv

(* The set of answers under way.                                           *)
LEMMA MoreFetches ==
  ASSUME FetchesOK, NEW g \in Fetch, CanFetch, fetches' = fetches \cup {g}
  PROVE  FetchesOK'
<1>1. IsFiniteSet(fetches) /\ Cardinality(fetches) \in Nat /\ Cardinality(fetches) < MaxFetches
  BY FS_CardinalityType DEF FetchesOK, CanFetch
<1>2. /\ IsFiniteSet(fetches')
      /\ Cardinality(fetches') = Cardinality(fetches) \/ Cardinality(fetches') = Cardinality(fetches) + 1
  BY <1>1, FS_AddElement
<1> QED BY <1>1, <1>2 DEF FetchesOK

LEMMA FewerFetches ==
  ASSUME FetchesOK, NEW f \in fetches
  PROVE  /\ IsFiniteSet(fetches \ {f}) /\ fetches \ {f} \subseteq Fetch
         /\ Cardinality(fetches \ {f}) \in Nat /\ Cardinality(fetches \ {f}) < MaxFetches
<1>1. IsFiniteSet(fetches) /\ Cardinality(fetches) \in Nat /\ Cardinality(fetches) <= MaxFetches
  BY FS_CardinalityType DEF FetchesOK
<1>2. IsFiniteSet(fetches \ {f}) /\ Cardinality(fetches \ {f}) = Cardinality(fetches) - 1
  BY <1>1, FS_RemoveElement
<1>3. Cardinality(fetches \ {f}) \in Nat
  BY <1>2, FS_CardinalityType
<1> QED BY <1>1, <1>2, <1>3 DEF FetchesOK

LEMMA UnreadIsAnswer ==
  ASSUME NEW s \in ScanIds
  PROVE  [scan |-> s, answer |-> Unread] \in Fetch
BY DEF Fetch

(* Every record the store makes of an event is one of its records.         *)
LEMMA HandledTypes ==
  ASSUME NEW rec \in View, NEW e
  PROVE  Handled(e, rec) \in View
<1>0. CASE rec = Absent
  <2>1. [confirmed |-> TRUE, patch |-> "none", pr |-> FALSE] \in FindingView
    BY DEF FindingView, PatchStatus
  <2>2. [confirmed |-> TRUE, patch |-> "GENERATED", pr |-> FALSE] \in FindingView
    BY DEF FindingView, PatchStatus
  <2>3. rec.patch = "absent"
    BY <1>0 DEF Absent
  <2> QED BY <1>0, <2>1, <2>2, <2>3 DEF Handled, OnConfirmed, OnDraft, OnNoDraft, OnApproved, OnPullRequest,
                                        OnDeliveryFailed, View, PatchStatus
<1>1. CASE rec \in FindingView
  <2>1. rec # Absent
    BY <1>1 DEF Absent, FindingView, PatchStatus
  <2>2. \A p \in PatchStatus : [rec EXCEPT !.patch = p] \in FindingView
    BY <1>1 DEF FindingView
  <2>3. [rec EXCEPT !.confirmed = TRUE] \in FindingView
    BY <1>1 DEF FindingView
  <2>4. \A p \in PatchStatus : /\ [rec EXCEPT !.patch = p, !.pr = FALSE] \in FindingView
                               /\ [rec EXCEPT !.patch = p, !.pr = TRUE] \in FindingView
    BY <1>1 DEF FindingView
  <2>5. {"GENERATED", "REJECTED", "APPROVED"} \subseteq PatchStatus
    BY DEF PatchStatus
  <2> QED BY <1>1, <2>1, <2>2, <2>3, <2>4, <2>5 DEF Handled, OnConfirmed, OnDraft, OnNoDraft, OnApproved,
                                                OnPullRequest, OnDeliveryFailed, View
<1> QED BY <1>0, <1>1 DEF View

LEMMA MergedIsRecord ==
  ASSUME NEW rec \in View, NEW view \in FindingView
  PROVE  Merged(rec, view) \in FindingView
<1>1. CASE rec = Absent
  BY <1>1 DEF Merged
<1>2. CASE rec # Absent
  <2>1. rec \in FindingView
    BY <1>2 DEF View
  <2> DEFINE c == view.confirmed \/ rec.confirmed
             p == IF view.patch = "none" THEN rec.patch ELSE view.patch
             r == view.pr \/ rec.pr
  <2>2. c \in BOOLEAN /\ r \in BOOLEAN /\ p \in PatchStatus
    BY <2>1 DEF FindingView
  <2>3. Merged(rec, view) = [confirmed |-> c, patch |-> p, pr |-> r]
    BY <1>2 DEF Merged
  <2> HIDE DEF c, p, r
  <2> QED BY <2>2, <2>3 DEF FindingView
<1> QED BY <1>1, <1>2

LEMMA PipelineTypes ==
  ASSUME TypeInv, NEW s \in ScanIds, StoreResult(s) \/ PublishEvent(s)
  PROVE  TypeInv'
<1>1. CASE StoreResult(s)
  <2>1. PICK e \in Follows(LastOf(s)) : history' = [history EXCEPT ![s] = Append(@, e)]
    BY <1>1 DEF StoreResult
  <2>2. /\ UNCHANGED <<published, tail, attached, subscribed, cursor, processed, shown, fetches, creating, gap, visits>>
    BY <1>1 DEF StoreResult, page
  <2>3. e \in Events
    BY DEF Follows, Events
  <2>4. history[s] \in Seq(Events) /\ Story(history[s])
    BY DEF TypeInv, PipelineOK
  <2>5. /\ Append(history[s], e) \in Seq(Events) /\ Len(Append(history[s], e)) = Len(history[s]) + 1
        /\ Len(history[s]) \in Nat
    BY <2>3, <2>4
  <2>6. Story(Append(history[s], e))
    BY <2>1, <2>4, StoryGoesOn
  <2>7. PipelineOK'
    <3>1. history' \in [ScanIds -> Seq(Events)]
      BY <2>1, <2>5 DEF TypeInv, PipelineOK
    <3>2. ASSUME NEW t \in ScanIds PROVE Story(history'[t]) /\ published[t] <= Len(history'[t])
      <4>1. CASE t = s
        BY <2>1, <2>5, <2>6, <4>1 DEF TypeInv, PipelineOK
      <4>2. CASE t # s
        BY <2>1, <4>2 DEF TypeInv, PipelineOK
      <4> QED BY <4>1, <4>2
    <3> QED BY <2>2, <3>1, <3>2 DEF TypeInv, PipelineOK
  <2> QED BY <2>2, <2>7 DEF TypeInv, StreamOK, FetchesOK, PageOK
<1>2. CASE PublishEvent(s)
  <2>1. /\ published' = [published EXCEPT ![s] = @ + 1] /\ published[s] < Len(history[s])
        /\ UNCHANGED <<history, tail, attached, subscribed, cursor, processed, shown, fetches, creating, gap, visits>>
    BY <1>2 DEF PublishEvent, page
  <2>2. published' \in [ScanIds -> Nat] /\ \A t \in ScanIds : published[t] <= published'[t]
    BY <2>1 DEF TypeInv, PipelineOK
  <2>3. PipelineOK'
    <3>1. ASSUME NEW t \in ScanIds PROVE published'[t] <= Len(history[t])
      <4>1. published[s] \in Nat /\ Len(history[s]) \in Nat
        BY DEF TypeInv, PipelineOK, Story
      <4> QED BY <2>1, <4>1 DEF TypeInv, PipelineOK
    <3>2. ASSUME NEW t \in ScanIds PROVE tail[t] <= published'[t] + 1
      <4>1. tail[t] \in Nat /\ published[t] \in Nat /\ published'[t] \in Nat /\ tail[t] <= published[t] + 1
        BY <2>2 DEF TypeInv, PipelineOK
      <4> QED BY <2>2, <4>1
    <3> QED BY <2>1, <2>2, <3>1, <3>2 DEF TypeInv, PipelineOK
  <2>4. StreamOK'
    <3>1. subscribed # "none" => cursor <= published'[subscribed] + 1
      <4>1. ASSUME subscribed # "none"
            PROVE  /\ published[subscribed] \in Nat /\ published'[subscribed] \in Nat
                   /\ published[subscribed] <= published'[subscribed]
        BY <2>2, <4>1 DEF TypeInv, PipelineOK, StreamOK
      <4> QED BY <4>1 DEF TypeInv, StreamOK
    <3>2. ASSUME NEW k \in processed PROVE k[2] <= published'[k[1]]
      <4>1. k \in ScanIds \X (1..6) /\ k[2] <= published[k[1]]
        BY DEF TypeInv, StreamOK
      <4>2. k[1] \in ScanIds /\ k[2] \in Nat
        BY <4>1
      <4>3. published[k[1]] \in Nat /\ published'[k[1]] \in Nat /\ published[k[1]] <= published'[k[1]]
        BY <2>2, <4>2 DEF TypeInv, PipelineOK
      <4> QED BY <4>1, <4>2, <4>3
    <3> QED BY <2>1, <3>1, <3>2 DEF TypeInv, StreamOK
  <2> QED BY <2>1, <2>3, <2>4 DEF TypeInv, FetchesOK, PageOK
<1> QED BY <1>1, <1>2

LEMMA AnswerTypes ==
  ASSUME TypeInv, NEW f \in fetches, ReadRows(f) \/ TakeAnswer(f) \/ FetchFails(f)
  PROVE  TypeInv'
<1>0. /\ UNCHANGED <<history, published, tail, attached, subscribed, cursor, processed, creating, visits>>
      /\ PipelineOK' /\ StreamOK'
  BY DEF ReadRows, TakeAnswer, FetchFails, pipeline, TypeInv, PipelineOK, StreamOK
<1>1. CASE ReadRows(f)
  <2>1. f.scan \in ScanIds /\ fetches \subseteq Fetch
    BY DEF TypeInv, FetchesOK, Fetch
  <2> DEFINE g == [scan |-> f.scan, answer |-> Stored(f.scan)]
  <2>2. g \in Fetch
    BY <2>1, StoredIsStory DEF TypeInv, PipelineOK, Fetch, Answer
  <2> HIDE DEF g
  <2>3. FetchesOK'
    <3>1. CASE CanFetch /\ fetches' = fetches \cup {g}
      BY <2>2, <3>1, MoreFetches DEF TypeInv
    <3>2. CASE fetches' = (fetches \ {f}) \cup {g}
      <4>1. /\ IsFiniteSet(fetches \ {f}) /\ fetches \ {f} \subseteq Fetch
            /\ Cardinality(fetches \ {f}) \in Nat /\ Cardinality(fetches \ {f}) < MaxFetches
        BY FewerFetches DEF TypeInv
      <4>2. /\ IsFiniteSet(fetches')
            /\ \/ Cardinality(fetches') = Cardinality(fetches \ {f})
               \/ Cardinality(fetches') = Cardinality(fetches \ {f}) + 1
        BY <3>2, <4>1, FS_AddElement
      <4> QED BY <2>2, <3>2, <4>1, <4>2 DEF FetchesOK
    <3> QED BY <1>1, <3>1, <3>2 DEF ReadRows, g
  <2> QED BY <1>0, <1>1, <2>3 DEF ReadRows, TypeInv, PageOK
<1>2. CASE TakeAnswer(f) \/ FetchFails(f)
  <2>1. FetchesOK'
    <3>1. fetches' = fetches \ {f}
      BY <1>2 DEF TakeAnswer, FetchFails
    <3> QED BY <3>1, FewerFetches DEF TypeInv, FetchesOK
  <2>2. shown' \in [ScanIds -> View]
    <3>1. CASE TakeAnswer(f)
      <4>1. f.scan \in ScanIds /\ f.answer.view \in FindingView
        BY <3>1 DEF TakeAnswer, TypeInv, FetchesOK, Fetch, Answer
      <4>2. Merged(shown[f.scan], f.answer.view) \in View
        BY <4>1, MergedIsRecord DEF TypeInv, PageOK, View
      <4> QED BY <3>1, <4>2 DEF TakeAnswer, TypeInv, PageOK
    <3>2. CASE FetchFails(f)
      BY <3>2 DEF FetchFails, TypeInv, PageOK
    <3> QED BY <1>2, <3>1, <3>2
  <2>3. gap' \subseteq {"lost", "unplaced"}
    BY <1>2 DEF TakeAnswer, FetchFails, TypeInv, PageOK
  <2> QED BY <1>0, <2>1, <2>2, <2>3 DEF TypeInv, PageOK
<1> QED BY <1>1, <1>2

LEMMA FetchingTypes ==
  ASSUME TypeInv, NEW s \in ScanIds, CanFetch, Fetching(s)
  PROVE  FetchesOK'
BY UnreadIsAnswer, MoreFetches DEF Fetching, TypeInv

LEMMA VisitTypes ==
  ASSUME TypeInv, (\E s \in ScanIds : SelectScan(s)) \/ SubmitScan \/ ScanCreated
  PROVE  TypeInv'
<1>1. UNCHANGED <<history, published, tail, subscribed, cursor>> /\ PipelineOK'
  BY DEF SelectScan, SubmitScan, ScanCreated, pipeline, TypeInv, PipelineOK
<1>2. NoRecords \in [ScanIds -> View]
  BY DEF NoRecords, View
<1>3. visits' \in 0..MaxVisits
  BY DEF SelectScan, SubmitScan, ScanCreated, Visit, TypeInv, PageOK
<1>4. ASSUME NEW s \in ScanIds, Attach(s), CanFetch, creating' \in BOOLEAN PROVE TypeInv'
  <2>1. FetchesOK'
    BY <1>4, FetchingTypes DEF Attach
  <2>2. attached' = s /\ shown' = NoRecords /\ processed' = {} /\ gap' = {}
    BY <1>4 DEF Attach, Reset
  <2> QED BY <1>1, <1>2, <1>3, <1>4, <2>1, <2>2 DEF TypeInv, StreamOK, PageOK
<1>5. CASE \E s \in ScanIds : SelectScan(s)
  BY <1>4, <1>5 DEF SelectScan, TypeInv, PageOK
<1>6. CASE SubmitScan
  <2>1. /\ attached' = attached /\ fetches' = fetches /\ creating' = TRUE
        /\ shown' = NoRecords /\ processed' = {} /\ gap' \subseteq {"lost", "unplaced"}
    BY <1>6 DEF SubmitScan, Reset, TypeInv, PageOK
  <2> QED BY <1>1, <1>2, <1>3, <2>1 DEF TypeInv, StreamOK, FetchesOK, PageOK
<1>7. CASE ScanCreated
  <2>1. creating' = FALSE
    BY <1>7 DEF ScanCreated
  <2>2. CASE UNCHANGED <<attached, processed, shown, fetches, gap>>
    BY <1>1, <1>3, <2>1, <2>2 DEF TypeInv, StreamOK, FetchesOK, PageOK
  <2> QED BY <1>4, <1>7, <2>1, <2>2 DEF ScanCreated
<1> QED BY <1>5, <1>6, <1>7

LEMMA ReplayTypes ==
  ASSUME TypeInv, NEW s \in ScanIds, ReplayTo(s), UNCHANGED <<history, published>>
  PROVE  /\ PipelineOK' /\ cursor' \in Nat /\ 1 <= cursor' /\ cursor' <= 7
         /\ cursor' <= published[s] + 1
<1>1. PICK oldest \in tail[s]..published[s] + 1 : tail' = [tail EXCEPT ![s] = oldest]
  BY DEF ReplayTo
<1>2. /\ tail[s] \in Nat /\ 1 <= tail[s] /\ published[s] \in Nat /\ published[s] <= Len(history[s])
      /\ Len(history[s]) \in Nat /\ Len(history[s]) <= 6
  BY DEF TypeInv, PipelineOK, Story
<1>3. oldest \in Nat /\ 1 <= oldest /\ oldest <= published[s] + 1 /\ oldest <= 7
  BY <1>2
<1>4. tail' \in [ScanIds -> Nat] /\ tail'[s] = oldest /\ \A t \in ScanIds \ {s} : tail'[t] = tail[t]
  BY <1>1, <1>3 DEF TypeInv, PipelineOK
<1>5. cursor' = oldest
  BY <1>4 DEF ReplayTo
<1>6. PipelineOK'
  BY <1>3, <1>4 DEF TypeInv, PipelineOK
<1> QED BY <1>3, <1>5, <1>6

LEMMA StreamTypes ==
  ASSUME TypeInv, RunEffect \/ Reconnect
  PROVE  TypeInv'
<1>1. CASE RunEffect
  <2>1. attached \in ScanIds /\ subscribed' = attached
    BY <1>1 DEF RunEffect, TypeInv, StreamOK
  <2>2. FetchesOK'
    BY <1>1, <2>1, FetchingTypes DEF RunEffect
  <2>3. UNCHANGED <<history, published, attached, processed, shown, creating, gap, visits>>
    BY <1>1 DEF RunEffect
  <2>4. /\ PipelineOK' /\ cursor' \in Nat /\ 1 <= cursor' /\ cursor' <= 7
        /\ cursor' <= published[attached] + 1
    BY <1>1, <2>1, <2>3, ReplayTypes DEF RunEffect
  <2> QED BY <2>1, <2>2, <2>3, <2>4 DEF TypeInv, StreamOK, PageOK
<1>2. CASE Reconnect
  <2>1. subscribed \in ScanIds
    BY <1>2 DEF Reconnect, TypeInv, StreamOK
  <2>2. UNCHANGED <<history, published, attached, subscribed, processed, shown, fetches, creating>>
    BY <1>2 DEF Reconnect
  <2>3. /\ PipelineOK' /\ cursor' \in Nat /\ 1 <= cursor' /\ cursor' <= 7
        /\ cursor' <= published[subscribed] + 1
    BY <1>2, <2>1, <2>2, ReplayTypes DEF Reconnect
  <2>4. visits' \in 0..MaxVisits /\ gap' \subseteq {"lost", "unplaced"}
    BY <1>2 DEF Reconnect, Visit, TypeInv, PageOK
  <2> QED BY <2>2, <2>3, <2>4 DEF TypeInv, StreamOK, FetchesOK, PageOK
<1> QED BY <1>1, <1>2

(* An event that arrives was stored before it was published.               *)
LEMMA ArriveFacts ==
  ASSUME TypeInv, Arrive
  PROVE  /\ subscribed \in ScanIds /\ cursor \in 1..6 /\ cursor' = cursor + 1
         /\ cursor <= published[subscribed] /\ cursor <= Len(history[subscribed])
         /\ UNCHANGED <<history, published, tail, attached, subscribed, creating, visits>>
<1>1. subscribed \in ScanIds /\ cursor \in Nat /\ 1 <= cursor /\ cursor <= published[subscribed]
  BY DEF Arrive, TypeInv, StreamOK
<1>2. /\ published[subscribed] \in Nat /\ published[subscribed] <= Len(history[subscribed])
      /\ Len(history[subscribed]) \in Nat /\ Len(history[subscribed]) <= 6
  BY <1>1 DEF TypeInv, PipelineOK, Story
<1>3. cursor <= 6 /\ cursor <= Len(history[subscribed])
  BY <1>1, <1>2
<1> QED BY <1>1, <1>3 DEF Arrive, pipeline

(* It is dropped, or it is handled.                                        *)
Dropped == <<subscribed, cursor>> \in processed /\ UNCHANGED <<processed, shown, fetches, gap>>
HandlesIt ==
  LET e == history[subscribed][cursor]
  IN /\ <<subscribed, cursor>> \notin processed
     /\ processed' = processed \cup {<<subscribed, cursor>>}
     /\ shown' = IF Empties(e) THEN NoRecords
                 ELSE [shown EXCEPT ![subscribed] = Handled(e, @)]
     /\ IF Refetches(e) THEN CanFetch /\ Fetching(subscribed) ELSE UNCHANGED fetches
     /\ gap' = IF subscribed = attached THEN gap \cup Misses(e, subscribed) ELSE gap

LEMMA ArriveCases ==
  ASSUME Arrive
  PROVE  Dropped \/ HandlesIt
BY DEF Arrive, Dropped, HandlesIt

LEMMA ArriveTypes ==
  ASSUME TypeInv, Arrive
  PROVE  TypeInv'
<1>1. /\ subscribed \in ScanIds /\ cursor \in 1..6 /\ cursor' = cursor + 1
      /\ cursor <= published[subscribed]
      /\ UNCHANGED <<history, published, tail, attached, subscribed, creating, visits>>
  BY ArriveFacts
<1>2. PipelineOK'
  BY <1>1 DEF TypeInv, PipelineOK
<1>3. StreamOK'
  <2>1. cursor' \in Nat /\ 1 <= cursor' /\ cursor' <= 7 /\ cursor' <= published[subscribed] + 1
    <3>1. published[subscribed] \in Nat
      BY <1>1 DEF TypeInv, PipelineOK
    <3> QED BY <1>1, <3>1
  <2>2. processed' = processed \/ processed' = processed \cup {<<subscribed, cursor>>}
    BY ArriveCases DEF Dropped, HandlesIt
  <2>3. processed' \subseteq ScanIds \X (1..6)
    BY <1>1, <2>2 DEF TypeInv, StreamOK
  <2>4. \A k \in processed' : k[2] <= published[k[1]]
    BY <1>1, <2>2 DEF TypeInv, StreamOK
  <2> QED BY <1>1, <2>1, <2>3, <2>4 DEF TypeInv, StreamOK
<1>4. FetchesOK' /\ PageOK'
  <2>1. CASE Dropped
    BY <1>1, <2>1 DEF Dropped, TypeInv, FetchesOK, PageOK
  <2>2. CASE HandlesIt
    <3>1. FetchesOK'
      <4>1. CASE CanFetch /\ Fetching(subscribed)
        BY <1>1, <4>1, FetchingTypes
      <4>2. CASE UNCHANGED fetches
        BY <4>2 DEF TypeInv, FetchesOK
      <4> QED BY <2>2, <4>1, <4>2 DEF HandlesIt
    <3>2. shown' \in [ScanIds -> View]
      <4> DEFINE e == history[subscribed][cursor]
      <4>1. Handled(e, shown[subscribed]) \in View
        BY <1>1, HandledTypes DEF TypeInv, PageOK
      <4>2. NoRecords \in [ScanIds -> View]
        BY DEF NoRecords, View
      <4> HIDE DEF e
      <4> QED BY <2>2, <4>1, <4>2 DEF HandlesIt, e, TypeInv, PageOK
    <3>3. gap' \subseteq {"lost", "unplaced"}
      BY <2>2 DEF HandlesIt, Misses, TypeInv, PageOK
    <3> QED BY <1>1, <3>1, <3>2, <3>3 DEF TypeInv, PageOK
  <2> QED BY <2>1, <2>2, ArriveCases
<1> QED BY <1>2, <1>3, <1>4 DEF TypeInv

LEMMA StepTypes == TypeInv /\ [StoreNext]_storeVars => TypeInv'
<1> SUFFICES ASSUME TypeInv, [StoreNext]_storeVars PROVE TypeInv'
  OBVIOUS
<1>1. CASE UNCHANGED storeVars
  BY <1>1 DEF storeVars, pipeline, page, TypeInv, PipelineOK, StreamOK, FetchesOK, PageOK
<1> QED BY <1>1, PipelineTypes, AnswerTypes, VisitTypes, StreamTypes, ArriveTypes DEF StoreNext

(* The variables keep their types: a record of the page is always one of   *)
(* those it can show, whatever was merged into it (useScanStore.ts).       *)
THEOREM StoreTypes == StoreSpec => []StoreTypeOK
BY StartTypes, StepTypes, TypesAreTypes, PTL DEF StoreSpec

-----------------------------------------------------------------------------
(* The page claims no more than the backend has.                           *)
SoundInv ==
  /\ TypeInv
  /\ \A s \in ScanIds : Claims(shown[s], history[s])
  /\ \A f \in fetches : Sound(f)

(* What the event says did happen.                                         *)
LEMMA EventTells ==
  ASSUME NEW h, Story(h), NEW p \in 1..6, p <= Len(h)
  PROVE  /\ h[p] = "SNIPER_CONFIRMED" => p = 3 /\ IsConfirmed(h)
         /\ h[p] = "ENGINEER_PATCH_GENERATED" => IsConfirmed(h)
         /\ h[p] = "ENGINEER_REJECTED" => p = 4
         /\ h[p] \in {"CRITIC_APPROVED", "REMEDIATION_DELIVERY_FAILED"} => IsApproved(h)
         /\ h[p] = "REMEDIATION_PR_CREATED" => p = 6 /\ IsApproved(h) /\ HasPR(h)
         /\ h[p] = "SCANNER_COMPLETED" <=> p = 2
         /\ h[p] = "SCAN_STARTED" <=> p = 1
         /\ p = 2 => h[p] = "SCANNER_COMPLETED"
<1>1. Len(h) \in Nat
  BY DEF Story
<1>2. CASE p = 1
  BY <1>1, <1>2 DEF Story
<1>3. CASE p = 2
  BY <1>1, <1>3 DEF Story
<1>4. CASE p = 3
  BY <1>1, <1>4 DEF Story, IsConfirmed, Reached
<1>5. CASE p = 4
  BY <1>1, <1>5 DEF Story, IsConfirmed, Reached
<1>6. CASE p = 5
  BY <1>1, <1>6 DEF Story, IsApproved, Reached
<1>7. CASE p = 6
  BY <1>1, <1>7 DEF Story, IsApproved, HasPR, Reached
<1> QED BY <1>2, <1>3, <1>4, <1>5, <1>6, <1>7

LEMMA HandledClaims ==
  ASSUME NEW h, Story(h), NEW p \in 1..6, p <= Len(h), NEW rec \in View, Claims(rec, h)
  PROVE  Claims(Handled(h[p], rec), h)
<1> DEFINE e == h[p]
<1>1. /\ e = "SNIPER_CONFIRMED" => IsConfirmed(h)
      /\ e = "ENGINEER_PATCH_GENERATED" => IsConfirmed(h)
      /\ e \in {"CRITIC_APPROVED", "REMEDIATION_DELIVERY_FAILED"} => IsApproved(h)
      /\ e = "REMEDIATION_PR_CREATED" => IsApproved(h) /\ HasPR(h)
  BY EventTells
<1>2. rec = Absent \/ rec \in [confirmed : BOOLEAN, patch : PatchStatus, pr : BOOLEAN]
  BY DEF View, FindingView
<1> SUFFICES Claims(Handled(e, rec), h)
  OBVIOUS
<1> HIDE DEF e
<1>3. CASE e = "SNIPER_CONFIRMED"
  BY <1>1, <1>2, <1>3 DEF Handled, OnConfirmed, Claims
<1>4. CASE e = "ENGINEER_PATCH_GENERATED"
  BY <1>1, <1>2, <1>4 DEF Handled, OnDraft, Claims
<1>5. CASE e = "ENGINEER_REJECTED"
  BY <1>1, <1>2, <1>5 DEF Handled, OnNoDraft, Claims
<1>6. CASE e = "CRITIC_APPROVED"
  BY <1>1, <1>2, <1>6 DEF Handled, OnApproved, Claims, Absent
<1>7. CASE e = "REMEDIATION_PR_CREATED"
  BY <1>1, <1>2, <1>7 DEF Handled, OnPullRequest, Claims, Absent
<1>8. CASE e = "REMEDIATION_DELIVERY_FAILED"
  BY <1>1, <1>2, <1>8 DEF Handled, OnDeliveryFailed, Claims, Absent
<1>9. CASE e \notin {"SNIPER_CONFIRMED", "ENGINEER_PATCH_GENERATED", "ENGINEER_REJECTED", "CRITIC_APPROVED",
                     "REMEDIATION_PR_CREATED", "REMEDIATION_DELIVERY_FAILED"}
  <2>1. Handled(e, rec) = rec
    BY <1>9 DEF Handled
  <2> QED BY <2>1
<1> QED BY <1>3, <1>4, <1>5, <1>6, <1>7, <1>8, <1>9

LEMMA MergedHas ==
  ASSUME NEW rec \in FindingView, NEW view \in FindingView, rec # Absent
  PROVE  /\ Merged(rec, view).confirmed <=> view.confirmed \/ rec.confirmed
         /\ Merged(rec, view).pr <=> view.pr \/ rec.pr
         /\ Merged(rec, view).patch = "APPROVED" => view.patch = "APPROVED" \/ rec.patch = "APPROVED"
<1> DEFINE c == view.confirmed \/ rec.confirmed
           p == IF view.patch = "none" THEN rec.patch ELSE view.patch
           r == view.pr \/ rec.pr
<1>1. (c <=> view.confirmed \/ rec.confirmed) /\ (r <=> view.pr \/ rec.pr)
  OBVIOUS
<1>2. p = "APPROVED" => view.patch = "APPROVED" \/ rec.patch = "APPROVED"
  OBVIOUS
<1>3. Merged(rec, view) = [confirmed |-> c, patch |-> p, pr |-> r]
  BY DEF Merged
<1> HIDE DEF c, p, r
<1>4. Merged(rec, view).confirmed = c /\ Merged(rec, view).patch = p /\ Merged(rec, view).pr = r
  BY <1>3
<1> QED BY <1>1, <1>2, <1>4

LEMMA MergedClaims ==
  ASSUME NEW h, NEW rec \in View, NEW view \in FindingView, Claims(rec, h), Claims(view, h)
  PROVE  Claims(Merged(rec, view), h)
<1>1. CASE rec = Absent
  BY <1>1 DEF Merged
<1>2. CASE rec # Absent
  <2>0. rec \in FindingView
    BY <1>2 DEF View
  <2>1. /\ Merged(rec, view).confirmed <=> view.confirmed \/ rec.confirmed
        /\ Merged(rec, view).pr <=> view.pr \/ rec.pr
        /\ Merged(rec, view).patch = "APPROVED" => view.patch = "APPROVED" \/ rec.patch = "APPROVED"
    BY <1>2, <2>0, MergedHas
  <2> QED BY <2>1 DEF Claims
<1> QED BY <1>1, <1>2

LEMMA NothingClaims == \A h : Claims(Absent, h)
BY DEF Claims, Absent

LEMMA StartSound == StoreInit => SoundInv
BY StartTypes, NothingClaims DEF StoreInit, SoundInv, NoRecords

(* What is still under way after a step was so before, was just asked for, *)
(* or was just read from the rows.                                         *)
Asked(g) == g.scan \in ScanIds /\ g.answer = Unread
JustRead(g) == g.scan \in ScanIds /\ g = [scan |-> g.scan, answer |-> Stored(g.scan)]

LEMMA AnswersGrow ==
  ASSUME TypeInv, StoreNext
  PROVE  \A g \in fetches' : g \in fetches \/ Asked(g) \/ JustRead(g)
<1>1. \A s \in ScanIds : Fetching(s) => \A g \in fetches' : g \in fetches \/ Asked(g)
  BY DEF Fetching, Asked
<1>2. CASE \E s \in ScanIds : StoreResult(s) \/ PublishEvent(s)
  BY <1>2 DEF StoreResult, PublishEvent, page
<1>3. CASE (\E s \in ScanIds : SelectScan(s)) \/ ScanCreated \/ SubmitScan
  BY <1>1, <1>3 DEF SelectScan, ScanCreated, SubmitScan, Attach
<1>4. CASE RunEffect \/ Reconnect
  BY <1>1, <1>4 DEF RunEffect, Reconnect, TypeInv, StreamOK
<1>5. CASE Arrive
  <2>1. subscribed \in ScanIds
    BY <1>5, ArriveFacts
  <2> QED BY <1>1, <1>5, <2>1, ArriveCases DEF Dropped, HandlesIt
<1>6. CASE \E f \in fetches : TakeAnswer(f) \/ FetchFails(f)
  BY <1>6 DEF TakeAnswer, FetchFails
<1>7. ASSUME NEW f \in fetches, ReadRows(f) PROVE \A g \in fetches' : g \in fetches \/ JustRead(g)
  <2>1. f.scan \in ScanIds
    BY DEF TypeInv, FetchesOK, Fetch
  <2> DEFINE g == [scan |-> f.scan, answer |-> Stored(f.scan)]
  <2>2. fetches' \subseteq fetches \cup {g}
    BY <1>7 DEF ReadRows
  <2>3. g.scan = f.scan
    OBVIOUS
  <2>4. JustRead(g)
    BY <2>1, <2>3 DEF JustRead
  <2> HIDE DEF g
  <2> QED BY <2>2, <2>4
<1> QED BY <1>2, <1>3, <1>4, <1>5, <1>6, <1>7 DEF StoreNext


LEMMA HistoryGrows ==
  ASSUME TypeInv, StoreNext, NEW s \in ScanIds
  PROVE  /\ \A view : Claims(view, history[s]) => Claims(view, history'[s])
         /\ IsFound(history[s]) => IsFound(history'[s])
<1>1. CASE \E t \in ScanIds : StoreResult(t)
  <2>0. PICK t \in ScanIds : StoreResult(t)
    BY <1>1
  <2>1. PICK e \in Follows(LastOf(t)) : history' = [history EXCEPT ![t] = Append(@, e)]
    BY <2>0 DEF StoreResult
  <2>2. e \in Events /\ history[s] \in Seq(Events) /\ history \in [ScanIds -> Seq(Events)]
    BY DEF Follows, Events, TypeInv, PipelineOK
  <2>3. history'[s] = history[s] \/ history'[s] = Append(history[s], e)
    BY <2>1, <2>2
  <2> QED BY <2>2, <2>3, StoryStays
<1>2. CASE ~\E t \in ScanIds : StoreResult(t)
  <2>1. history' = history
    BY <1>2 DEF StoreNext, PublishEvent, SelectScan, ReadRows, TakeAnswer, FetchFails, SubmitScan,
                ScanCreated, RunEffect, Reconnect, Arrive, pipeline
  <2> QED BY <2>1
<1> QED BY <1>1, <1>2

LEMMA ReadIsSound ==
  ASSUME TypeInv, NEW g, JustRead(g)
  PROVE  Sound(g)
<1>1. g.scan \in ScanIds /\ g.answer = Stored(g.scan)
  BY DEF JustRead
<1>2. Story(history[g.scan])
  BY <1>1 DEF TypeInv, PipelineOK
<1>3. /\ Stored(g.scan).found <=> IsFound(history[g.scan])
      /\ Stored(g.scan).view.confirmed <=> IsConfirmed(history[g.scan])
      /\ (Stored(g.scan).view.patch = "APPROVED") <=> IsApproved(history[g.scan])
      /\ Stored(g.scan).view.pr <=> HasPR(history[g.scan])
  BY <1>1, <1>2, StoredIsStory
<1>4. IsConfirmed(history[g.scan]) \/ HasPR(history[g.scan]) => IsFound(history[g.scan])
  BY <1>2 DEF Story, IsConfirmed, HasPR, IsFound, Reached
<1> QED BY <1>1, <1>3, <1>4 DEF Sound, Claims

LEMMA StepSound == SoundInv /\ [StoreNext]_storeVars => SoundInv'
<1> SUFFICES ASSUME SoundInv, [StoreNext]_storeVars PROVE SoundInv'
  OBVIOUS
<1>1. TypeInv /\ TypeInv'
  BY StepTypes DEF SoundInv
<1>2. CASE UNCHANGED storeVars
  BY <1>1, <1>2 DEF storeVars, pipeline, page, SoundInv, Sound
<1>3. CASE StoreNext
  <2>1. ASSUME NEW g \in fetches' PROVE Sound(g)'
    <3>1. CASE g \in fetches
      <4>1. g.scan \in ScanIds /\ Sound(g)
        BY <1>1, <3>1 DEF SoundInv, TypeInv, FetchesOK, Fetch
      <4> QED BY <1>1, <1>3, <4>1, HistoryGrows DEF Sound
    <3>2. CASE Asked(g)
      BY <3>2 DEF Asked, Sound
    <3>3. CASE JustRead(g)
      <4>1. g.scan \in ScanIds /\ Sound(g)
        BY <1>1, <3>3, ReadIsSound DEF JustRead
      <4> QED BY <1>1, <1>3, <4>1, HistoryGrows DEF Sound
    <3> QED BY <1>1, <1>3, <2>1, <3>1, <3>2, <3>3, AnswersGrow
  <2>2. ASSUME NEW s \in ScanIds PROVE Claims(shown'[s], history[s])
    <3>0. Claims(shown[s], history[s]) /\ Claims(NoRecords[s], history[s])
      BY NothingClaims DEF SoundInv, NoRecords
    <3>1. CASE shown' \in {shown, NoRecords}
      BY <3>0, <3>1
    <3>2. ASSUME NEW f \in fetches, TakeAnswer(f) PROVE Claims(shown'[s], history[s])
      <4>1. /\ f.answer # Unread /\ f.scan \in ScanIds /\ f.answer.view \in FindingView
            /\ shown[f.scan] \in View /\ shown \in [ScanIds -> View]
        BY <1>1, <3>2 DEF TakeAnswer, TypeInv, FetchesOK, PageOK, Fetch, Answer
      <4>2. Claims(f.answer.view, history[f.scan]) /\ Claims(shown[f.scan], history[f.scan])
        BY <4>1 DEF SoundInv, Sound
      <4>3. Claims(Merged(shown[f.scan], f.answer.view), history[f.scan])
        BY <4>1, <4>2, MergedClaims
      <4>4. shown' \in {shown, [shown EXCEPT ![f.scan] = Merged(@, f.answer.view)]}
        BY <3>2 DEF TakeAnswer
      <4> QED BY <3>0, <4>1, <4>3, <4>4
    <3>3. ASSUME Arrive, HandlesIt PROVE Claims(shown'[s], history[s])
      <4> DEFINE e == history[subscribed][cursor]
      <4>1. subscribed \in ScanIds /\ cursor \in 1..6 /\ cursor <= Len(history[subscribed])
        BY <1>1, <3>3, ArriveFacts
      <4>2. /\ Story(history[subscribed]) /\ shown[subscribed] \in View /\ shown \in [ScanIds -> View]
            /\ Claims(shown[subscribed], history[subscribed])
        BY <1>1, <4>1 DEF SoundInv, TypeInv, PipelineOK, PageOK
      <4>3. Claims(Handled(e, shown[subscribed]), history[subscribed])
        BY <4>1, <4>2, HandledClaims
      <4>4. shown' \in {NoRecords, [shown EXCEPT ![subscribed] = Handled(e, @)]}
        BY <3>3 DEF HandlesIt
      <4> HIDE DEF e
      <4> QED BY <3>0, <4>1, <4>2, <4>3, <4>4
    <3>4. CASE \E t \in ScanIds : StoreResult(t) \/ PublishEvent(t) \/ SelectScan(t)
      BY <3>1, <3>4 DEF StoreResult, PublishEvent, page, SelectScan, Attach, Reset
    <3>5. CASE \E f \in fetches : ReadRows(f) \/ FetchFails(f)
      BY <3>1, <3>5 DEF ReadRows, FetchFails
    <3>6. CASE SubmitScan \/ ScanCreated \/ RunEffect \/ Reconnect
      BY <3>1, <3>6 DEF SubmitScan, ScanCreated, RunEffect, Reconnect, Attach, Reset
    <3>7. CASE Arrive
      BY <3>1, <3>3, <3>7, ArriveCases DEF Dropped
    <3> QED BY <1>3, <3>2, <3>4, <3>5, <3>6, <3>7 DEF StoreNext
  <2>3. \A s \in ScanIds : Claims(shown'[s], history'[s])
    BY <1>1, <1>3, <2>2, HistoryGrows
  <2> QED BY <1>1, <2>1, <2>3 DEF SoundInv
<1> QED BY <1>2, <1>3

-----------------------------------------------------------------------------
(* The page loses nothing.                                                 *)
KeptInv == SoundInv /\ Kept

LEMMA RecordIsNotAbsent == \A view \in FindingView : view # Absent
BY DEF FindingView, PatchStatus, Absent

(* What a record shows it still shows after an answer is merged into it,   *)
(* and what the answer brings it shows as well.                            *)
LEMMA MergedShows ==
  ASSUME NEW p \in Facts, NEW g, NEW rec \in View, NEW answer \in Answer,
         Shows(p, rec, g) \/ Brings(p, answer)
  PROVE  Shows(p, Merged(rec, answer.view), g)
<1> DEFINE view == answer.view
<1>1. view \in FindingView /\ answer # Unread
  BY RecordIsNotAbsent DEF Answer, Unread
<1>2. CASE rec = Absent
  <2>1. Merged(rec, view) = view
    BY <1>2 DEF Merged
  <2>2. p \in {3, 6} /\ ~(p = 6 /\ "unplaced" \in g) => Brings(p, answer)
    BY <1>2 DEF Shows, Absent
  <2>3. CASE p = 2
    BY <1>1, <2>1, <2>3, RecordIsNotAbsent DEF Shows
  <2>4. CASE p = 3
    BY <1>1, <2>1, <2>2, <2>4 DEF Shows, Brings
  <2>5. CASE p = 6
    BY <1>1, <2>1, <2>2, <2>5 DEF Shows, Brings
  <2> QED BY <2>3, <2>4, <2>5 DEF Facts
<1>3. CASE rec # Absent
  <2>1. rec \in FindingView
    BY <1>3 DEF View
  <2>2. /\ Merged(rec, view).confirmed <=> view.confirmed \/ rec.confirmed
        /\ Merged(rec, view).pr <=> view.pr \/ rec.pr
    BY <1>1, <1>3, <2>1, MergedHas
  <2>3. Merged(rec, view) # Absent
    BY <1>1, <1>3, <2>1, MergedIsRecord, RecordIsNotAbsent
  <2>4. CASE p = 2
    BY <2>3, <2>4 DEF Shows
  <2>5. CASE p = 3
    BY <1>1, <2>2, <2>5 DEF Shows, Brings
  <2>6. CASE p = 6
    BY <1>1, <2>2, <2>6 DEF Shows, Brings
  <2> QED BY <2>4, <2>5, <2>6 DEF Facts
<1> QED BY <1>2, <1>3

(* What a record shows it still shows after an event was handled, unless   *)
(* the event empties the store; and the event of a fact shows it.          *)
LEMMA HandledShows ==
  ASSUME NEW p \in Facts, NEW h, Story(h), True(p, h), NEW n \in 1..6, n <= Len(h),
         NEW rec \in View, NEW g, Shows(p, rec, g)
  PROVE  Shows(p, Handled(h[n], rec), g)
<1> DEFINE e == h[n]
<1>1. p = 6 => e # "ENGINEER_REJECTED"
  <2>1. ASSUME p = 6, e = "ENGINEER_REJECTED" PROVE FALSE
    <3>1. n = 4 /\ Len(h) \in Nat /\ Len(h) >= 6
      BY <2>1, EventTells DEF True, HasPR, Reached, Story
    <3>2. h[4] = "ENGINEER_PATCH_GENERATED"
      BY <3>1 DEF Story
    <3> QED BY <2>1, <3>1, <3>2
  <2> QED BY <2>1
<1>2. rec = Absent \/ rec \in [confirmed : BOOLEAN, patch : PatchStatus, pr : BOOLEAN]
  BY DEF View, FindingView
<1> SUFFICES Shows(p, Handled(e, rec), g)
  OBVIOUS
<1> HIDE DEF e
<1>3. CASE rec = Absent
  <2>1. Handled(e, rec) = rec \/ (p = 6 /\ "unplaced" \in g)
    BY <1>3 DEF Shows, Facts, Absent
  <2> QED BY <2>1 DEF Shows
<1>4. CASE rec # Absent
  <2>1. Handled(e, rec) # Absent
    BY <1>2, <1>4 DEF Handled, OnConfirmed, OnDraft, OnNoDraft, OnApproved, OnPullRequest,
                      OnDeliveryFailed, Absent, PatchStatus
  <2>2. rec.confirmed => Handled(e, rec).confirmed
    BY <1>2, <1>4 DEF Handled, OnConfirmed, OnDraft, OnNoDraft, OnApproved, OnPullRequest, OnDeliveryFailed
  <2>3. e # "ENGINEER_REJECTED" /\ rec.pr => Handled(e, rec).pr
    BY <1>2, <1>4 DEF Handled, OnConfirmed, OnDraft, OnNoDraft, OnApproved, OnPullRequest, OnDeliveryFailed
  <2> QED BY <1>1, <2>1, <2>2, <2>3 DEF Shows
<1> QED BY <1>3, <1>4

LEMMA EventShows ==
  ASSUME NEW p \in {3, 6}, NEW h, Story(h), True(p, h), NEW rec \in View, NEW g,
         p = 6 /\ rec = Absent => "unplaced" \in g
  PROVE  Shows(p, Handled(h[p], rec), g)
<1>1. rec = Absent \/ rec \in [confirmed : BOOLEAN, patch : PatchStatus, pr : BOOLEAN]
  BY DEF View, FindingView
<1>2. CASE p = 3
  <2>1. h[3] = "SNIPER_CONFIRMED"
    BY <1>2 DEF True, IsConfirmed, Reached
  <2> QED BY <1>1, <1>2, <2>1 DEF Shows, Handled, OnConfirmed
<1>3. CASE p = 6
  <2>1. h[6] = "REMEDIATION_PR_CREATED"
    BY <1>3 DEF True, HasPR, Reached
  <2> QED BY <1>1, <1>3, <2>1 DEF Shows, Handled, OnPullRequest
<1> QED BY <1>2, <1>3

LEMMA StartKept == StoreInit => KeptInv
BY StartSound DEF StoreInit, KeptInv, Kept

LEMMA KeptShows == KeptInv => ShownAtRest
<1> SUFFICES ASSUME KeptInv, NEW s \in ScanIds
             PROVE  LET row == Stored(s) IN
                      /\ shown[s].confirmed => row.view.confirmed
                      /\ shown[s].pr => row.view.pr
                      /\ shown[s].patch = "APPROVED" => row.view.patch = "APPROVED"
                      /\ AtRest(s) /\ "lost" \notin gap =>
                           /\ row.found => shown[s] # Absent
                           /\ row.view.confirmed => shown[s].confirmed
                           /\ row.view.pr => shown[s].pr \/ "unplaced" \in gap
  BY DEF ShownAtRest
<1>1. TypeInv /\ Story(history[s]) /\ Claims(shown[s], history[s])
  BY DEF KeptInv, SoundInv, TypeInv, PipelineOK
<1>2. /\ Stored(s).found <=> IsFound(history[s])
      /\ Stored(s).view.confirmed <=> IsConfirmed(history[s])
      /\ (Stored(s).view.patch = "APPROVED") <=> IsApproved(history[s])
      /\ Stored(s).view.pr <=> HasPR(history[s])
  BY <1>1, StoredIsStory
<1>3. ASSUME AtRest(s), "lost" \notin gap, NEW p \in Facts, True(p, history[s])
      PROVE  Shows(p, shown[s], gap)
  <2>1. ~\E f \in fetches : f.scan = s /\ Brings(p, f.answer)
    BY <1>3 DEF AtRest
  <2>2. ~(cursor <= p)
    <3>1. Len(history[s]) \in Nat /\ cursor = Len(history[s]) + 1 /\ p \in Nat
      BY <1>1, <1>3 DEF AtRest, Story, Facts
    <3>2. Len(history[s]) >= p
      BY <1>3 DEF True, Facts, IsFound, IsConfirmed, HasPR, Reached
    <3> QED BY <3>1, <3>2
  <2> QED BY <1>3, <2>1, <2>2 DEF KeptInv, Kept, Coming, AtRest
<1>4. ASSUME AtRest(s), "lost" \notin gap
      PROVE  /\ IsFound(history[s]) => shown[s] # Absent
             /\ IsConfirmed(history[s]) => shown[s].confirmed
             /\ HasPR(history[s]) => shown[s].pr \/ "unplaced" \in gap
  BY <1>3, <1>4 DEF Facts, True, Shows
<1> QED BY <1>1, <1>2, <1>4 DEF Claims

(* A page that attaches or subscribes asks for all there is.               *)
LEMMA AskedIsComing ==
  ASSUME NEW s, NEW p, Fetching(s)
  PROVE  Coming(p, s, fetches', cursor', processed')
<1> DEFINE f == [scan |-> s, answer |-> Unread]
<1>1. f.scan = s /\ f.answer = Unread /\ f \in fetches'
  BY DEF Fetching
<1> HIDE DEF f
<1>2. Brings(p, f.answer)
  BY <1>1 DEF Brings
<1> QED BY <1>1, <1>2 DEF Coming

(* What is on its way to a page that goes on with its stream.              *)
LEMMA StreamKeeps ==
  ASSUME NEW p \in Facts, NEW s, Coming(p, s, fetches, cursor, processed),
         fetches \subseteq fetches', processed' = processed, cursor \in Nat, cursor' \in Nat, cursor' <= cursor
  PROVE  Coming(p, s, fetches', cursor', processed')
<1>1. p \in Nat
  BY DEF Facts
<1> QED BY <1>1 DEF Coming

LEMMA ResultKeeps ==
  ASSUME KeptInv, NEW s \in ScanIds, StoreResult(s), attached \in ScanIds, subscribed = attached,
         "lost" \notin gap, NEW p \in Facts, True(p, history'[attached])
  PROVE  Shows(p, shown[attached], gap) \/ Coming(p, attached, fetches, cursor, processed)
<1>1. TypeInv
  BY DEF KeptInv, SoundInv
<1>2. PICK e \in Follows(LastOf(s)) : history' = [history EXCEPT ![s] = Append(@, e)]
  BY DEF StoreResult
<1>3. CASE True(p, history[attached])
  BY <1>3 DEF KeptInv, Kept
<1>4. CASE ~True(p, history[attached])
  <2>1. s = attached /\ history'[s] = Append(history[s], e)
    BY <1>1, <1>2, <1>4 DEF TypeInv, PipelineOK
  <2>2. history[s] \in Seq(Events) /\ e \in Events
    BY <1>1 DEF TypeInv, PipelineOK, Follows, Events
  <2>3. /\ Len(history[s]) \in Nat /\ Len(history'[s]) = Len(history[s]) + 1
        /\ \A i \in 1..Len(history[s]) : history'[s][i] = history[s][i]
    BY <2>1, <2>2
  <2>4. p \in Nat /\ p > Len(history[s])
    BY <1>4, <2>1, <2>3 DEF True, Facts, IsFound, IsConfirmed, HasPR, Reached
  <2>5. published[s] = Len(history[s])
    BY DEF StoreResult
  <2>6. cursor \in Nat /\ cursor <= published[s] + 1
    BY <1>1, <2>1 DEF TypeInv, StreamOK
  <2>7. cursor <= p
    BY <2>3, <2>4, <2>5, <2>6
  <2>8. <<s, p>> \notin processed
    <3>1. <<s, p>> \in processed => p <= published[s]
      BY <1>1 DEF TypeInv, StreamOK
    <3> QED BY <2>3, <2>4, <2>5, <3>1
  <2> QED BY <2>1, <2>7, <2>8 DEF Coming
<1> QED BY <1>3, <1>4

LEMMA AnswerKeeps ==
  ASSUME KeptInv, NEW f \in fetches, ReadRows(f) \/ TakeAnswer(f) \/ FetchFails(f),
         attached \in ScanIds, subscribed = attached, "lost" \notin gap',
         NEW p \in Facts, True(p, history[attached])
  PROVE  Shows(p, shown'[attached], gap') \/ Coming(p, attached, fetches', cursor', processed')
<1>1. TypeInv /\ cursor' = cursor /\ processed' = processed
  BY DEF KeptInv, SoundInv, ReadRows, TakeAnswer, FetchFails
<1>2. "lost" \notin gap /\ gap' = gap /\ (FetchFails(f) => f.scan # attached)
  BY DEF ReadRows, TakeAnswer, FetchFails
<1>3. Shows(p, shown[attached], gap) \/ Coming(p, attached, fetches, cursor, processed)
  BY <1>2 DEF KeptInv, Kept
<1>4. CASE ReadRows(f)
  <2>1. shown' = shown
    BY <1>4 DEF ReadRows
  <2> DEFINE r == [scan |-> f.scan, answer |-> Stored(f.scan)]
  <2>2. r \in fetches' /\ \A g \in fetches : g \in fetches' \/ g = f
    BY <1>4 DEF ReadRows
  <2>3. ASSUME f.scan = attached PROVE Brings(p, Stored(attached))
    <3>1. Story(history[attached])
      BY <1>1 DEF TypeInv, PipelineOK
    <3>2. /\ Stored(attached).found <=> IsFound(history[attached])
          /\ Stored(attached).view.confirmed <=> IsConfirmed(history[attached])
          /\ Stored(attached).view.pr <=> HasPR(history[attached])
      BY <3>1, StoredIsStory
    <3>3. IsFound(history[attached])
      BY <3>1 DEF True, Facts, Story, IsConfirmed, HasPR, IsFound, Reached
    <3> QED BY <3>2, <3>3 DEF Brings, True
  <2>4. f.scan = attached => Coming(p, attached, fetches', cursor', processed')
    <3>1. r.scan = f.scan /\ r.answer = Stored(f.scan)
      OBVIOUS
    <3> HIDE DEF r
    <3> QED BY <2>2, <2>3, <3>1 DEF Coming
  <2>5. f.scan # attached /\ Coming(p, attached, fetches, cursor, processed) =>
        Coming(p, attached, fetches', cursor', processed')
    BY <1>1, <2>2 DEF Coming
  <2> QED BY <1>2, <1>3, <2>1, <2>4, <2>5
<1>5. CASE TakeAnswer(f)
  <2>1. f.answer # Unread /\ f.answer \in Answer /\ f.scan \in ScanIds
    BY <1>1, <1>5 DEF TakeAnswer, TypeInv, FetchesOK, Fetch
  <2>2. shown \in [ScanIds -> View] /\ fetches' = fetches \ {f}
    BY <1>1, <1>5 DEF TakeAnswer, TypeInv, PageOK
  <2>3. CASE f.scan = attached /\ f.answer.found
    <3>1. shown'[attached] = Merged(shown[attached], f.answer.view)
      BY <1>5, <2>2, <2>3 DEF TakeAnswer
    <3>2. Shows(p, shown[attached], gap) \/ Brings(p, f.answer) => Shows(p, shown'[attached], gap)
      BY <2>1, <2>2, <3>1, MergedShows
    <3>3. Coming(p, attached, fetches, cursor, processed) =>
          Brings(p, f.answer) \/ Coming(p, attached, fetches', cursor', processed')
      BY <1>1, <2>2 DEF Coming
    <3> QED BY <1>2, <1>3, <3>2, <3>3
  <2>4. CASE ~(f.scan = attached /\ f.answer.found)
    <3>1. shown'[attached] = shown[attached]
      BY <1>5, <2>1, <2>2, <2>4 DEF TakeAnswer
    <3>2. ~(f.scan = attached /\ Brings(p, f.answer))
      BY <2>1, <2>4 DEF Brings
    <3>3. Coming(p, attached, fetches, cursor, processed) =>
          Coming(p, attached, fetches', cursor', processed')
      BY <1>1, <2>2, <3>2 DEF Coming
    <3> QED BY <1>2, <1>3, <3>1, <3>3
  <2> QED BY <2>3, <2>4
<1>6. CASE FetchFails(f)
  <2>1. shown' = shown /\ fetches' = fetches \ {f} /\ f.scan # attached
    BY <1>2, <1>6 DEF FetchFails
  <2>2. Coming(p, attached, fetches, cursor, processed) =>
        Coming(p, attached, fetches', cursor', processed')
    BY <1>1, <2>1 DEF Coming
  <2> QED BY <1>2, <1>3, <2>1, <2>2
<1> QED BY <1>4, <1>5, <1>6

LEMMA ArriveKeeps ==
  ASSUME KeptInv, Arrive, attached \in ScanIds, subscribed = attached, "lost" \notin gap',
         NEW p \in Facts, True(p, history[attached])
  PROVE  Shows(p, shown'[attached], gap') \/ Coming(p, attached, fetches', cursor', processed')
<1> DEFINE a == attached  h == history[a]  e == h[cursor]
<1>1. TypeInv /\ Story(h) /\ shown[a] \in View /\ shown \in [ScanIds -> View]
  BY DEF KeptInv, SoundInv, TypeInv, PipelineOK, PageOK
<1>2. cursor \in 1..6 /\ cursor' = cursor + 1 /\ cursor <= Len(h)
  BY <1>1, ArriveFacts
<1>3. p \in Nat /\ p # 1
  BY DEF Facts
<1>4. "lost" \notin gap /\ gap \subseteq gap'
  BY ArriveCases DEF Dropped, HandlesIt
<1>5. Shows(p, shown[a], gap) \/ Coming(p, a, fetches, cursor, processed)
  BY <1>4 DEF KeptInv, Kept
<1>6. Shows(p, shown[a], gap) => Shows(p, shown[a], gap')
  BY <1>4 DEF Shows
<1>7. CASE Dropped
  <2>1. shown' = shown /\ fetches' = fetches /\ processed' = processed /\ <<a, cursor>> \in processed
    BY <1>7 DEF Dropped
  <2>2. Coming(p, a, fetches, cursor, processed) => Coming(p, a, fetches', cursor', processed')
    <3>1. cursor <= p /\ <<a, p>> \notin processed => cursor' <= p
      BY <1>2, <1>3, <2>1
    <3> QED BY <2>1, <3>1 DEF Coming
  <2> QED BY <1>5, <1>6, <2>1, <2>2
<1>8. CASE HandlesIt /\ Empties(e)
  <2>1. cursor = 1
    BY <1>1, <1>2, <1>8, EventTells DEF Empties
  <2>2. \A k \in processed : k[1] # a
    BY <1>8 DEF HandlesIt, Misses
  <2>3. <<a, p>> \notin processed'
    <3>1. <<a, p>> \notin processed
      BY <2>2
    <3>2. <<a, p>> # <<a, 1>>
      BY <1>3
    <3> QED BY <1>8, <2>1, <3>1, <3>2 DEF HandlesIt
  <2>4. cursor' <= p
    BY <1>2, <2>1 DEF Facts
  <2> QED BY <2>3, <2>4 DEF Coming
<1>9. CASE HandlesIt /\ ~Empties(e)
  <2>1. /\ shown'[a] = Handled(e, shown[a]) /\ processed' = processed \cup {<<a, cursor>>}
        /\ IF Refetches(e) THEN Fetching(a) ELSE UNCHANGED fetches
        /\ gap' = gap \cup Misses(e, a)
    BY <1>1, <1>9 DEF HandlesIt
  <2>2. fetches \subseteq fetches'
    BY <2>1 DEF Fetching
  <2>3. Shows(p, shown[a], gap') => Shows(p, shown'[a], gap')
    BY <1>1, <1>2, <2>1, HandledShows
  <2>4. CASE p = cursor
    <3>1. CASE p = 2
      <4>1. Fetching(a)
        BY <1>1, <1>2, <2>1, <2>4, <3>1, EventTells DEF Refetches
      <4> QED BY <4>1, AskedIsComing
    <3>2. CASE p \in {3, 6}
      <4>1. ASSUME p = 6, shown[a] = Absent PROVE "unplaced" \in gap'
        <5>1. e = "REMEDIATION_PR_CREATED"
          BY <2>4, <4>1 DEF True, HasPR, Reached
        <5> QED BY <2>1, <4>1, <5>1 DEF Misses
      <4>2. Shows(p, Handled(h[p], shown[a]), gap')
        BY <1>1, <3>2, <4>1, EventShows
      <4> QED BY <2>1, <2>4, <4>2
    <3> QED BY <3>1, <3>2 DEF Facts
  <2>5. CASE p # cursor
    <3>1. Coming(p, a, fetches, cursor, processed) => Coming(p, a, fetches', cursor', processed')
      <4>1. cursor <= p => cursor' <= p
        BY <1>2, <1>3, <2>5
      <4>2. <<a, p>> # <<a, cursor>>
        BY <2>5
      <4> QED BY <2>1, <2>2, <4>1, <4>2 DEF Coming
    <3> QED BY <1>5, <1>6, <2>3, <3>1
  <2> QED BY <2>4, <2>5
<1> QED BY <1>7, <1>8, <1>9, ArriveCases

LEMMA StepKept == KeptInv /\ [StoreNext]_storeVars => KeptInv'
<1> SUFFICES ASSUME KeptInv, [StoreNext]_storeVars PROVE Kept'
  BY StepSound DEF KeptInv
<1>1. TypeInv
  BY DEF KeptInv, SoundInv
<1>2. CASE UNCHANGED storeVars
  BY <1>2 DEF storeVars, pipeline, page, KeptInv, Kept, Coming
<1>3. CASE StoreNext
  <2> SUFFICES ASSUME attached' \in ScanIds, subscribed' = attached', "lost" \notin gap',
                      NEW p \in Facts, True(p, history'[attached'])
               PROVE  Shows(p, shown'[attached'], gap') \/ Coming(p, attached', fetches', cursor', processed')
    BY DEF Kept
  <2>1. ASSUME NEW s \in ScanIds, StoreResult(s) \/ PublishEvent(s)
        PROVE  Shows(p, shown'[attached'], gap') \/ Coming(p, attached', fetches', cursor', processed')
    <3>1. UNCHANGED <<attached, subscribed, cursor, processed, shown, fetches, gap>>
      BY <2>1 DEF StoreResult, PublishEvent, page
    <3>2. Shows(p, shown[attached], gap) \/ Coming(p, attached, fetches, cursor, processed)
      <4>1. CASE StoreResult(s)
        BY <3>1, <4>1, ResultKeeps
      <4>2. CASE PublishEvent(s)
        BY <3>1, <4>2 DEF PublishEvent, KeptInv, Kept
      <4> QED BY <2>1, <4>1, <4>2
    <3> QED BY <3>1, <3>2 DEF Coming
  <2>2. ASSUME NEW f \in fetches, ReadRows(f) \/ TakeAnswer(f) \/ FetchFails(f)
        PROVE  Shows(p, shown'[attached'], gap') \/ Coming(p, attached', fetches', cursor', processed')
    <3>1. UNCHANGED <<history, attached, subscribed>>
      BY <2>2 DEF ReadRows, TakeAnswer, FetchFails, pipeline
    <3>2. Shows(p, shown'[attached], gap') \/ Coming(p, attached, fetches', cursor', processed')
      BY <2>2, <3>1, AnswerKeeps
    <3> QED BY <3>1, <3>2 DEF Coming
  <2>3. ASSUME NEW s \in ScanIds, Attach(s)
        PROVE  Shows(p, shown'[attached'], gap') \/ Coming(p, attached', fetches', cursor', processed')
    <3>1. attached' = s /\ Coming(p, s, fetches', cursor', processed')
      BY <2>3, AskedIsComing DEF Attach
    <3> QED BY <3>1 DEF Coming
  <2>4. CASE SubmitScan
    <3>1. attached' = attached /\ gap' = IF attached = "none" THEN gap ELSE gap \cup {"lost"}
      BY <2>4 DEF SubmitScan
    <3> QED BY <3>1
  <2>5. CASE ScanCreated
    <3>1. CASE \E s \in ScanIds : Attach(s)
      BY <2>3, <3>1
    <3>2. CASE UNCHANGED <<attached, processed, shown, fetches, gap>>
      <4>1. UNCHANGED <<history, subscribed, cursor>>
        BY <2>5 DEF ScanCreated, pipeline
      <4> QED BY <3>2, <4>1 DEF KeptInv, Kept, Coming
    <3> QED BY <2>5, <3>1, <3>2 DEF ScanCreated
  <2>6. CASE RunEffect
    <3>1. attached' = attached /\ Coming(p, attached, fetches', cursor', processed')
      BY <2>6, AskedIsComing DEF RunEffect
    <3> QED BY <3>1 DEF Coming
  <2>7. CASE Reconnect
    <3>1. UNCHANGED <<history, attached, subscribed, processed, shown, fetches>>
      BY <2>7 DEF Reconnect
    <3>2. "lost" \notin gap /\ gap' = gap /\ ~(cursor < cursor')
      BY <2>7, <3>1 DEF Reconnect
    <3>3. cursor \in Nat /\ cursor' \in Nat
      BY <1>1, <1>3, StepTypes DEF TypeInv, StreamOK
    <3>4. Shows(p, shown[attached], gap) \/ Coming(p, attached, fetches, cursor, processed)
      BY <3>1, <3>2 DEF KeptInv, Kept
    <3>5. Coming(p, attached, fetches, cursor, processed) =>
          Coming(p, attached, fetches', cursor', processed')
      BY <3>1, <3>2, <3>3, StreamKeeps
    <3> QED BY <3>1, <3>2, <3>4, <3>5 DEF Coming
  <2>8. CASE Arrive
    <3>1. UNCHANGED <<history, attached, subscribed>>
      BY <2>8 DEF Arrive, pipeline
    <3>2. Shows(p, shown'[attached], gap') \/ Coming(p, attached, fetches', cursor', processed')
      BY <2>8, <3>1, ArriveKeeps
    <3> QED BY <3>1, <3>2 DEF Coming
  <2>9. CASE \E s \in ScanIds : SelectScan(s)
    BY <2>3, <2>9 DEF SelectScan
  <2> QED BY <1>3, <2>1, <2>2, <2>4, <2>5, <2>6, <2>7, <2>8, <2>9 DEF StoreNext
<1> QED BY <1>2, <1>3

(* The page never claims more than the backend has, and once nothing more  *)
(* is on its way and nothing was lost it shows every confirmation and      *)
(* every pull request, in whatever order the answers of the REST calls and *)
(* the events of the stream arrived (handleEvent and fetchScanData of      *)
(* useScanStore.ts).                                                       *)
THEOREM PageIsTrue == StoreSpec => []ShownAtRest
BY StartKept, StepKept, KeptShows, PTL DEF StoreSpec

-----------------------------------------------------------------------------
(* DemoReplay.  Lemmas about counting first: what holds at 0 and goes on up *)
(* to n, what a fold goes through, and the places of a sorted list.         *)
HIDE StoreAssumption

(* Natural numbers are well ordered.                                       *)
Descends == {p \in Nat \X Nat : p[1] < p[2]}
LEMMA DescentEnds == IsWellFoundedOn(Descends, Nat)
<1>1. Descends = OpToRel(<, Nat)
  BY DEF Descends, OpToRel
<1> QED BY <1>1, NatLessThanWellFounded DEF OpToRel, Descends

LEMMA LeastOf ==
  ASSUME NEW T, T \subseteq Nat, T # {}
  PROVE \E m \in T : \A k \in T : m <= k
<1>1. PICK m \in T : \A k \in T : ~(<<k, m>> \in Descends)
  BY DescentEnds, WFMin
<1>2. ASSUME NEW k \in T, ~(m <= k) PROVE FALSE
  <2>1. k \in Nat /\ m \in Nat /\ k < m
    BY <1>2
  <2>2. <<k, m>> \in Nat \X Nat
    BY <2>1
  <2>3. <<k, m>>[1] < <<k, m>>[2]
    BY <2>1
  <2> QED BY <1>1, <1>2, <2>2, <2>3 DEF Descends
<1> QED BY <1>2

(* What holds at 0 and goes on from every number to the next holds up to n. *)
LEMMA Climbs ==
  ASSUME NEW n \in Nat, NEW T, 0 \in T, \A k \in 1..n : k - 1 \in T => k \in T
  PROVE  \A k \in 0..n : k \in T
<1> DEFINE B == {k \in 0..n : k \notin T}
<1>1. SUFFICES ASSUME B # {} PROVE FALSE
  OBVIOUS
<1>2. PICK m \in B : \A k \in B : m <= k
  <2> B \subseteq Nat
    OBVIOUS
  <2> HIDE DEF B
  <2> QED BY <1>1, LeastOf
<1>3. m # 0 /\ m \in 1..n
  BY <1>2
<1>4. m - 1 \in T
  <2> m - 1 \in 0..n /\ ~(m <= m - 1)
    BY <1>3
  <2> QED BY <1>2
<1> QED BY <1>2, <1>3, <1>4

(* What a fold over a list goes through, for a step F[k] of each element.  *)
Goes(g, F, base, n) == g[0] = base /\ \A k \in 1..n : g[k] = F[k][g[k-1]]
LEMMA FoldGoes ==
  ASSUME NEW n \in Nat, NEW S, NEW base \in S, NEW F, \A k \in 1..n : \A x \in S : F[k][x] \in S
  PROVE  \E g \in [0..n -> S] : Goes(g, F, base, n)
<1> DEFINE T == {m \in 0..n : \E g \in [0..m -> S] : Goes(g, F, base, m)}
<1>1. 0 \in T
  <2> DEFINE g == [k \in 0..0 |-> base]
  <2>1. g \in [0..0 -> S] /\ g[0] = base /\ 1..0 = {}
    OBVIOUS
  <2> HIDE DEF g
  <2>2. Goes(g, F, base, 0)
    BY <2>1 DEF Goes
  <2> QED BY <2>1, <2>2
<1>2. ASSUME NEW m \in 1..n, m - 1 \in T PROVE m \in T
  <2>0. m \in Nat /\ m - 1 \in Nat /\ m - 1 \in 0..m-1 /\ 0 \in 0..m-1
    OBVIOUS
  <2>1. PICK h \in [0..m-1 -> S] : Goes(h, F, base, m - 1)
    BY <1>2
  <2> DEFINE top == F[m][h[m-1]]
             g == [k \in 0..m |-> IF k = m THEN top ELSE h[k]]
  <2>2. top \in S
    <3> h[m-1] \in S
      BY <2>0
    <3> QED OBVIOUS
  <2> HIDE DEF top
  <2>3. g \in [0..m -> S] /\ g[m] = top /\ \A k \in 0..m-1 : g[k] = h[k]
    BY <2>0, <2>2
  <2> HIDE DEF g
  <2>4. g[0] = base
    BY <2>0, <2>1, <2>3 DEF Goes
  <2>5. ASSUME NEW k \in 1..m PROVE g[k] = F[k][g[k-1]]
    <3>1. CASE k = m
      BY <2>0, <2>3, <3>1 DEF top
    <3>2. CASE k # m
      <4>1. k \in 1..m-1 /\ k \in 0..m-1 /\ k - 1 \in 0..m-1
        BY <2>0, <3>2
      <4>2. h[k] = F[k][h[k-1]]
        BY <2>1, <4>1 DEF Goes
      <4> QED BY <2>3, <4>1, <4>2
    <3> QED BY <3>1, <3>2
  <2>6. Goes(g, F, base, m)
    BY <2>4, <2>5 DEF Goes
  <2> QED BY <2>3, <2>6
<1>3. \A k \in 0..n : k \in T
  <2> HIDE DEF T
  <2> QED BY <1>1, <1>2, Climbs
<1>4. n \in 0..n
  OBVIOUS
<1> QED BY <1>3, <1>4

-----------------------------------------------------------------------------
(* Sorting: Up[x] is what precedes x.                                       *)
Ranks(S, Up) ==
  /\ IsFiniteSet(S) /\ Up \in [S -> SUBSET S]
  /\ \A x \in S : x \notin Up[x]
  /\ \A x \in S, y \in S : x # y => x \in Up[y] \/ y \in Up[x]
  /\ \A x \in S, y \in S : x \in Up[y] => Up[x] \subseteq Up[y]

LEMMA RankLess ==
  ASSUME NEW S, NEW Up, Ranks(S, Up), NEW x \in S, NEW y \in S, x \in Up[y]
  PROVE  Cardinality(Up[x]) < Cardinality(Up[y])
<1>1. IsFiniteSet(Up[y]) /\ Up[y] \in SUBSET S
  <2>1. Up[y] \in SUBSET S /\ IsFiniteSet(S)
    BY DEF Ranks
  <2> QED BY <2>1, FS_Subset
<1>2. Up[x] \in SUBSET Up[y] /\ Up[x] # Up[y]
  BY DEF Ranks
<1>3. IsFiniteSet(Up[x]) /\ Cardinality(Up[x]) <= Cardinality(Up[y]) /\ Cardinality(Up[x]) # Cardinality(Up[y])
  BY <1>1, <1>2, FS_Subset
<1>4. Cardinality(Up[x]) \in Nat /\ Cardinality(Up[y]) \in Nat
  BY <1>1, <1>3, FS_CardinalityType
<1> QED BY <1>3, <1>4

LEMMA RankIs ==
  ASSUME NEW S, NEW Up, Ranks(S, Up)
  PROVE  /\ Cardinality(S) \in Nat
         /\ \A x \in S : Cardinality(Up[x]) \in 0..(Cardinality(S) - 1)
         /\ \A x \in S, y \in S : x \in Up[y] <=> Cardinality(Up[x]) < Cardinality(Up[y])
         /\ \A k \in 1..Cardinality(S) : \E x \in S : Cardinality(Up[x]) = k - 1
<1> DEFINE n == Cardinality(S)
           Place == [x \in S |-> Cardinality(Up[x])]
<1>0. IsFiniteSet(S) /\ n \in Nat
  BY FS_CardinalityType DEF Ranks
<1>1. \A x \in S : Cardinality(Up[x]) \in 0..(n - 1)
  <2> TAKE x \in S
  <2>1. Up[x] \in SUBSET S /\ x \notin Up[x]
    BY DEF Ranks
  <2>2. IsFiniteSet(Up[x]) /\ Cardinality(Up[x]) <= n /\ (n = Cardinality(Up[x]) => S = Up[x])
    BY <1>0, <2>1, FS_Subset
  <2>3. Cardinality(Up[x]) \in Nat
    BY <2>2, FS_CardinalityType
  <2>4. Cardinality(Up[x]) # n
    BY <2>1, <2>2
  <2> HIDE DEF n
  <2> QED BY <1>0, <2>2, <2>3, <2>4
<1>2. \A x \in S, y \in S : x \in Up[y] => Cardinality(Up[x]) < Cardinality(Up[y])
  BY RankLess
<1>3. \A x \in S, y \in S : x \in Up[y] <=> Cardinality(Up[x]) < Cardinality(Up[y])
  <2> TAKE x \in S, y \in S
  <2> SUFFICES ASSUME Cardinality(Up[x]) < Cardinality(Up[y]) PROVE x \in Up[y]
    BY <1>2
  <2>1. Cardinality(Up[x]) \in Nat /\ Cardinality(Up[y]) \in Nat
    BY <1>1
  <2>2. x # y /\ ~(Cardinality(Up[y]) < Cardinality(Up[x]))
    BY <2>1
  <2>3. y \notin Up[x]
    BY <1>2, <2>2
  <2> QED BY <2>2, <2>3 DEF Ranks
<1>4. \A x \in S, y \in S : Cardinality(Up[x]) = Cardinality(Up[y]) => x = y
  <2> TAKE x \in S, y \in S
  <2> SUFFICES ASSUME Cardinality(Up[x]) = Cardinality(Up[y]), x # y PROVE FALSE
    OBVIOUS
  <2>1. x \in Up[y] \/ y \in Up[x]
    BY DEF Ranks
  <2>2. Cardinality(Up[x]) \in Nat /\ Cardinality(Up[y]) \in Nat
    BY <1>1
  <2> QED BY <1>2, <2>1, <2>2
<1> HIDE DEF n
<1>5. IsFiniteSet(0..(n - 1)) /\ Cardinality(0..(n - 1)) = n
  <2>1. 0 \in Int /\ n - 1 \in Int
    BY <1>0
  <2>2. IsFiniteSet(0..(n - 1)) /\ Cardinality(0..(n - 1)) = IF 0 > n - 1 THEN 0 ELSE n - 1 - 0 + 1
    BY <2>1, FS_Interval
  <2>3. (IF 0 > n - 1 THEN 0 ELSE n - 1 - 0 + 1) = n
    BY <1>0
  <2> QED BY <2>2, <2>3
<1>6. Place \in Injection(S, 0..(n - 1))
  <2>1. Place \in [S -> 0..(n - 1)]
    BY <1>1
  <2>2. \A x \in S, y \in S : Place[x] = Place[y] => x = y
    BY <1>4
  <2> QED BY <2>1, <2>2 DEF Injection, IsInjective
<1>7. Place \in Surjection(S, 0..(n - 1))
  <2>1. Cardinality(S) = Cardinality(0..(n - 1))
    BY <1>5 DEF n
  <2> HIDE DEF Place
  <2> QED BY <1>5, <1>6, <2>1, FS_Injection
<1>8. \A k \in 1..n : \E x \in S : Cardinality(Up[x]) = k - 1
  <2> TAKE k \in 1..n
  <2>1. k - 1 \in 0..(n - 1)
    BY <1>0
  <2>2. \E x \in S : Place[x] = k - 1
    BY <1>7, <2>1 DEF Surjection
  <2> QED BY <2>2
<1> QED BY <1>0, <1>1, <1>3, <1>8 DEF n

(* A function on the numbers up to n is a list of n.                        *)
LEMMA ListIs ==
  ASSUME NEW S, NEW n \in Nat, NEW f \in [1..n -> S]
  PROVE  f \in Seq(S) /\ Len(f) = n
<1>1. f \in Seq(S)
  BY SeqDef
<1> QED BY <1>1

(* A list that has at k an element which k - 1 others precede is all of     *)
(* them, in order.                                                          *)
Sorted(order, S, Up) ==
  /\ order \in [1..Cardinality(S) -> S]
  /\ \A k \in 1..Cardinality(S) : Cardinality(Up[order[k]]) = k - 1

LEMMA SortedIs ==
  ASSUME NEW S, NEW Up, Ranks(S, Up), NEW order, Sorted(order, S, Up)
  PROVE  /\ Cardinality(S) \in Nat /\ DOMAIN order = 1..Cardinality(S)
         /\ order \in Seq(S) /\ Len(order) = Cardinality(S) /\ Cardinality(S) \in Nat
         /\ \A x \in S : \E k \in 1..Cardinality(S) : order[k] = x
         /\ \A k \in 1..Cardinality(S), l \in 1..Cardinality(S) :
              /\ order[k] \in S
              /\ order[k] = order[l] => k = l
              /\ order[k] \in Up[order[l]] <=> k < l
<1> DEFINE n == Cardinality(S)
<1>1. /\ n \in Nat
      /\ \A x \in S : Cardinality(Up[x]) \in 0..(n - 1)
      /\ \A x \in S, y \in S : x \in Up[y] <=> Cardinality(Up[x]) < Cardinality(Up[y])
  BY RankIs
<1>2. order \in [1..n -> S] /\ \A k \in 1..n : Cardinality(Up[order[k]]) = k - 1
  BY DEF Sorted
<1> HIDE DEF n
<1>3. ASSUME NEW x \in S PROVE \E k \in 1..n : order[k] = x
  <2> DEFINE c == Cardinality(Up[x])
  <2>1. c \in 0..(n - 1)
    BY <1>1
  <2>2. PICK k \in 1..n : k - 1 = c
    <3> HIDE DEF c
    <3>1. n \in Nat
      BY <1>1
    <3>2. c \in Int /\ 0 <= c /\ c <= n - 1
      BY <2>1, <3>1
    <3>3. c + 1 \in 1..n
      BY <3>1, <3>2
    <3>4. c + 1 - 1 = c
      BY <3>2
    <3> QED BY <3>1, <3>2, <3>3, <3>4
  <2>3. Cardinality(Up[order[k]]) = c /\ order[k] \in S
    BY <1>2, <2>2
  <2>4. ~(Cardinality(Up[x]) < Cardinality(Up[order[k]])) /\ ~(Cardinality(Up[order[k]]) < Cardinality(Up[x]))
    <3>1. c \in Nat
      BY <1>1, <2>1
    <3> QED BY <2>3, <3>1
  <2>5. x \notin Up[order[k]] /\ order[k] \notin Up[x]
    BY <1>1, <2>3, <2>4
  <2>6. order[k] = x
    BY <2>3, <2>5 DEF Ranks
  <2> QED BY <2>6
<1>4. ASSUME NEW k \in 1..n, NEW l \in 1..n
      PROVE  /\ order[k] \in S
             /\ order[k] = order[l] => k = l
             /\ order[k] \in Up[order[l]] <=> k < l
  <2>1. order[k] \in S /\ order[l] \in S /\ Cardinality(Up[order[k]]) = k - 1 /\ Cardinality(Up[order[l]]) = l - 1
    BY <1>2
  <2>2. order[k] \in Up[order[l]] <=> k - 1 < l - 1
    BY <1>1, <2>1
  <2> QED BY <1>1, <2>1, <2>2
<1>5. order \in Seq(S) /\ Len(order) = n /\ DOMAIN order = 1..n
  BY <1>1, <1>2, ListIs
<1> QED BY <1>1, <1>3, <1>4, <1>5 DEF n

(* Where the members of the lists stand when the lists are joined.          *)
Spots(ss) == {c \in Nat \X Nat : c[1] \in DOMAIN ss /\ c[2] \in DOMAIN ss[c[1]]}
Sooner(c, e) == c[1] < e[1] \/ (c[1] = e[1] /\ c[2] < e[2])
Laid(at, flat, ss) ==
  /\ at \in [Spots(ss) -> DOMAIN flat]
  /\ \A q \in DOMAIN flat : \E c \in Spots(ss) : at[c] = q
  /\ \A c \in Spots(ss) : flat[at[c]] = ss[c[1]][c[2]]
  /\ \A c \in Spots(ss), e \in Spots(ss) : at[c] < at[e] <=> Sooner(c, e)

LEMMA LaidOnce ==
  ASSUME NEW X, NEW ss \in Seq(Seq(X)), Len(ss) = 1
  PROVE  \E at : Laid(at, ss[1], ss)
<1> DEFINE at == [c \in Spots(ss) |-> c[2]]
<1>1. DOMAIN ss = {1} /\ ss[1] \in Seq(X)
  OBVIOUS
<1>2. DOMAIN ss[1] \subseteq Nat
  BY <1>1
<1>3. \A c \in Spots(ss) : c[1] = 1 /\ c[2] \in DOMAIN ss[1] /\ c[2] \in Nat /\ at[c] = c[2]
  BY <1>1, <1>2 DEF Spots
<1>4. \A q \in DOMAIN ss[1] : <<1, q>> \in Spots(ss) /\ <<1, q>>[2] = q
  BY <1>1, <1>2 DEF Spots
<1>5. at \in [Spots(ss) -> DOMAIN ss[1]]
  BY <1>3
<1>6. \A q \in DOMAIN ss[1] : at[<<1, q>>] = q
  BY <1>4
<1>7. \A c \in Spots(ss) : at[c] \in Nat /\ at[c] = c[2] /\ c[1] = 1
  BY <1>3
<1> HIDE DEF at
<1>8. ASSUME NEW c \in Spots(ss), NEW e \in Spots(ss) PROVE at[c] < at[e] <=> Sooner(c, e)
  <2>1. at[c] = c[2] /\ at[e] = e[2] /\ c[1] = e[1] /\ ~(c[1] < e[1])
    BY <1>7
  <2> QED BY <2>1 DEF Sooner
<1>9. \A q \in DOMAIN ss[1] : \E c \in Spots(ss) : at[c] = q
  BY <1>4, <1>6
<1>10. \A c \in Spots(ss) : ss[1][at[c]] = ss[c[1]][c[2]]
  BY <1>7
<1> QED BY <1>5, <1>8, <1>9, <1>10 DEF Laid

LEMMA LaidMore ==
  ASSUME NEW X, NEW ss \in Seq(Seq(X)), NEW m \in Nat, m + 1 <= Len(ss),
         NEW flat \in Seq(X), NEW was, Laid(was, flat, SubSeq(ss, 1, m))
  PROVE  \E at : Laid(at, flat \o ss[m+1], SubSeq(ss, 1, m + 1))
<1> DEFINE old == SubSeq(ss, 1, m)
           new == SubSeq(ss, 1, m + 1)
           last == ss[m+1]
           n == Len(flat)
           both == flat \o last
           at == [c \in Spots(new) |-> IF c[1] = m + 1 THEN n + c[2] ELSE was[c]]
<1>1. last \in Seq(X) /\ n \in Nat /\ Len(last) \in Nat
  BY LenProperties
<1>2. /\ DOMAIN old = 1..m /\ DOMAIN new = 1..(m + 1)
      /\ \A i \in 1..m : old[i] = ss[i] /\ new[i] = ss[i]
      /\ new[m+1] = last
  OBVIOUS
<1>3. /\ Len(both) = n + Len(last) /\ both \in Seq(X) /\ DOMAIN both = 1..(n + Len(last))
      /\ \A q \in 1..n : both[q] = flat[q]
      /\ \A q \in 1..Len(last) : both[n+q] = last[q]
  BY <1>1, ConcatProperties, LenProperties
<1>4. DOMAIN flat = 1..n /\ DOMAIN last = 1..Len(last)
  BY <1>1, LenProperties
<1> HIDE DEF old, new, last, n, both
<1>5. ASSUME NEW c \in Spots(new)
      PROVE  \/ c[1] = m + 1 /\ c[2] \in 1..Len(last) /\ at[c] = n + c[2]
             \/ c[1] \in 1..m /\ c \in Spots(old) /\ at[c] = was[c] /\ was[c] \in 1..n
  <2>1. c \in Nat \X Nat /\ c[1] \in 1..(m + 1) /\ c[2] \in DOMAIN new[c[1]]
    BY <1>2 DEF Spots
  <2>2. CASE c[1] = m + 1
    BY <1>2, <1>4, <2>1, <2>2
  <2>3. CASE c[1] # m + 1
    <3>1. c[1] \in 1..m
      BY <2>1, <2>3
    <3>2. c \in Spots(old)
      <4>0. \A i \in 1..m : old[i] = new[i] /\ i \in DOMAIN old
        BY <1>2
      <4>1. old[c[1]] = new[c[1]] /\ c[1] \in DOMAIN old
        BY <3>1, <4>0
      <4> QED BY <2>1, <4>1 DEF Spots
    <3> QED BY <1>4, <2>3, <3>1, <3>2 DEF Laid, old
  <2> QED BY <2>2, <2>3
<1>6. \A c \in Spots(old) : c \in Spots(new) /\ c[1] # m + 1 /\ at[c] = was[c] /\ new[c[1]] = old[c[1]]
  <2> TAKE c \in Spots(old)
  <2>1. c \in Nat \X Nat /\ c[1] \in 1..m /\ c[2] \in DOMAIN old[c[1]]
    BY <1>2 DEF Spots
  <2>2. c[1] # m + 1 /\ c[1] \in 1..(m+1) /\ new[c[1]] = old[c[1]]
    <3>1. c[1] # m + 1 /\ c[1] \in 1..(m+1)
      BY <2>1
    <3> QED BY <1>2, <2>1, <3>1
  <2>3. c \in Spots(new)
    BY <1>2, <2>1, <2>2 DEF Spots
  <2> QED BY <2>2, <2>3
<1>7. ASSUME NEW q \in 1..Len(last)
      PROVE  <<m + 1, q>> \in Spots(new) /\ at[<<m + 1, q>>] = n + q
  <2>1. <<m + 1, q>> \in Spots(new)
    BY <1>2, <1>4 DEF Spots
  <2> QED BY <2>1
<1>8. ASSUME NEW c \in Spots(new) PROVE at[c] \in DOMAIN both /\ both[at[c]] = new[c[1]][c[2]]
  <2>1. CASE c[1] = m + 1 /\ c[2] \in 1..Len(last) /\ at[c] = n + c[2]
    <3>1. n + c[2] \in 1..(n + Len(last))
      BY <1>1, <2>1
    <3> HIDE DEF at
    <3> QED BY <1>2, <1>3, <2>1, <3>1
  <2>2. CASE c[1] \in 1..m /\ c \in Spots(old) /\ at[c] = was[c] /\ was[c] \in 1..n
    <3>1. was[c] \in 1..(n + Len(last))
      BY <1>1, <2>2
    <3>2. both[was[c]] = flat[was[c]] /\ flat[was[c]] = old[c[1]][c[2]]
      BY <1>3, <2>2 DEF Laid, old
    <3> HIDE DEF at
    <3> QED BY <1>3, <1>6, <2>2, <3>1, <3>2
  <2> QED BY <1>5, <2>1, <2>2
<1>9. at \in [Spots(new) -> DOMAIN both]
  BY <1>8
<1> HIDE DEF at
<1>10. ASSUME NEW q \in DOMAIN both PROVE \E c \in Spots(new) : at[c] = q
  <2>1. CASE q \in 1..n
    <3>1. PICK c \in Spots(old) : was[c] = q
      BY <1>4, <2>1 DEF Laid, old
    <3> QED BY <1>6, <3>1
  <2>2. CASE q \notin 1..n
    <3>1. q \in Int /\ n < q /\ q <= n + Len(last)
      BY <1>1, <1>3, <2>2
    <3>2. q - n \in 1..Len(last) /\ n + (q - n) = q
      BY <1>1, <3>1
    <3> QED BY <1>7, <3>2
  <2> QED BY <2>1, <2>2
<1>11. ASSUME NEW c \in Spots(new), NEW e \in Spots(new) PROVE at[c] < at[e] <=> Sooner(c, e)
  <2>1. c \in Nat \X Nat /\ e \in Nat \X Nat
    BY DEF Spots
  <2>2. CASE c[1] = m + 1 /\ e[1] = m + 1
    <3>1. at[c] = n + c[2] /\ at[e] = n + e[2]
      BY <1>5, <2>2
    <3> QED BY <1>1, <2>1, <2>2, <3>1 DEF Sooner
  <2>3. CASE c[1] = m + 1 /\ e[1] # m + 1
    <3>1. at[c] = n + c[2] /\ c[2] \in Nat /\ at[e] \in 1..n /\ e[1] \in 1..m
      BY <1>5, <2>1, <2>3
    <3> QED BY <1>1, <2>1, <2>3, <3>1 DEF Sooner
  <2>4. CASE c[1] # m + 1 /\ e[1] = m + 1
    <3>1. at[c] \in 1..n /\ c[1] \in 1..m
      BY <1>5, <2>1, <2>4
    <3>2. e[1] \notin 1..m
      BY <2>4
    <3>3. at[e] = n + e[2] /\ e[2] \in 1..Len(last)
      BY <1>5, <3>2
    <3> QED BY <1>1, <2>1, <2>4, <3>1, <3>3 DEF Sooner
  <2>5. CASE c[1] # m + 1 /\ e[1] # m + 1
    <3>1. c \in Spots(old) /\ e \in Spots(old) /\ at[c] = was[c] /\ at[e] = was[e]
      BY <1>5, <2>5
    <3> QED BY <3>1 DEF Laid, old
  <2> QED BY <2>2, <2>3, <2>4, <2>5
<1>12. Laid(at, both, new)
  BY <1>8, <1>9, <1>10, <1>11 DEF Laid
<1> QED BY <1>12 DEF both, last, new

(* What FlattenSeq makes of a list of lists.                                *)
FlatIs(flat, X, ss) == flat \in Seq(X) /\ \E at : Laid(at, flat, ss)
LEMMA FlattenIs ==
  ASSUME NEW X, NEW ss \in Seq(Seq(X))
  PROVE  FlatIs(FlattenSeq(ss), X, ss)
<1>1. CASE Len(ss) = 0
  <2>1. ss = <<>> /\ FlattenSeq(ss) = <<>>
    BY <1>1, EmptySeq DEF FlattenSeq
  <2>2. Spots(<<>>) = {} /\ DOMAIN <<>> = {}
    BY DEF Spots
  <2>3. Laid([c \in {} |-> 0], <<>>, <<>>)
    <3>1. [c \in {} |-> 0] \in [{} -> {}]
      OBVIOUS
    <3> QED BY <2>2, <3>1 DEF Laid
  <2>4. <<>> \in Seq(X) /\ Laid([c \in {} |-> 0], FlattenSeq(ss), ss)
    BY <2>1, <2>3, EmptySeq
  <2> QED BY <2>1, <2>4 DEF FlatIs
<1>2. CASE Len(ss) # 0
  <2> DEFINE n == Len(ss)
             Turn(f) == [i \in 1..n |-> IF i = 1 THEN ss[i] ELSE f[i-1] \o ss[i]]
             flatten == CHOOSE f : f = Turn(f)
             F == [k \in 1..n |-> [x \in Seq(X) |-> x \o ss[k]]]
  <2>1. FlattenSeq(ss) = flatten[n]
    BY <1>2 DEF FlattenSeq
  <2>2. n \in Nat /\ n # 0 /\ \A k \in 1..n : ss[k] \in Seq(X)
    BY <1>2, LenProperties
  <2> HIDE DEF n
  <2>3. \A k \in 1..n : \A x \in Seq(X) : F[k][x] = x \o ss[k] /\ F[k][x] \in Seq(X)
    BY <2>2, ConcatProperties
  <2> HIDE DEF F
  <2>4. PICK g \in [0..n -> Seq(X)] : Goes(g, F, <<>>, n)
    BY <2>2, <2>3, EmptySeq, FoldGoes
  <2> DEFINE h == [i \in 1..n |-> g[i]]
  <2>5. h = Turn(h)
    <3>1. ASSUME NEW i \in 1..n PROVE h[i] = IF i = 1 THEN ss[i] ELSE h[i-1] \o ss[i]
      <4>1. i - 1 \in 0..n /\ g[i-1] \in Seq(X) /\ g[i] = g[i-1] \o ss[i]
        <5>1. i - 1 \in 0..n
          BY <2>2
        <5>2. g[i-1] \in Seq(X)
          BY <5>1
        <5>3. g[i] = F[i][g[i-1]]
          BY <2>4 DEF Goes
        <5> QED BY <2>3, <5>1, <5>2, <5>3
      <4>2. CASE i = 1
        <5>1. g[0] = <<>> /\ g[1] = <<>> \o ss[1]
          <6>1. i - 1 = 0
            BY <4>2
          <6>2. g[0] = <<>>
            BY <2>4 DEF Goes
          <6> QED BY <4>1, <4>2, <6>1, <6>2
        <5>2. <<>> \o ss[1] = ss[1]
          BY <2>2, <4>2, ConcatEmptySeq
        <5> QED BY <4>2, <5>1, <5>2
      <4>3. CASE i # 1
        <5>1. i - 1 \in 1..n
          BY <2>2, <4>3
        <5> QED BY <4>1, <4>3, <5>1
      <4> QED BY <4>2, <4>3
    <3> HIDE DEF h
    <3>2. h = [i \in 1..n |-> h[i]]
      BY DEF h
    <3> QED BY <3>1, <3>2
  <2>6. flatten = Turn(flatten)
    <3> HIDE DEF h, Turn
    <3> QED BY <2>5
  <2> HIDE DEF flatten, h
  <2>7. \A i \in 1..n : flatten[i] = IF i = 1 THEN ss[i] ELSE flatten[i-1] \o ss[i]
    BY <2>6
  <2> HIDE DEF Turn
  <2> DEFINE T == {k \in 0..n : k = 0 \/ (flatten[k] \in Seq(X) /\ \E at : Laid(at, flatten[k], SubSeq(ss, 1, k)))}
  <2>8. 0 \in T
    BY <2>2
  <2>9. ASSUME NEW k \in 1..n, k - 1 \in T PROVE k \in T
    <3>0. k \in 0..n
      BY <2>2
    <3>1. CASE k = 1
      <4> DEFINE one == SubSeq(ss, 1, 1)
      <4>1. one \in Seq(Seq(X)) /\ Len(one) = 1 /\ one[1] = ss[1]
        BY <2>2 DEF n
      <4>2. flatten[1] = ss[1] /\ ss[1] \in Seq(X)
        BY <2>2, <2>7, <3>1
      <4>3. \E at : Laid(at, ss[1], one)
        <5> HIDE DEF one
        <5> QED BY <4>1, LaidOnce
      <4> QED BY <3>0, <3>1, <4>2, <4>3
    <3>2. CASE k # 1
      <4>1. k - 1 \in Nat /\ k - 1 # 0 /\ (k - 1) + 1 = k /\ k <= n
        BY <2>2, <3>2
      <4>2. flatten[k-1] \in Seq(X) /\ \E was : Laid(was, flatten[k-1], SubSeq(ss, 1, k - 1))
        BY <2>9, <4>1
      <4>3. flatten[k] = flatten[k-1] \o ss[k] /\ flatten[k] \in Seq(X)
        <5>1. flatten[k] = flatten[k-1] \o ss[k]
          BY <2>7, <3>2
        <5>2. ss[k] \in Seq(X) /\ flatten[k-1] \in Seq(X)
          BY <2>2, <4>2
        <5>3. flatten[k-1] \o ss[k] \in Seq(X)
          BY <5>2, ConcatProperties
        <5> QED BY <5>1, <5>3
      <4>4. \E at : Laid(at, flatten[k-1] \o ss[k], SubSeq(ss, 1, k))
        BY <4>1, <4>2, LaidMore DEF n
      <4> QED BY <3>0, <4>3, <4>4
    <3> QED BY <3>1, <3>2
  <2>10. n \in T
    <3> HIDE DEF T
    <3>1. n \in 0..n
      BY <2>2
    <3> QED BY <2>2, <2>8, <2>9, <3>1, Climbs
  <2>11. SubSeq(ss, 1, n) = ss
    BY <2>2 DEF n
  <2> QED BY <2>1, <2>2, <2>10, <2>11 DEF FlatIs
<1> QED BY <1>1, <1>2

(* The phases of a demo, which follow each other.                           *)
Types ==
  {"SCAN_STARTED", "ANALYZER_STARTED", "ANALYZER_COMPLETED", "SCANNER_STARTED", "SCANNER_FINDING_DISCOVERED",
   "SCANNER_COMPLETED", "SANDBOX_PROVISIONING", "SANDBOX_READY", "SCOUT_STARTED", "SCOUT_TARGET_STARTED",
   "SCOUT_ENDPOINT_DISCOVERED", "SCOUT_EVIDENCE_COLLECTED", "SCOUT_TARGET_COMPLETED", "SCOUT_COMPLETED",
   "PLANNER_STARTED", "PLANNER_COMPLETED", "SNIPER_STARTED", "SNIPER_TARGET_SELECTED", "SNIPER_CONFIRMED",
   "SNIPER_VERIFICATION_COMPLETED", "ENGINEER_STARTED", "ENGINEER_RAG_STARTED", "ENGINEER_PATCH_GENERATED",
   "ENGINEER_COMPLETED", "CRITIC_STARTED", "BASELINE_CHECK_STARTED", "BASELINE_CHECK_COMPLETED", "PATCH_APPLY_STARTED",
   "PATCH_APPLIED", "BUILD_COMPLETED", "TESTS_COMPLETED", "CRITIC_REJECTED", "EXPLOIT_RETEST_COMPLETED",
   "CRITIC_APPROVED", "REMEDIATION_PR_CREATED", "CRITIC_COMPLETED", "SCAN_COMPLETED", "SCAN_FAILED"}
Phase(y) ==
  IF y \in {"SCAN_STARTED", "ANALYZER_STARTED", "ANALYZER_COMPLETED", "SCANNER_STARTED"} THEN 1
  ELSE IF y = "SCANNER_FINDING_DISCOVERED" THEN 2
  ELSE IF y \in {"SCANNER_COMPLETED", "SANDBOX_PROVISIONING", "SANDBOX_READY", "SCOUT_STARTED"} THEN 3
  ELSE IF y \in {"SCOUT_TARGET_STARTED", "SCOUT_ENDPOINT_DISCOVERED", "SCOUT_EVIDENCE_COLLECTED", "SCOUT_TARGET_COMPLETED"} THEN 4
  ELSE IF y \in {"SCOUT_COMPLETED", "PLANNER_STARTED"} THEN 5
  ELSE IF y = "PLANNER_COMPLETED" THEN 6
  ELSE IF y = "SNIPER_STARTED" THEN 7
  ELSE IF y \in {"SNIPER_TARGET_SELECTED", "SNIPER_CONFIRMED"} THEN 8
  ELSE IF y \in {"SNIPER_VERIFICATION_COMPLETED", "ENGINEER_STARTED"} THEN 9
  ELSE IF y \in {"ENGINEER_RAG_STARTED", "ENGINEER_PATCH_GENERATED"} THEN 10
  ELSE IF y \in {"ENGINEER_COMPLETED", "CRITIC_STARTED"} THEN 11
  ELSE IF y = "CRITIC_COMPLETED" THEN 13
  ELSE IF y \in {"SCAN_COMPLETED", "SCAN_FAILED"} THEN 14
  ELSE 12

(* What a demo says of a finding, and of which.                             *)
RejectedIn(d, sc) ==
  {f \in ToSet(PatchedIn[d]) : \E i \in DOMAIN PatchedIn[d] :
     PatchedIn[d][i] = f /\ sc # "full_approved" /\ Fails(d, f, i)}
Allowed(d, sc, y, f) ==
  /\ y = "SCOUT_ENDPOINT_DISCOVERED" => f # "none"
  /\ y \in {"SNIPER_TARGET_SELECTED", "SNIPER_CONFIRMED"} => f \in ToSet(ExploitedIn[d])
  /\ y = "ENGINEER_PATCH_GENERATED" => f \in ToSet(PatchedIn[d])
  /\ y \in {"CRITIC_APPROVED", "REMEDIATION_PR_CREATED"} => f \in ToSet(PatchedIn[d]) \ RejectedIn(d, sc)
  /\ y = "CRITIC_REJECTED" => f \in RejectedIn(d, sc)
  /\ y = "SCAN_COMPLETED" => sc = "full_approved"
  /\ y = "SCAN_FAILED" => sc # "full_approved"
Beats(d, sc) ==
  {e \in [time : Nat, type : Types, on : ToSet(FindingsIn[d]) \cup {"none"}] : Allowed(d, sc, e.type, e.on)}

(* A phase is over before the next begins; between two targets the first is *)
(* confirmed; a pull request comes after the approval.                      *)
InOrder(T) ==
  \A i \in DOMAIN T, j \in DOMAIN T : Phase(T[i].type) < Phase(T[j].type) => i < j /\ T[i].time <= T[j].time
ConfirmedBetween(T, i, j) ==
  \E l \in DOMAIN T : /\ i < l /\ l < j /\ T[l].type = "SNIPER_CONFIRMED" /\ T[l].on = T[i].on
                      /\ T[i].time <= T[l].time /\ T[l].time <= T[j].time
Turns(T) ==
  \A i \in DOMAIN T, j \in DOMAIN T :
    i < j /\ T[i].type = "SNIPER_TARGET_SELECTED" /\ T[j].type = "SNIPER_TARGET_SELECTED" => ConfirmedBetween(T, i, j)
ApprovedBefore(T, j) ==
  \E i \in DOMAIN T : i < j /\ T[i].type = "CRITIC_APPROVED" /\ T[i].on = T[j].on /\ T[i].time <= T[j].time
Opens(T) == \A j \in DOMAIN T : T[j].type = "REMEDIATION_PR_CREATED" => ApprovedBefore(T, j)
EndsOnce(T) == \A i \in DOMAIN T, j \in DOMAIN T : Phase(T[i].type) = 14 /\ Phase(T[j].type) = 14 => i = j
Within(T, lo, hi, a, b) == \A i \in DOMAIN T : T[i].time \in lo..hi /\ Phase(T[i].type) \in a..b
Part(T, d, sc, lo, hi, a, b) ==
  /\ T \in Seq(Beats(d, sc)) /\ Within(T, lo, hi, a, b)
  /\ InOrder(T) /\ Turns(T) /\ Opens(T) /\ EndsOnce(T)
Has(T, y, f) == \E i \in DOMAIN T : T[i].type = y /\ T[i].on = f

LEMMA PhaseIs == ASSUME NEW y PROVE Phase(y) \in Nat
BY DEF Phase

LEMMA DemoLists ==
  ASSUME DemoAssumption, NEW d \in Demos
  PROVE  /\ \A list \in {FindingsIn[d], PlannedIn[d], ExploitedIn[d], PatchedIn[d]} :
              list \in Seq(ToSet(list)) /\ Len(list) \in Nat /\ DOMAIN list = 1..Len(list)
         /\ ToSet(PatchedIn[d]) \subseteq ToSet(ExploitedIn[d]) /\ ToSet(ExploitedIn[d]) \subseteq ToSet(PlannedIn[d])
         /\ ToSet(PlannedIn[d]) \subseteq ToSet(FindingsIn[d]) /\ "none" \notin ToSet(FindingsIn[d])
<1>1. \A list \in {FindingsIn[d], PlannedIn[d], ExploitedIn[d], PatchedIn[d]} : list \in Seq(ToSet(list))
  BY DEF DemoAssumption
<1>2. \A list : list \in Seq(ToSet(list)) => Len(list) \in Nat /\ DOMAIN list = 1..Len(list)
  BY LenProperties
<1> QED BY <1>1, <1>2 DEF DemoAssumption

-----------------------------------------------------------------------------
(* One part after another.                                                  *)
Both(T, U, i) ==
  \/ i \in DOMAIN T /\ (T \o U)[i] = T[i]
  \/ i - Len(T) \in DOMAIN U /\ i \notin DOMAIN T /\ (T \o U)[i] = U[i - Len(T)]
After(T, U, i) == i + Len(T) \in DOMAIN (T \o U) /\ (T \o U)[i + Len(T)] = U[i]
LEMMA BothIs ==
  ASSUME NEW X, NEW T \in Seq(X), NEW U \in Seq(X)
  PROVE  /\ T \o U \in Seq(X) /\ Len(T) \in Nat /\ DOMAIN T = 1..Len(T)
         /\ \A i \in DOMAIN (T \o U) : i \in Nat /\ Both(T, U, i)
         /\ \A i \in DOMAIN T : i \in DOMAIN (T \o U) /\ i \in Nat /\ i <= Len(T) /\ (T \o U)[i] = T[i]
         /\ \A i \in DOMAIN U : i \in Nat /\ After(T, U, i)
<1> DEFINE n == Len(T)
           m == Len(U)
           V == T \o U
<1>1. n \in Nat /\ m \in Nat /\ DOMAIN T = 1..n /\ DOMAIN U = 1..m
  BY LenProperties
<1>2. V \in Seq(X) /\ Len(V) = n + m /\ DOMAIN V = 1..(n + m)
  BY <1>1, ConcatProperties, LenProperties
<1>3. /\ \A i \in 1..n : V[i] = T[i]
      /\ \A i \in (n+1)..(n+m) : V[i] = U[i - n]
  BY <1>1, ConcatProperties
<1> HIDE DEF n, m, V
<1>4. ASSUME NEW i \in DOMAIN V
      PROVE  /\ i \in Nat
             /\ \/ i \in DOMAIN T /\ V[i] = T[i]
                \/ i - n \in DOMAIN U /\ i \notin DOMAIN T /\ V[i] = U[i-n]
  <2>1. i \in 1..(n+m)
    BY <1>2
  <2>2. CASE i <= n
    <3>1. i \in 1..n /\ i \in Nat
      BY <1>1, <2>1, <2>2
    <3>2. V[i] = T[i]
      BY <1>3, <3>1
    <3> QED BY <1>1, <3>1, <3>2
  <2>3. CASE ~(i <= n)
    <3>1. i \in (n+1)..(n+m) /\ i - n \in 1..m /\ i \notin 1..n /\ i \in Nat
      BY <1>1, <2>1, <2>3
    <3>2. V[i] = U[i - n]
      BY <1>3, <3>1
    <3> QED BY <1>1, <3>1, <3>2
  <2> QED BY <2>2, <2>3
<1>5. ASSUME NEW i \in DOMAIN T PROVE i \in DOMAIN V /\ i \in Nat /\ i <= n /\ V[i] = T[i]
  <2>1. i \in 1..n /\ i \in 1..(n+m)
    BY <1>1
  <2> QED BY <1>1, <1>2, <1>3, <2>1
<1>6. ASSUME NEW i \in DOMAIN U PROVE i \in Nat /\ i + n \in DOMAIN V /\ V[i + n] = U[i]
  <2>1. i \in 1..m /\ i + n \in (n+1)..(n+m) /\ i + n \in 1..(n+m) /\ (i + n) - n = i
    BY <1>1
  <2> QED BY <1>1, <1>2, <1>3, <2>1
<1>7. \A i \in DOMAIN (T \o U) : i \in Nat /\ Both(T, U, i)
  BY <1>4 DEF Both, V, n
<1>8. \A i \in DOMAIN U : i \in Nat /\ After(T, U, i)
  BY <1>6 DEF After, V, n
<1> QED BY <1>1, <1>2, <1>5, <1>7, <1>8 DEF V, n

LEMMA HasJoins ==
  ASSUME NEW X, NEW T \in Seq(X), NEW U \in Seq(X), NEW y, NEW f, Has(T, y, f) \/ Has(U, y, f)
  PROVE  Has(T \o U, y, f)
<1>1. CASE Has(T, y, f)
  BY <1>1, BothIs DEF Has
<1>2. CASE Has(U, y, f)
  <2>1. PICK i \in DOMAIN U : U[i].type = y /\ U[i].on = f
    BY <1>2 DEF Has
  <2>2. i + Len(T) \in DOMAIN (T \o U) /\ (T \o U)[i + Len(T)] = U[i]
    BY BothIs DEF After
  <2> QED BY <2>1, <2>2 DEF Has
<1> QED BY <1>1, <1>2

LEMMA PartJoins ==
  ASSUME NEW d, NEW sc, NEW lo \in Nat, NEW mid \in Nat, NEW next \in Nat, NEW hi \in Nat,
         NEW a \in Nat, NEW b \in Nat, NEW c \in Nat, NEW e \in Nat, NEW T, NEW U,
         Part(T, d, sc, lo, mid, a, b), Part(U, d, sc, next, hi, c, e),
         lo <= next, mid <= next, mid <= hi, a <= c, b <= c, b <= e, b = c => b \notin {8, 12, 14}
  PROVE  Part(T \o U, d, sc, lo, hi, a, e)
<1> DEFINE V == T \o U
           n == Len(T)
<1>1. T \in Seq(Beats(d, sc)) /\ U \in Seq(Beats(d, sc))
  BY DEF Part
<1>2. V \in Seq(Beats(d, sc)) /\ n \in Nat /\ DOMAIN T = 1..n
  BY <1>1, BothIs
<1>3. \A i \in DOMAIN V : /\ i \in Nat
                          /\ \/ i \in DOMAIN T /\ V[i] = T[i]
                             \/ i - n \in DOMAIN U /\ i \notin DOMAIN T /\ V[i] = U[i-n]
  <2> TAKE i \in DOMAIN V
  <2>1. i \in Nat /\ Both(T, U, i)
    BY <1>1, BothIs
  <2> QED BY <2>1 DEF Both
<1>4. \A i \in DOMAIN T : i \in DOMAIN V /\ i \in Nat /\ i <= n /\ V[i] = T[i]
  BY <1>1, BothIs
<1>5. \A i \in DOMAIN U : i \in Nat /\ i + n \in DOMAIN V /\ V[i + n] = U[i]
  <2> TAKE i \in DOMAIN U
  <2>1. i \in Nat /\ After(T, U, i)
    BY <1>1, BothIs
  <2> QED BY <2>1 DEF After
<1>6. \A i \in DOMAIN T : T[i].time \in lo..mid /\ Phase(T[i].type) \in a..b
  BY DEF Part, Within
<1>7. \A i \in DOMAIN U : U[i].time \in next..hi /\ Phase(U[i].type) \in c..e
  BY DEF Part, Within
<1> HIDE DEF V, n
<1>8. Within(V, lo, hi, a, e)
  <2> SUFFICES ASSUME NEW i \in DOMAIN V PROVE V[i].time \in lo..hi /\ Phase(V[i].type) \in a..e
    BY DEF Within
  <2>1. \/ V[i].time \in lo..mid /\ Phase(V[i].type) \in a..b
        \/ V[i].time \in next..hi /\ Phase(V[i].type) \in c..e
    BY <1>3, <1>6, <1>7
  <2> QED BY <2>1
<1>9. ASSUME NEW i \in DOMAIN V, NEW j \in DOMAIN V, i \in DOMAIN T, j \notin DOMAIN T
      PROVE  i < j /\ V[i].time <= V[j].time
  <2>1. V[i].time \in lo..mid /\ V[j].time \in next..hi
    BY <1>3, <1>4, <1>6, <1>7, <1>9
  <2>2. i \in 1..n /\ j \in Nat /\ j - n \in DOMAIN U
    BY <1>2, <1>3, <1>9
  <2>3. j - n \in Nat /\ j - n >= 1
    <3>1. DOMAIN U = 1..Len(U)
      BY <1>1, LenProperties
    <3> QED BY <2>2, <3>1
  <2>4. V[i].time <= V[j].time
    BY <2>1
  <2>5. i \in Nat /\ i <= n /\ n < j
    BY <1>2, <2>2, <2>3
  <2> QED BY <1>2, <2>2, <2>4, <2>5
<1>10. InOrder(V)
  <2> SUFFICES ASSUME NEW i \in DOMAIN V, NEW j \in DOMAIN V, Phase(V[i].type) < Phase(V[j].type)
               PROVE  i < j /\ V[i].time <= V[j].time
    BY DEF InOrder
  <2>1. CASE i \in DOMAIN T /\ j \in DOMAIN T
    BY <1>3, <1>4, <2>1 DEF Part, InOrder
  <2>2. CASE i \in DOMAIN T /\ j \notin DOMAIN T
    BY <1>9, <2>2
  <2>3. CASE i \notin DOMAIN T /\ j \in DOMAIN T
    <3>1. Phase(V[i].type) \in c..e /\ Phase(V[j].type) \in a..b
      BY <1>3, <1>4, <1>6, <1>7, <2>3
    <3> QED BY <3>1
  <2>4. CASE i \notin DOMAIN T /\ j \notin DOMAIN T
    <3>1. i - n \in DOMAIN U /\ j - n \in DOMAIN U /\ V[i] = U[i-n] /\ V[j] = U[j-n] /\ i \in Nat /\ j \in Nat
      BY <1>3, <2>4
    <3>2. i - n < j - n /\ U[i-n].time <= U[j-n].time
      BY <3>1 DEF Part, InOrder
    <3> QED BY <1>2, <3>1, <3>2
  <2> QED BY <2>1, <2>2, <2>3, <2>4
<1>11. Turns(V)
  <2> SUFFICES ASSUME NEW i \in DOMAIN V, NEW j \in DOMAIN V, i < j, V[i].type = "SNIPER_TARGET_SELECTED",
                      V[j].type = "SNIPER_TARGET_SELECTED"
               PROVE  ConfirmedBetween(V, i, j)
    BY DEF Turns
  <2>0. Phase(V[i].type) = 8 /\ Phase(V[j].type) = 8
    BY DEF Phase
  <2>1. CASE i \in DOMAIN T /\ j \in DOMAIN T
    <3>1. V[i] = T[i] /\ V[j] = T[j] /\ ConfirmedBetween(T, i, j)
      BY <1>4, <2>1 DEF Part, Turns
    <3> QED BY <1>4, <3>1 DEF ConfirmedBetween
  <2>2. CASE i \in DOMAIN T /\ j \notin DOMAIN T
    <3>1. 8 \in a..b /\ 8 \in c..e
      BY <1>3, <1>4, <1>6, <1>7, <2>0, <2>2
    <3> QED BY <3>1
  <2>3. CASE i \notin DOMAIN T /\ j \in DOMAIN T
    <3>1. j < i
      BY <1>9, <2>3
    <3> QED BY <1>3, <3>1
  <2>4. CASE i \notin DOMAIN T /\ j \notin DOMAIN T
    <3>1. i - n \in DOMAIN U /\ j - n \in DOMAIN U /\ V[i] = U[i-n] /\ V[j] = U[j-n] /\ i \in Nat /\ j \in Nat
      BY <1>3, <2>4
    <3>2. i - n < j - n
      BY <1>2, <3>1
    <3>3. ConfirmedBetween(U, i - n, j - n)
      BY <3>1, <3>2 DEF Part, Turns
    <3>4. PICK l \in DOMAIN U : /\ i - n < l /\ l < j - n /\ U[l].type = "SNIPER_CONFIRMED" /\ U[l].on = U[i-n].on
                                /\ U[i-n].time <= U[l].time /\ U[l].time <= U[j-n].time
      BY <3>3 DEF ConfirmedBetween
    <3>5. l + n \in DOMAIN V /\ V[l + n] = U[l] /\ l \in Nat
      BY <1>5
    <3>6. i < l + n /\ l + n < j
      <4>1. i - n < l /\ l < j - n /\ i \in Nat /\ j \in Nat /\ l \in Nat /\ n \in Nat
        BY <1>2, <3>1, <3>4, <3>5
      <4> QED BY <4>1
    <3> QED BY <3>1, <3>4, <3>5, <3>6 DEF ConfirmedBetween
  <2> QED BY <2>1, <2>2, <2>3, <2>4
<1>12. Opens(V)
  <2> SUFFICES ASSUME NEW j \in DOMAIN V, V[j].type = "REMEDIATION_PR_CREATED" PROVE ApprovedBefore(V, j)
    BY DEF Opens
  <2>1. CASE j \in DOMAIN T
    <3>1. V[j] = T[j] /\ ApprovedBefore(T, j)
      BY <1>4, <2>1 DEF Part, Opens
    <3> QED BY <1>4, <3>1 DEF ApprovedBefore
  <2>2. CASE j \notin DOMAIN T
    <3>1. j - n \in DOMAIN U /\ V[j] = U[j-n] /\ j \in Nat
      BY <1>3, <2>2
    <3>2. ApprovedBefore(U, j - n)
      BY <3>1 DEF Part, Opens
    <3>3. PICK i \in DOMAIN U : i < j - n /\ U[i].type = "CRITIC_APPROVED" /\ U[i].on = U[j-n].on /\ U[i].time <= U[j-n].time
      BY <3>2 DEF ApprovedBefore
    <3>4. i + n \in DOMAIN V /\ V[i + n] = U[i] /\ i \in Nat
      BY <1>5
    <3>5. i + n < j
      BY <1>2, <3>1, <3>3, <3>4
    <3> QED BY <3>1, <3>3, <3>4, <3>5 DEF ApprovedBefore
  <2> QED BY <2>1, <2>2
<1>13. EndsOnce(V)
  <2> SUFFICES ASSUME NEW i \in DOMAIN V, NEW j \in DOMAIN V, Phase(V[i].type) = 14, Phase(V[j].type) = 14
               PROVE  i = j
    BY DEF EndsOnce
  <2>1. CASE i \in DOMAIN T /\ j \in DOMAIN T
    BY <1>4, <2>1 DEF Part, EndsOnce
  <2>2. CASE i \notin DOMAIN T /\ j \notin DOMAIN T
    <3>1. i - n \in DOMAIN U /\ j - n \in DOMAIN U /\ V[i] = U[i-n] /\ V[j] = U[j-n] /\ i \in Nat /\ j \in Nat
      BY <1>3, <2>2
    <3>2. i - n = j - n
      BY <3>1 DEF Part, EndsOnce
    <3> QED BY <1>2, <3>1, <3>2
  <2>3. CASE \E k \in DOMAIN V, l \in DOMAIN V : /\ k \in DOMAIN T /\ l \notin DOMAIN T
                                               /\ Phase(V[k].type) = 14 /\ Phase(V[l].type) = 14
    <3>1. 14 \in a..b /\ 14 \in c..e
      BY <1>3, <1>4, <1>6, <1>7, <2>3
    <3> QED BY <3>1
  <2> QED BY <2>1, <2>2, <2>3
<1>14. V \in Seq(Beats(d, sc))
  BY <1>2
<1> QED BY <1>8, <1>10, <1>11, <1>12, <1>14, <1>13 DEF Part, V

LEMMA SinglePart ==
  ASSUME DemoAssumption, NEW d \in Demos, NEW sc, NEW y \in Types, NEW t \in Nat, Allowed(d, sc, y, "none")
  PROVE  Part(<<Timed(t, y, "none")>>, d, sc, t, t, Phase(y), Phase(y))
<1> DEFINE e == Timed(t, y, "none")
           T == <<e>>
<1>1. e \in Beats(d, sc) /\ e.time = t /\ e.type = y
  BY DEF Beats, Timed
<1>2. y # "REMEDIATION_PR_CREATED"
  BY DemoLists DEF Allowed
<1>3. Phase(y) \in Nat
  BY PhaseIs
<1> HIDE DEF e
<1>4. T \in Seq(Beats(d, sc)) /\ DOMAIN T = {1} /\ T[1] = e
  BY <1>1
<1> HIDE DEF T
<1>5. Within(T, t, t, Phase(y), Phase(y))
  BY <1>1, <1>3, <1>4 DEF Within
<1>6. InOrder(T) /\ Turns(T) /\ EndsOnce(T) /\ Opens(T)
  BY <1>1, <1>2, <1>3, <1>4 DEF InOrder, Turns, EndsOnce, Opens
<1> QED BY <1>4, <1>5, <1>6 DEF Part, T, e

LEMMA PairIs ==
  ASSUME NEW e, NEW g
  PROVE  <<e>> \o <<g>> = <<e, g>>
<1> DEFINE X == {e, g}
           one == <<e>>
           other == <<g>>
           two == <<e, g>>
<1>1. one \in Seq(X) /\ other \in Seq(X) /\ two \in Seq(X)
  OBVIOUS
<1>2. Len(one) = 1 /\ Len(other) = 1 /\ Len(two) = 2 /\ one[1] = e /\ other[1] = g /\ two[1] = e /\ two[2] = g
  OBVIOUS
<1> HIDE DEF one, other, two
<1>3. /\ one \o other \in Seq(X) /\ Len(one \o other) = Len(two)
      /\ \A i \in 1..2 : (one \o other)[i] = two[i]
  BY <1>1, <1>2, ConcatProperties
<1>4. one \o other = two
  BY <1>1, <1>2, <1>3, SeqEqual
<1> QED BY <1>4 DEF one, other, two

LEMMA PairPart ==
  ASSUME DemoAssumption, NEW d \in Demos, NEW sc, NEW y \in Types, NEW z \in Types, NEW t \in Nat, NEW u \in Nat,
         Allowed(d, sc, y, "none"), Allowed(d, sc, z, "none"), t <= u,
         Phase(y) <= Phase(z), Phase(y) = Phase(z) => Phase(y) \notin {8, 12, 14}
  PROVE  Part(<<Timed(t, y, "none"), Timed(u, z, "none")>>, d, sc, t, u, Phase(y), Phase(z))
<1> DEFINE e == Timed(t, y, "none")
           g == Timed(u, z, "none")
<1>1. Part(<<e>>, d, sc, t, t, Phase(y), Phase(y)) /\ Part(<<g>>, d, sc, u, u, Phase(z), Phase(z))
  BY SinglePart
<1>2. Phase(y) \in Nat /\ Phase(z) \in Nat
  BY PhaseIs
<1> HIDE DEF e, g
<1>3. <<e>> \o <<g>> = <<e, g>>
  BY PairIs
<1>4. Part(<<e>> \o <<g>>, d, sc, t, u, Phase(y), Phase(z))
  BY <1>1, <1>2, PartJoins
<1> QED BY <1>3, <1>4 DEF e, g

-----------------------------------------------------------------------------
(* What is said of each finding of a list.                                  *)
Shaped(s, parts, step, ph, d, sc) ==
  /\ DOMAIN parts = DOMAIN s
  /\ \A i \in DOMAIN s :
       /\ s[i] \in ToSet(FindingsIn[d]) /\ \E n \in Nat : DOMAIN parts[i] = 1..n
       /\ \A k \in DOMAIN parts[i] :
            /\ parts[i][k][1] \in 0..(step + 2) /\ parts[i][k][2] \in Types /\ Phase(parts[i][k][2]) = ph
            /\ Allowed(d, sc, parts[i][k][2], s[i])
Beat(s, start, step, parts, c) ==
  Timed(start + (c[1] - 1) * step + parts[c[1]][c[2]][1], parts[c[1]][c[2]][2], s[c[1]])
Plays(at, T, s, start, step, parts) ==
  /\ at \in [Spots(parts) -> DOMAIN T]
  /\ \A q \in DOMAIN T : \E c \in Spots(parts) : at[c] = q
  /\ \A c \in Spots(parts) : T[at[c]] = Beat(s, start, step, parts, c)
  /\ \A c \in Spots(parts), e \in Spots(parts) : at[c] < at[e] <=> Sooner(c, e)

Paces == {15, 25, 40}
BeatFits(e, d, sc, lo, hi, ph) == e \in Beats(d, sc) /\ e.time \in lo..hi /\ Phase(e.type) = ph
EachFits(T, d, sc, s, start, step, parts, ph) ==
  /\ T \in Seq(Beats(d, sc)) /\ Within(T, start, start + Len(s) * step + 2, ph, ph) /\ InOrder(T)
  /\ \E at : Plays(at, T, s, start, step, parts)

LEMMA BeatIs ==
  ASSUME DemoAssumption, NEW d \in Demos, NEW sc, NEW Y, NEW s \in Seq(Y), NEW start \in Nat, NEW step \in Paces,
         NEW ph, NEW parts, Shaped(s, parts, step, ph, d, sc), NEW c \in Spots(parts)
  PROVE  BeatFits(Beat(s, start, step, parts, c), d, sc, start, start + Len(s) * step + 2, ph)
<1> DEFINE off == parts[c[1]][c[2]][1]
           y == parts[c[1]][c[2]][2]
           f == s[c[1]]
           n == Len(s)
           t == start + (c[1] - 1) * step + off
<1>1. n \in Nat /\ DOMAIN s = 1..n
  BY LenProperties
<1>2. c[1] \in DOMAIN s /\ c[2] \in DOMAIN parts[c[1]]
  BY DEF Spots, Shaped
<1>3. /\ off \in 0..(step + 2) /\ y \in Types /\ Phase(y) = ph /\ Allowed(d, sc, y, f)
      /\ f \in ToSet(FindingsIn[d])
  BY <1>2 DEF Shaped
<1> DEFINE m == c[1]
<1>4. m \in Nat /\ m >= 1 /\ m <= n
  BY <1>1, <1>2
<1> HIDE DEF off, y, f, n, m
<1>5. t \in Nat /\ t \in start..(start + n * step + 2)
  <2> SUFFICES start + (m - 1) * step + off \in Nat /\ start + (m - 1) * step + off \in start..(start + n * step + 2)
    BY DEF m
  <2>1. CASE step = 15
    BY <1>1, <1>3, <1>4, <2>1
  <2>2. CASE step = 25
    BY <1>1, <1>3, <1>4, <2>2
  <2>3. CASE step = 40
    BY <1>1, <1>3, <1>4, <2>3
  <2> QED BY <2>1, <2>2, <2>3 DEF Paces
<1> HIDE DEF t
<1>6. Timed(t, y, f) \in Beats(d, sc) /\ Timed(t, y, f).time = t /\ Timed(t, y, f).type = y
  BY <1>3, <1>5 DEF Beats, Timed
<1> QED BY <1>3, <1>5, <1>6 DEF BeatFits, Beat, t, off, y, f, n, m

LEMMA EachIs ==
  ASSUME DemoAssumption, NEW d \in Demos, NEW sc, NEW Y, NEW s \in Seq(Y), NEW start \in Nat, NEW step \in Paces,
         NEW ph \in Nat, NEW parts, Shaped(s, parts, step, ph, d, sc)
  PROVE  EachFits(Each(s, start, step, parts), d, sc, s, start, step, parts, ph)
<1> DEFINE T == Each(s, start, step, parts)
           X == Beats(d, sc)
           row(i) == [k \in DOMAIN parts[i] |-> Timed(start + (i - 1) * step + parts[i][k][1], parts[i][k][2], s[i])]
           ss == [i \in DOMAIN s |-> row(i)]
           n == Len(s)
<1>1. T = FlattenSeq(ss)
  BY DEF Each
<1>2. n \in Nat /\ DOMAIN s = 1..n
  BY LenProperties
<1>3. ASSUME NEW i \in DOMAIN s PROVE row(i) \in Seq(X) /\ DOMAIN row(i) = DOMAIN parts[i]
  <2>1. PICK m \in Nat : DOMAIN parts[i] = 1..m
    BY DEF Shaped
  <2>2. ASSUME NEW k \in 1..m PROVE row(i)[k] \in X /\ row(i)[k] = Beat(s, start, step, parts, <<i, k>>)
    <3>1. <<i, k>> \in Spots(parts) /\ <<i, k>>[1] = i /\ <<i, k>>[2] = k
      BY <1>2, <2>1 DEF Spots, Shaped
    <3>2. row(i)[k] = Timed(start + (i - 1) * step + parts[i][k][1], parts[i][k][2], s[i])
      BY <2>1
    <3> HIDE DEF row
    <3>3. row(i)[k] = Beat(s, start, step, parts, <<i, k>>)
      BY <3>1, <3>2 DEF Beat
    <3>4. BeatFits(Beat(s, start, step, parts, <<i, k>>), d, sc, start, start + Len(s) * step + 2, ph)
      BY <3>1, BeatIs
    <3> QED BY <3>3, <3>4 DEF BeatFits
  <2>3. row(i) \in [1..m -> X] /\ DOMAIN row(i) = 1..m
    <3>1. row(i) = [k \in 1..m |-> row(i)[k]]
      BY <2>1
    <3> HIDE DEF row, X
    <3> QED BY <2>2, <3>1
  <2> HIDE DEF row, X
  <2> QED BY <2>1, <2>3, ListIs
<1>4. \A i \in DOMAIN s : ss[i] = row(i)
  OBVIOUS
<1>5. \A c \in Spots(parts) : c[1] \in DOMAIN s /\ row(c[1])[c[2]] = Beat(s, start, step, parts, c)
  BY DEF Spots, Shaped, Beat
<1>6. DOMAIN ss = DOMAIN s
  OBVIOUS
<1> HIDE DEF row
<1>7. ss \in [1..n -> Seq(X)]
  BY <1>2, <1>3
<1> HIDE DEF X, ss
<1>8. ss \in Seq(Seq(X))
  BY <1>2, <1>7, ListIs
<1>9. FlatIs(T, X, ss)
  BY <1>1, <1>8, FlattenIs
<1>10. PICK at : Laid(at, T, ss)
  BY <1>9 DEF FlatIs
<1>11. Spots(ss) = Spots(parts)
  BY <1>3, <1>4, <1>6 DEF Spots, Shaped
<1>12. \A c \in Spots(parts) : ss[c[1]][c[2]] = Beat(s, start, step, parts, c)
  BY <1>4, <1>5
<1>13. Plays(at, T, s, start, step, parts)
  BY <1>10, <1>11, <1>12 DEF Laid, Plays
<1>14. T \in Seq(X)
  BY <1>9 DEF FlatIs
<1> HIDE DEF T
<1>15. ASSUME NEW q \in DOMAIN T PROVE T[q].time \in start..(start + n * step + 2) /\ Phase(T[q].type) = ph
  <2>1. PICK c \in Spots(parts) : at[c] = q
    BY <1>13 DEF Plays
  <2>2. T[q] = Beat(s, start, step, parts, c)
    BY <1>13, <2>1 DEF Plays
  <2>3. BeatFits(Beat(s, start, step, parts, c), d, sc, start, start + Len(s) * step + 2, ph)
    BY BeatIs
  <2> QED BY <2>2, <2>3 DEF BeatFits, n
<1>16. Within(T, start, start + n * step + 2, ph, ph) /\ InOrder(T)
  BY <1>15 DEF Within, InOrder
<1>17. EachFits(T, d, sc, s, start, step, parts, ph)
  BY <1>13, <1>14, <1>16 DEF EachFits, X, n
<1> QED BY <1>17 DEF T

LEMMA EachPart ==
  ASSUME DemoAssumption, NEW d \in Demos, NEW sc, NEW Y, NEW s \in Seq(Y), NEW start \in Nat, NEW step \in Paces,
         NEW ph \in Nat, NEW parts, Shaped(s, parts, step, ph, d, sc), ph \notin {8, 12, 14}
  PROVE  /\ Part(Each(s, start, step, parts), d, sc, start, start + Len(s) * step + 2, ph, ph)
         /\ \A i \in DOMAIN s : \A k \in DOMAIN parts[i] : Has(Each(s, start, step, parts), parts[i][k][2], s[i])
<1> DEFINE T == Each(s, start, step, parts)
<1>0. EachFits(T, d, sc, s, start, step, parts, ph)
  BY EachIs
<1>1. /\ T \in Seq(Beats(d, sc)) /\ InOrder(T)
      /\ Within(T, start, start + Len(s) * step + 2, ph, ph)
  BY <1>0 DEF EachFits
<1>2. PICK at : Plays(at, T, s, start, step, parts)
  BY <1>0 DEF EachFits
<1> HIDE DEF T
<1>3. \A q \in DOMAIN T : Phase(T[q].type) \notin {8, 12, 14}
  BY <1>1 DEF Within
<1>4. Turns(T) /\ Opens(T) /\ EndsOnce(T)
  BY <1>3 DEF Turns, Opens, EndsOnce, Phase
<1>5. ASSUME NEW i \in DOMAIN s, NEW k \in DOMAIN parts[i] PROVE Has(T, parts[i][k][2], s[i])
  <2>1. <<i, k>> \in Spots(parts) /\ <<i, k>>[1] = i /\ <<i, k>>[2] = k
    BY LenProperties DEF Spots, Shaped
  <2>2. at[<<i, k>>] \in DOMAIN T /\ T[at[<<i, k>>]] = Beat(s, start, step, parts, <<i, k>>)
    BY <1>2, <2>1 DEF Plays
  <2>3. Beat(s, start, step, parts, <<i, k>>).type = parts[i][k][2] /\ Beat(s, start, step, parts, <<i, k>>).on = s[i]
    BY <2>1 DEF Beat, Timed
  <2> QED BY <2>2, <2>3 DEF Has
<1>6. Part(T, d, sc, start, start + Len(s) * step + 2, ph, ph)
  BY <1>1, <1>4 DEF Part
<1> QED BY <1>5, <1>6 DEF T

(* Two targets are verified one after the other.                            *)
SniperParts == << <<0, "SNIPER_TARGET_SELECTED">>, <<15, "SNIPER_CONFIRMED">> >>
LEMMA SniperPartsAre ==
  /\ DOMAIN SniperParts = 1..2
  /\ SniperParts[1][1] = 0 /\ SniperParts[1][2] = "SNIPER_TARGET_SELECTED"
  /\ SniperParts[2][1] = 15 /\ SniperParts[2][2] = "SNIPER_CONFIRMED"
BY DEF SniperParts

LEMMA SniperTurns ==
  ASSUME NEW Y, NEW s \in Seq(Y), NEW start \in Nat, NEW T, NEW at,
         Plays(at, T, s, start, 25, Alike(s, SniperParts)), DOMAIN T \subseteq Nat
  PROVE  Turns(T)
<1> DEFINE parts == Alike(s, SniperParts)
<1>1. DOMAIN s \subseteq Nat /\ \A i \in DOMAIN s : i >= 1
  BY LenProperties
<1>2. DOMAIN parts = DOMAIN s /\ \A i \in DOMAIN s : parts[i] = SniperParts
  BY DEF Alike
<1> HIDE DEF parts
<1>3. ASSUME NEW c \in Spots(parts)
      PROVE  /\ c[1] \in DOMAIN s /\ c[1] \in Nat /\ c[2] \in {1, 2}
             /\ T[at[c]].on = s[c[1]]
             /\ c[2] = 1 => T[at[c]].time = start + (c[1] - 1) * 25 + 0 /\ T[at[c]].type = "SNIPER_TARGET_SELECTED"
             /\ c[2] = 2 => T[at[c]].time = start + (c[1] - 1) * 25 + 15 /\ T[at[c]].type = "SNIPER_CONFIRMED"
  <2>1. c[1] \in DOMAIN s /\ parts[c[1]] = SniperParts
    BY <1>2 DEF Spots
  <2>2. c[2] \in 1..2
    BY <2>1, SniperPartsAre DEF Spots
  <2>3. T[at[c]] = Beat(s, start, 25, parts, c)
    BY DEF Plays, parts
  <2>4. c[2] = 1 \/ c[2] = 2
    BY <2>2
  <2>5. /\ T[at[c]].time = start + (c[1] - 1) * 25 + SniperParts[c[2]][1]
        /\ T[at[c]].type = SniperParts[c[2]][2] /\ T[at[c]].on = s[c[1]]
    BY <2>1, <2>3 DEF Beat, Timed
  <2> QED BY <1>1, <2>1, <2>4, <2>5, SniperPartsAre
<1> SUFFICES ASSUME NEW i \in DOMAIN T, NEW j \in DOMAIN T, i < j, T[i].type = "SNIPER_TARGET_SELECTED",
                    T[j].type = "SNIPER_TARGET_SELECTED"
             PROVE  ConfirmedBetween(T, i, j)
  BY DEF Turns
<1>4. PICK c \in Spots(parts), e \in Spots(parts) : at[c] = i /\ at[e] = j
  BY DEF Plays, parts
<1>5. c[2] = 1 /\ e[2] = 1
  <2>1. ASSUME NEW g \in Spots(parts), T[at[g]].type = "SNIPER_TARGET_SELECTED" PROVE g[2] = 1
    BY <1>3, <2>1
  <2> QED BY <1>4, <2>1
<1>6. Sooner(c, e)
  BY <1>4 DEF Plays, parts
<1>7. c[1] < e[1]
  BY <1>5, <1>6 DEF Sooner
<1> DEFINE m == <<c[1], 2>>
<1>8. m \in Spots(parts) /\ m[1] = c[1] /\ m[2] = 2
  BY <1>2, <1>3, SniperPartsAre DEF Spots
<1> HIDE DEF m
<1>9. Sooner(c, m) /\ Sooner(m, e)
  BY <1>5, <1>7, <1>8 DEF Sooner
<1>10. at[c] < at[m] /\ at[m] < at[e] /\ at[m] \in DOMAIN T
  BY <1>8, <1>9 DEF Plays, parts
<1>11. /\ T[i].time = start + (c[1] - 1) * 25 + 0 /\ T[i].on = s[c[1]]
       /\ T[at[m]].time = start + (c[1] - 1) * 25 + 15 /\ T[at[m]].on = s[c[1]] /\ T[at[m]].type = "SNIPER_CONFIRMED"
       /\ T[j].time = start + (e[1] - 1) * 25 + 0
  <2>1. T[i].time = start + (c[1] - 1) * 25 + 0 /\ T[i].on = s[c[1]]
    BY <1>3, <1>4, <1>5
  <2>2. T[at[m]].time = start + (c[1] - 1) * 25 + 15 /\ T[at[m]].on = s[c[1]] /\ T[at[m]].type = "SNIPER_CONFIRMED"
    BY <1>3, <1>8
  <2>3. T[j].time = start + (e[1] - 1) * 25 + 0
    BY <1>3, <1>4, <1>5
  <2> QED BY <2>1, <2>2, <2>3
<1>12. c[1] \in Nat /\ e[1] \in Nat
  BY <1>3
<1>13. T[i].time <= T[at[m]].time /\ T[at[m]].time <= T[j].time
  <2> DEFINE a == c[1]
             b == e[1]
  <2>1. T[i].time = start + (a - 1) * 25 + 0 /\ T[at[m]].time = start + (a - 1) * 25 + 15 /\ T[j].time = start + (b - 1) * 25 + 0
    BY <1>11
  <2>2. a \in Nat /\ b \in Nat /\ a < b
    BY <1>7, <1>12
  <2> HIDE DEF a, b
  <2> QED BY <2>1, <2>2
<1> QED BY <1>4, <1>10, <1>11, <1>13 DEF ConfirmedBetween

-----------------------------------------------------------------------------
(* What is said of a patch that is reviewed.                                *)
ReviewFits(r, d, sc, f) ==
  /\ \E n \in Nat : DOMAIN r = 1..n
  /\ \A k \in DOMAIN r :
       /\ r[k][1] \in 0..42 /\ r[k][2] \in Types /\ Phase(r[k][2]) = 12 /\ Allowed(d, sc, r[k][2], f)
       /\ r[k][2] = "REMEDIATION_PR_CREATED" =>
            k = 9 /\ r[9][1] = 42 /\ 8 \in DOMAIN r /\ r[8][1] = 38 /\ r[8][2] = "CRITIC_APPROVED"
  /\ f \notin RejectedIn(d, sc) => \E k \in DOMAIN r : r[k][2] = "REMEDIATION_PR_CREATED"

LEMMA RejectedIs ==
  ASSUME DemoAssumption, NEW d \in Demos, NEW sc, NEW i \in DOMAIN PatchedIn[d]
  PROVE  /\ PatchedIn[d][i] \in ToSet(PatchedIn[d])
         /\ PatchedIn[d][i] \in RejectedIn(d, sc) <=> sc # "full_approved" /\ Fails(d, PatchedIn[d][i], i)
<1>1. IsInjective(PatchedIn[d])
  BY DEF DemoAssumption
<1>2. \A j \in DOMAIN PatchedIn[d] : PatchedIn[d][j] = PatchedIn[d][i] => j = i
  BY <1>1 DEF IsInjective
<1>3. PatchedIn[d][i] \in ToSet(PatchedIn[d])
  BY DEF ToSet
<1> QED BY <1>2, <1>3 DEF RejectedIn

Approval == << <<34, "EXPLOIT_RETEST_COMPLETED">>, <<38, "CRITIC_APPROVED">>, <<42, "REMEDIATION_PR_CREATED">> >>
Rejection == << <<36, "CRITIC_REJECTED">> >>
LEMMA JudgementIs == Judgement(TRUE) = Rejection /\ Judgement(FALSE) = Approval
BY DEF Judgement, Rejection, Approval

Plain == {"BASELINE_CHECK_STARTED", "BASELINE_CHECK_COMPLETED", "PATCH_APPLY_STARTED", "PATCH_APPLIED",
          "BUILD_COMPLETED", "TESTS_COMPLETED", "EXPLOIT_RETEST_COMPLETED"}
Fitting(e, d, sc, f) == e[1] \in 0..42 /\ e[2] \in Types /\ Phase(e[2]) = 12 /\ Allowed(d, sc, e[2], f)
LEMMA PlainFits ==
  ASSUME NEW e, e[1] \in 0..42, e[2] \in Plain, NEW d, NEW sc, NEW f
  PROVE  Fitting(e, d, sc, f) /\ e[2] # "REMEDIATION_PR_CREATED"
<1>1. e[2] \in Types /\ Phase(e[2]) = 12
  BY DEF Plain, Types, Phase
<1>2. Allowed(d, sc, e[2], f) /\ e[2] # "REMEDIATION_PR_CREATED"
  BY DEF Plain, Allowed
<1> QED BY <1>1, <1>2 DEF Fitting

LEMMA RejectionFits ==
  ASSUME NEW e, e[1] \in 0..42, e[2] = "CRITIC_REJECTED", NEW d, NEW sc, NEW f \in RejectedIn(d, sc)
  PROVE  Fitting(e, d, sc, f) /\ e[2] # "REMEDIATION_PR_CREATED"
<1>1. e[2] \in Types /\ Phase(e[2]) = 12
  BY DEF Types, Phase
<1>2. Allowed(d, sc, e[2], f)
  BY DEF Allowed
<1> QED BY <1>1, <1>2 DEF Fitting

LEMMA ApprovalFits ==
  ASSUME NEW e, e[1] \in 0..42, e[2] \in {"CRITIC_APPROVED", "REMEDIATION_PR_CREATED"}, NEW d, NEW sc,
         NEW f \in ToSet(PatchedIn[d]) \ RejectedIn(d, sc)
  PROVE  Fitting(e, d, sc, f)
<1>1. e[2] \in Types /\ Phase(e[2]) = 12
  BY DEF Types, Phase
<1>2. Allowed(d, sc, e[2], f)
  BY DEF Allowed
<1> QED BY <1>1, <1>2 DEF Fitting

Concats(T, U, n, m) ==
  /\ DOMAIN (T \o U) = 1..(n + m)
  /\ \A k \in 1..n : (T \o U)[k] = T[k]
  /\ \A k \in 1..m : (T \o U)[n + k] = U[k]
LEMMA ConcatIs ==
  ASSUME NEW X, NEW T \in Seq(X), NEW U \in Seq(X), NEW n \in Nat, NEW m \in Nat, Len(T) = n, Len(U) = m
  PROVE  Concats(T, U, n, m)
<1>1. T \o U \in Seq(X) /\ Len(T \o U) = n + m
  BY ConcatProperties
<1>2. DOMAIN (T \o U) = 1..(n + m)
  BY <1>1, LenProperties
<1>3. \A k \in 1..(n + m) : (T \o U)[k] = IF k <= n THEN T[k] ELSE U[k - n]
  BY ConcatProperties
<1>4. ASSUME NEW k \in 1..n PROVE (T \o U)[k] = T[k]
  <2>1. k \in 1..(n + m) /\ k <= n
    OBVIOUS
  <2> QED BY <1>3, <2>1
<1>5. ASSUME NEW k \in 1..m PROVE (T \o U)[n + k] = U[k]
  <2>1. n + k \in 1..(n + m) /\ ~(n + k <= n) /\ (n + k) - n = k
    OBVIOUS
  <2> QED BY <1>3, <2>1
<1> QED BY <1>2, <1>4, <1>5 DEF Concats

LEMMA ChecksAre ==
  /\ ChecksRun \in Seq(Nat \X Types) /\ Len(ChecksRun) = 6
  /\ \A k \in 1..6 : ChecksRun[k][1] \in 0..42 /\ ChecksRun[k][2] \in Plain
<1>1. ChecksRun \in Seq(Nat \X Types) /\ Len(ChecksRun) = 6
  BY DEF ChecksRun, Types
<1>2. /\ ChecksRun[1][1] = 0 /\ ChecksRun[2][1] = 6 /\ ChecksRun[3][1] = 12
      /\ ChecksRun[4][1] = 18 /\ ChecksRun[5][1] = 24 /\ ChecksRun[6][1] = 30
  BY DEF ChecksRun
<1>3. /\ ChecksRun[1][2] \in Plain /\ ChecksRun[2][2] \in Plain /\ ChecksRun[3][2] \in Plain
      /\ ChecksRun[4][2] \in Plain /\ ChecksRun[5][2] \in Plain /\ ChecksRun[6][2] \in Plain
  BY DEF ChecksRun, Plain
<1>4. \A k \in 1..6 : k = 1 \/ k = 2 \/ k = 3 \/ k = 4 \/ k = 5 \/ k = 6
  OBVIOUS
<1> QED BY <1>1, <1>2, <1>3, <1>4

LEMMA ReviewIs ==
  ASSUME DemoAssumption, NEW d \in Demos, NEW sc \in Scenarios, NEW i \in DOMAIN PatchedIn[d]
  PROVE  ReviewFits(Review(d, sc, PatchedIn[d][i], i), d, sc, PatchedIn[d][i])
<1> DEFINE f == PatchedIn[d][i]
           r == Review(d, sc, f, i)
<1>0. f \in ToSet(PatchedIn[d]) /\ (f \in RejectedIn(d, sc) <=> sc # "full_approved" /\ Fails(d, f, i))
  BY RejectedIs
<1> HIDE DEF f
<1>1. CASE sc = "baseline_failed" /\ Fails(d, f, i)
  <2>1. r = BaselineFails
    BY <1>1 DEF Review
  <2>2. f \in RejectedIn(d, sc)
    BY <1>0, <1>1
  <2>3. /\ DOMAIN BaselineFails = 1..3 /\ BaselineFails[1][1] = 0 /\ BaselineFails[2][1] = 8 /\ BaselineFails[3][1] = 14
        /\ BaselineFails[1][2] = "BASELINE_CHECK_STARTED" /\ BaselineFails[2][2] = "BASELINE_CHECK_COMPLETED"
        /\ BaselineFails[3][2] = "CRITIC_REJECTED"
    BY DEF BaselineFails
  <2>4. \A k \in 1..3 : k = 1 \/ k = 2 \/ k = 3
    OBVIOUS
  <2>5. ASSUME NEW k \in 1..3
        PROVE  Fitting(BaselineFails[k], d, sc, f) /\ BaselineFails[k][2] # "REMEDIATION_PR_CREATED"
    <3>1. CASE k = 1
      BY <2>3, <3>1, PlainFits DEF Plain
    <3>2. CASE k = 2
      BY <2>3, <3>2, PlainFits DEF Plain
    <3>3. CASE k = 3
      BY <2>2, <2>3, <3>3, RejectionFits
    <3> QED BY <2>4, <3>1, <3>2, <3>3
  <2>6. 3 \in Nat
    OBVIOUS
  <2> QED BY <2>1, <2>2, <2>3, <2>5, <2>6 DEF ReviewFits, Fitting, f
<1>2. CASE ~(sc = "baseline_failed" /\ Fails(d, f, i)) /\ sc = "critic_rejected" /\ Fails(d, f, i)
  <2>1. r = ChecksRun \o Rejection
    BY <1>2, JudgementIs DEF Review
  <2>2. f \in RejectedIn(d, sc)
    BY <1>0, <1>2
  <2>3. Rejection \in Seq(Nat \X Types) /\ Len(Rejection) = 1 /\ Rejection[1][1] = 36 /\ Rejection[1][2] = "CRITIC_REJECTED"
    BY DEF Rejection, Types
  <2>4. DOMAIN r = 1..7 /\ (\A k \in 1..6 : r[k] = ChecksRun[k]) /\ r[7] = Rejection[1]
    <3>1. 6 \in Nat /\ 1 \in Nat /\ 6 + 1 = 7 /\ 1 \in 1..1
      OBVIOUS
    <3>2. Concats(ChecksRun, Rejection, 6, 1)
      BY <2>3, <3>1, ChecksAre, ConcatIs
    <3>3. DOMAIN (ChecksRun \o Rejection) = 1..7
      BY <3>1, <3>2 DEF Concats
    <3>4. \A k \in 1..6 : (ChecksRun \o Rejection)[k] = ChecksRun[k]
      BY <3>2 DEF Concats
    <3>5. (ChecksRun \o Rejection)[7] = Rejection[1]
      BY <3>1, <3>2 DEF Concats
    <3> QED BY <2>1, <3>3, <3>4, <3>5
  <2>5. \A k \in 1..7 : k \in 1..6 \/ k = 7
    OBVIOUS
  <2>6. ASSUME NEW k \in 1..7
        PROVE  Fitting(r[k], d, sc, f) /\ r[k][2] # "REMEDIATION_PR_CREATED"
    <3>1. CASE k \in 1..6
      BY <2>4, <3>1, ChecksAre, PlainFits
    <3>2. CASE k = 7
      BY <2>2, <2>3, <2>4, <3>2, RejectionFits
    <3> QED BY <2>5, <3>1, <3>2
  <2>7. 7 \in Nat
    OBVIOUS
  <2> HIDE DEF r
  <2>8. ReviewFits(r, d, sc, f)
    BY <2>2, <2>4, <2>6, <2>7 DEF ReviewFits, Fitting
  <2> QED BY <2>8 DEF r, f
<1>3. CASE ~(sc = "baseline_failed" /\ Fails(d, f, i)) /\ ~(sc = "critic_rejected" /\ Fails(d, f, i))
  <2>2. f \notin RejectedIn(d, sc)
    BY <1>0, <1>3 DEF DemoAssumption
  <2>1. r = ChecksRun \o Approval
    BY <1>3, JudgementIs DEF Review
  <2>3. /\ Approval \in Seq(Nat \X Types) /\ Len(Approval) = 3
        /\ Approval[1][1] = 34 /\ Approval[1][2] \in Plain
        /\ Approval[2][1] = 38 /\ Approval[2][2] = "CRITIC_APPROVED"
        /\ Approval[3][1] = 42 /\ Approval[3][2] = "REMEDIATION_PR_CREATED"
    BY DEF Approval, Types, Plain
  <2>4. /\ DOMAIN r = 1..9 /\ (\A k \in 1..6 : r[k] = ChecksRun[k])
        /\ r[7] = Approval[1] /\ r[8] = Approval[2] /\ r[9] = Approval[3]
    <3>1. 6 \in Nat /\ 3 \in Nat
      OBVIOUS
    <3>2. 6 + 1 = 7 /\ 6 + 2 = 8 /\ 6 + 3 = 9 /\ 1 \in 1..3 /\ 2 \in 1..3 /\ 3 \in 1..3
      OBVIOUS
    <3>3. Concats(ChecksRun, Approval, 6, 3)
      BY <2>3, <3>1, ChecksAre, ConcatIs
    <3>4. DOMAIN (ChecksRun \o Approval) = 1..9
      BY <3>2, <3>3 DEF Concats
    <3>5. \A k \in 1..6 : (ChecksRun \o Approval)[k] = ChecksRun[k]
      BY <3>3 DEF Concats
    <3>6. /\ (ChecksRun \o Approval)[7] = Approval[1] /\ (ChecksRun \o Approval)[8] = Approval[2]
          /\ (ChecksRun \o Approval)[9] = Approval[3]
      BY <3>2, <3>3 DEF Concats
    <3> QED BY <2>1, <3>4, <3>5, <3>6
  <2>5. \A k \in 1..9 : k \in 1..6 \/ k = 7 \/ k = 8 \/ k = 9
    OBVIOUS
  <2>6. ASSUME NEW k \in 1..9
        PROVE  Fitting(r[k], d, sc, f) /\ (r[k][2] = "REMEDIATION_PR_CREATED" => k = 9)
    <3>1. CASE k \in 1..6
      BY <2>4, <3>1, ChecksAre, PlainFits
    <3>2. CASE k = 7
      BY <2>3, <2>4, <3>2, PlainFits
    <3>3. CASE k = 8
      BY <1>0, <2>2, <2>3, <2>4, <3>3, ApprovalFits
    <3>4. CASE k = 9
      BY <1>0, <2>2, <2>3, <2>4, <3>4, ApprovalFits
    <3> QED BY <2>5, <3>1, <3>2, <3>3, <3>4
  <2>7. 9 \in Nat /\ 9 \in 1..9 /\ 8 \in 1..9
    OBVIOUS
  <2>8. r[9][1] = 42 /\ r[8][1] = 38 /\ r[8][2] = "CRITIC_APPROVED" /\ r[9][2] = "REMEDIATION_PR_CREATED"
    BY <2>3, <2>4
  <2> HIDE DEF r
  <2>9. ReviewFits(r, d, sc, f)
    BY <2>4, <2>6, <2>7, <2>8 DEF ReviewFits, Fitting
  <2> QED BY <2>9 DEF r, f
<1> QED BY <1>1, <1>2, <1>3

(* A pull request is opened after its patch was approved.                   *)
LEMMA CriticOpens ==
  ASSUME DemoAssumption, NEW d \in Demos, NEW sc, NEW Y, NEW s \in Seq(Y), NEW start \in Nat, NEW parts, NEW T, NEW at,
         Plays(at, T, s, start, 40, parts), DOMAIN T \subseteq Nat, DOMAIN parts = DOMAIN s,
         \A i \in DOMAIN s : ReviewFits(parts[i], d, sc, s[i])
  PROVE  Opens(T)
<1>1. DOMAIN s \subseteq Nat /\ \A i \in DOMAIN s : i >= 1
  BY LenProperties
<1>2. SUFFICES ASSUME NEW j \in DOMAIN T, T[j].type = "REMEDIATION_PR_CREATED" PROVE ApprovedBefore(T, j)
  BY DEF Opens
<1>3. PICK e \in Spots(parts) : at[e] = j
  BY DEF Plays
<1>4. e[1] \in DOMAIN s /\ e[2] \in DOMAIN parts[e[1]] /\ e[1] \in Nat
  BY <1>1 DEF Spots
<1>5. T[j] = Beat(s, start, 40, parts, e)
  BY <1>3 DEF Plays
<1>6. parts[e[1]][e[2]][2] = "REMEDIATION_PR_CREATED"
  BY <1>2, <1>5 DEF Beat, Timed
<1>7. e[2] = 9 /\ parts[e[1]][9][1] = 42 /\ 8 \in DOMAIN parts[e[1]] /\ parts[e[1]][8][1] = 38
      /\ parts[e[1]][8][2] = "CRITIC_APPROVED"
  BY <1>4, <1>6 DEF ReviewFits
<1> DEFINE c == <<e[1], 8>>
<1>8. c \in Spots(parts) /\ c[1] = e[1] /\ c[2] = 8
  BY <1>4, <1>7 DEF Spots
<1> HIDE DEF c
<1>9. Sooner(c, e)
  BY <1>7, <1>8 DEF Sooner
<1>10. at[c] < j /\ at[c] \in DOMAIN T
  BY <1>3, <1>8, <1>9 DEF Plays
<1>11. T[at[c]] = Beat(s, start, 40, parts, c)
  BY <1>8 DEF Plays
<1>12. /\ T[at[c]].time = start + (e[1] - 1) * 40 + 38 /\ T[j].time = start + (e[1] - 1) * 40 + 42
       /\ T[at[c]].type = "CRITIC_APPROVED" /\ T[at[c]].on = s[e[1]] /\ T[j].on = s[e[1]]
  BY <1>5, <1>7, <1>8, <1>11 DEF Beat, Timed
<1>13. T[at[c]].time <= T[j].time
  BY <1>4, <1>12
<1> QED BY <1>10, <1>12, <1>13 DEF ApprovedBefore

LEMMA FlatPart ==
  ASSUME NEW d, NEW sc, NEW T \in Seq(Beats(d, sc)), NEW lo, NEW hi, NEW ph \in Nat, Within(T, lo, hi, ph, ph),
         ph \notin {8, 12, 14}
  PROVE  Part(T, d, sc, lo, hi, ph, ph)
<1>1. \A q \in DOMAIN T : Phase(T[q].type) = ph
  BY DEF Within
<1>2. InOrder(T)
  BY <1>1 DEF InOrder
<1>3. Turns(T) /\ Opens(T) /\ EndsOnce(T)
  BY <1>1 DEF Turns, Opens, EndsOnce, Phase
<1> QED BY <1>2, <1>3 DEF Part

Keeps(T, U) == \A y, f : Has(T, y, f) => Has(U, y, f)
LEMMA JoinKeeps ==
  ASSUME NEW d, NEW sc, NEW lo, NEW hi, NEW a, NEW b, NEW T, Part(T, d, sc, lo, hi, a, b),
         NEW next, NEW last, NEW c, NEW e, NEW U, Part(U, d, sc, next, last, c, e)
  PROVE  Keeps(T, T \o U) /\ Keeps(U, T \o U)
<1>1. T \in Seq(Beats(d, sc)) /\ U \in Seq(Beats(d, sc))
  BY DEF Part
<1> QED BY <1>1, HasJoins DEF Keeps

(* What is said of a list, between a beginning and an end.                  *)
Framed(t, y, T, u, z) == <<Timed(t, y, "none")>> \o T \o <<Timed(u, z, "none")>>
Border(y, a, d, sc) == y \in Types /\ Phase(y) = a /\ Allowed(d, sc, y, "none")
Frames(t, y, T, u, z, d, sc, lo, hi, ph, a, b) ==
  Part(Framed(t, y, T, u, z), d, sc, t, u, a, b) /\ Keeps(T, Framed(t, y, T, u, z))
LEMMA BorderPart ==
  ASSUME DemoAssumption, NEW d \in Demos, NEW sc, NEW y, NEW a, Border(y, a, d, sc), NEW t \in Nat
  PROVE  Part(<<Timed(t, y, "none")>>, d, sc, t, t, a, a)
BY SinglePart DEF Border
LEMMA FramedIs ==
  ASSUME DemoAssumption, NEW d \in Demos, NEW sc, NEW y, NEW z, NEW t \in Nat, NEW u \in Nat, NEW a, NEW b,
         Border(y, a, d, sc), Border(z, b, d, sc),
         NEW lo \in Nat, NEW hi \in Nat, NEW ph \in Nat, NEW T, Part(T, d, sc, lo, hi, ph, ph),
         t <= lo, lo <= hi, hi <= u, a < ph, ph <= b, ph = b => ph \notin {8, 12, 14}
  PROVE  Frames(t, y, T, u, z, d, sc, lo, hi, ph, a, b)
<1> DEFINE g == <<Timed(t, y, "none")>>
           e == <<Timed(u, z, "none")>>
<1>1. Part(g, d, sc, t, t, a, a) /\ Part(e, d, sc, u, u, b, b)
  BY BorderPart
<1>2. a \in Nat /\ b \in Nat
  BY PhaseIs DEF Border
<1> HIDE DEF g, e
<1>3. Part(g \o T, d, sc, t, hi, a, ph)
  <2>1. t <= hi /\ a <= ph /\ a # ph
    BY <1>2
  <2> QED BY <1>1, <1>2, <2>1, PartJoins
<1>4. Part((g \o T) \o e, d, sc, t, u, a, b)
  <2>1. t <= u
    BY <1>2
  <2> QED BY <1>1, <1>2, <1>3, <2>1, PartJoins
<1>5. Keeps(T, g \o T) /\ Keeps(g \o T, (g \o T) \o e)
  BY <1>1, <1>3, JoinKeeps
<1>6. Keeps(T, (g \o T) \o e)
  BY <1>5 DEF Keeps
<1> QED BY <1>4, <1>6 DEF Frames, Framed, g, e

-----------------------------------------------------------------------------
(* When the parts of a script begin and end.                                *)
LEMMA TimesAre ==
  ASSUME DemoAssumption, NEW d \in Demos
  PROVE  /\ ScannerDone(d) \in Nat /\ ScoutStart(d) \in Nat /\ ScoutDone(d) \in Nat
         /\ PlannerStart(d) \in Nat /\ PlannerDone(d) \in Nat /\ SniperStart(d) \in Nat /\ SniperDone(d) \in Nat
         /\ EngineerStart(d) \in Nat /\ EngineerDone(d) \in Nat /\ CriticStart(d) \in Nat /\ CriticDone(d) \in Nat
<1>1. Len(FindingsIn[d]) \in Nat /\ Len(PlannedIn[d]) \in Nat /\ Len(ExploitedIn[d]) \in Nat /\ Len(PatchedIn[d]) \in Nat
  BY DemoLists
<1>2. ScannerDone(d) \in Nat
  BY <1>1 DEF ScannerDone
<1>3. ScoutStart(d) \in Nat
  BY <1>2 DEF ScoutStart
<1>4. ScoutDone(d) \in Nat
  BY <1>1, <1>3 DEF ScoutDone
<1>5. PlannerStart(d) \in Nat
  BY <1>4 DEF PlannerStart
<1>6. PlannerDone(d) \in Nat
  BY <1>1, <1>5 DEF PlannerDone
<1>7. SniperStart(d) \in Nat
  BY <1>6 DEF SniperStart
<1>8. SniperDone(d) \in Nat
  BY <1>1, <1>7 DEF SniperDone
<1>9. EngineerStart(d) \in Nat
  BY <1>8 DEF EngineerStart
<1>10. EngineerDone(d) \in Nat
  BY <1>1, <1>9 DEF EngineerDone
<1>11. CriticStart(d) \in Nat
  BY <1>10 DEF CriticStart
<1>12. CriticDone(d) \in Nat
  BY <1>1, <1>11 DEF CriticDone
<1> QED BY <1>2, <1>3, <1>4, <1>5, <1>6, <1>7, <1>8, <1>9, <1>10, <1>11, <1>12

(* A list of which each finding has the same said of it.                    *)
Said(parts, n, s, step, ph, d, sc) ==
  /\ DOMAIN parts = 1..n
  /\ \A k \in 1..n : /\ parts[k][1] \in 0..(step + 2) /\ parts[k][2] \in Types /\ Phase(parts[k][2]) = ph
                     /\ \A f \in ToSet(s) : Allowed(d, sc, parts[k][2], f)
Says(T, s, y) == \A f \in ToSet(s) : Has(T, y, f)
Tells(T, parts, n, d, sc, s, start, step, ph) ==
  /\ Part(T, d, sc, start, start + Len(s) * step + 2, ph, ph)
  /\ \A k \in 1..n : Says(T, s, parts[k][2])
LEMMA AlikePart ==
  ASSUME DemoAssumption, NEW d \in Demos, NEW sc, NEW s, s \in Seq(ToSet(s)), ToSet(s) \subseteq ToSet(FindingsIn[d]),
         NEW start \in Nat, NEW step \in Paces, NEW ph \in Nat, ph \notin {8, 12, 14}, NEW parts, NEW n \in Nat,
         Said(parts, n, s, step, ph, d, sc)
  PROVE  Tells(Each(s, start, step, Alike(s, parts)), parts, n, d, sc, s, start, step, ph)
<1>1. DOMAIN Alike(s, parts) = DOMAIN s /\ \A i \in DOMAIN s : Alike(s, parts)[i] = parts
  BY DEF Alike
<1>2. \A i \in DOMAIN s : s[i] \in ToSet(s)
  BY DEF ToSet
<1>3. Shaped(s, Alike(s, parts), step, ph, d, sc)
  BY <1>1, <1>2 DEF Shaped, Said
<1>4. /\ Part(Each(s, start, step, Alike(s, parts)), d, sc, start, start + Len(s) * step + 2, ph, ph)
      /\ \A i \in DOMAIN s : \A k \in DOMAIN Alike(s, parts)[i] :
           Has(Each(s, start, step, Alike(s, parts)), Alike(s, parts)[i][k][2], s[i])
  BY <1>3, EachPart
<1>5. ASSUME NEW k \in 1..n, NEW f \in ToSet(s) PROVE Has(Each(s, start, step, Alike(s, parts)), parts[k][2], f)
  <2>1. PICK i \in DOMAIN s : s[i] = f
    BY DEF ToSet
  <2> QED BY <1>1, <1>4, <2>1 DEF Said
<1> QED BY <1>4, <1>5 DEF Tells, Says

(* The part about the scanner.                                              *)
Discovers == << <<0, "SCANNER_FINDING_DISCOVERED">> >>
Opening ==
  <<Timed(5, "SCAN_STARTED", "none"), Timed(20, "ANALYZER_STARTED", "none"),
    Timed(50, "ANALYZER_COMPLETED", "none"), Timed(70, "SCANNER_STARTED", "none")>>
LEMMA OpeningIs ==
  ASSUME DemoAssumption, NEW d \in Demos, NEW sc
  PROVE  Part(Opening, d, sc, 5, 70, 1, 1)
<1>1. /\ Timed(5, "SCAN_STARTED", "none") \in Beats(d, sc) /\ Timed(20, "ANALYZER_STARTED", "none") \in Beats(d, sc)
      /\ Timed(50, "ANALYZER_COMPLETED", "none") \in Beats(d, sc) /\ Timed(70, "SCANNER_STARTED", "none") \in Beats(d, sc)
  BY DEF Timed, Beats, Types, Allowed
<1>2. /\ Opening \in Seq(Beats(d, sc)) /\ DOMAIN Opening = 1..4
      /\ Opening[1] = Timed(5, "SCAN_STARTED", "none") /\ Opening[2] = Timed(20, "ANALYZER_STARTED", "none")
      /\ Opening[3] = Timed(50, "ANALYZER_COMPLETED", "none") /\ Opening[4] = Timed(70, "SCANNER_STARTED", "none")
  BY <1>1 DEF Opening
<1>3. \A i \in 1..4 : i = 1 \/ i = 2 \/ i = 3 \/ i = 4
  OBVIOUS
<1>4. /\ Opening[1].time = 5 /\ Opening[2].time = 20 /\ Opening[3].time = 50 /\ Opening[4].time = 70
      /\ Phase(Opening[1].type) = 1 /\ Phase(Opening[2].type) = 1
      /\ Phase(Opening[3].type) = 1 /\ Phase(Opening[4].type) = 1
  BY <1>2 DEF Timed, Phase
<1>5. Within(Opening, 5, 70, 1, 1)
  BY <1>2, <1>3, <1>4 DEF Within
<1> QED BY <1>2, <1>5, FlatPart

LEMMA SaysKept ==
  ASSUME NEW T, NEW U, Keeps(T, U), NEW s, NEW y, Says(T, s, y)
  PROVE  Says(U, s, y)
BY DEF Says, Keeps

LEMMA ScanPart ==
  ASSUME DemoAssumption, NEW d \in Demos, NEW sc
  PROVE  /\ Part(ScanScript(d), d, sc, 5, ScannerDone(d), 1, 3)
         /\ Says(ScanScript(d), FindingsIn[d], "SCANNER_FINDING_DISCOVERED")
<1> DEFINE s == FindingsIn[d]
           E == Each(s, 85, 15, Alike(s, Discovers))
           e == <<Timed(ScannerDone(d), "SCANNER_COMPLETED", "none")>>
<1>1. s \in Seq(ToSet(s)) /\ Len(s) \in Nat
  BY DemoLists
<1>2. /\ DOMAIN Discovers = 1..1 /\ Discovers[1][1] = 0 /\ Discovers[1][2] = "SCANNER_FINDING_DISCOVERED"
      /\ \A k \in 1..1 : k = 1
  BY DEF Discovers
<1>3. Phase("SCANNER_FINDING_DISCOVERED") = 2 /\ "SCANNER_FINDING_DISCOVERED" \in Types
  BY DEF Phase, Types
<1>4. \A f : Allowed(d, sc, "SCANNER_FINDING_DISCOVERED", f)
  BY DEF Allowed
<1>5. 15 \in Paces /\ 1 \in 1..1 /\ 0 \in 0..(15 + 2)
  BY DEF Paces
<1>6. Part(E, d, sc, 85, 85 + Len(s) * 15 + 2, 2, 2) /\ Says(E, s, Discovers[1][2])
  <2>1. ToSet(s) \subseteq ToSet(FindingsIn[d])
    OBVIOUS
  <2> HIDE DEF s
  <2>2. Said(Discovers, 1, s, 15, 2, d, sc)
    BY <1>2, <1>3, <1>4, <1>5 DEF Said
  <2>3. 1 \in Nat /\ 85 \in Nat /\ 2 \in Nat /\ 2 \notin {8, 12, 14}
    OBVIOUS
  <2>4. Tells(E, Discovers, 1, d, sc, s, 85, 15, 2)
    BY <1>1, <1>5, <2>1, <2>2, <2>3, AlikePart
  <2> QED BY <1>5, <2>4 DEF Tells
<1>7. Part(e, d, sc, ScannerDone(d), ScannerDone(d), 3, 3)
  <2>1. Border("SCANNER_COMPLETED", 3, d, sc)
    BY DEF Border, Types, Phase, Allowed
  <2>2. ScannerDone(d) \in Nat
    BY TimesAre
  <2> QED BY <2>1, <2>2, BorderPart
<1>8. ScannerDone(d) = 85 + Len(s) * 15 + 10
  BY DEF ScannerDone
<1>9. Part(Opening, d, sc, 5, 70, 1, 1)
  BY OpeningIs
<1>10. ScanScript(d) = (Opening \o E) \o e
  BY DEF ScanScript, Opening, Discovers
<1> DEFINE n == Len(s)
<1> HIDE DEF s, E, e
<1>11. Part(Opening \o E, d, sc, 5, 85 + n * 15 + 2, 1, 2)
  <2>1. 85 + n * 15 + 2 \in Nat /\ 70 <= 85 + n * 15 + 2
    BY <1>1
  <2> HIDE DEF n
  <2>2. Part(E, d, sc, 85, 85 + n * 15 + 2, 2, 2)
    BY <1>6 DEF n
  <2> QED BY <1>9, <2>1, <2>2, PartJoins
<1>12. Part((Opening \o E) \o e, d, sc, 5, ScannerDone(d), 1, 3)
  <2>1. 85 + n * 15 + 2 \in Nat /\ 85 + n * 15 + 2 <= ScannerDone(d) /\ 5 <= ScannerDone(d) /\ ScannerDone(d) \in Nat
    BY <1>1, <1>8
  <2> HIDE DEF n
  <2> QED BY <1>7, <1>11, <2>1, PartJoins
<1>13. Keeps(E, Opening \o E)
  BY <1>6, <1>9, JoinKeeps
<1>14. Keeps(Opening \o E, (Opening \o E) \o e)
  BY <1>7, <1>11, JoinKeeps
<1>15. Says(E, s, "SCANNER_FINDING_DISCOVERED")
  BY <1>2, <1>6
<1>16. Says((Opening \o E) \o e, s, "SCANNER_FINDING_DISCOVERED")
  BY <1>13, <1>14, <1>15, SaysKept
<1> QED BY <1>10, <1>12, <1>16 DEF s

LEMMA SandboxPart ==
  ASSUME DemoAssumption, NEW d \in Demos, NEW sc
  PROVE  Part(SandboxScript(d), d, sc, ScannerDone(d) + 15, ScannerDone(d) + 45, 3, 3)
<1> DEFINE n == ScannerDone(d)
<1>1. n \in Nat
  BY TimesAre
<1>2. Border("SANDBOX_PROVISIONING", 3, d, sc) /\ Border("SANDBOX_READY", 3, d, sc)
  BY DEF Border, Types, Phase, Allowed
<1> DEFINE e == Timed(n + 15, "SANDBOX_PROVISIONING", "none")
           g == Timed(n + 45, "SANDBOX_READY", "none")
<1>3. n + 15 \in Nat /\ n + 45 \in Nat /\ n + 15 <= n + 45
  BY <1>1
<1>4. Part(<<e>>, d, sc, n + 15, n + 15, 3, 3) /\ Part(<<g>>, d, sc, n + 45, n + 45, 3, 3)
  <2> HIDE DEF n
  <2> QED BY <1>2, <1>3, BorderPart
<1> HIDE DEF e, g, n
<1>5. Part(<<e>> \o <<g>>, d, sc, n + 15, n + 45, 3, 3)
  BY <1>3, <1>4, PartJoins
<1>6. <<e>> \o <<g>> = <<e, g>>
  BY PairIs
<1> QED BY <1>5, <1>6 DEF SandboxScript, n, e, g

Scouts == << <<0, "SCOUT_TARGET_STARTED">>, <<8, "SCOUT_ENDPOINT_DISCOVERED">>,
             <<16, "SCOUT_EVIDENCE_COLLECTED">>, <<22, "SCOUT_TARGET_COMPLETED">> >>
LEMMA ScoutPart ==
  ASSUME DemoAssumption, NEW d \in Demos, NEW sc
  PROVE  Part(ScoutScript(d), d, sc, ScoutStart(d), ScoutDone(d), 3, 5)
<1> DEFINE s == FindingsIn[d]
           t == ScoutStart(d)
           E == Each(s, t + 10, 25, Alike(s, Scouts))
<1>1. s \in Seq(ToSet(s)) /\ Len(s) \in Nat /\ "none" \notin ToSet(s)
  BY DemoLists
<1>2. DOMAIN Scouts = 1..4 /\ 1 \in 1..4 /\ 4 \in Nat
  BY DEF Scouts
<1>3. /\ Scouts[1][1] = 0 /\ Scouts[2][1] = 8 /\ Scouts[3][1] = 16 /\ Scouts[4][1] = 22
      /\ Scouts[1][2] = "SCOUT_TARGET_STARTED" /\ Scouts[2][2] = "SCOUT_ENDPOINT_DISCOVERED"
      /\ Scouts[3][2] = "SCOUT_EVIDENCE_COLLECTED" /\ Scouts[4][2] = "SCOUT_TARGET_COMPLETED"
  BY DEF Scouts
<1>4. \A k \in 1..4 : k = 1 \/ k = 2 \/ k = 3 \/ k = 4
  OBVIOUS
<1>5. \A k \in 1..4 : Scouts[k][1] \in 0..(25 + 2) /\ Scouts[k][2] \in Types /\ Phase(Scouts[k][2]) = 4
  <2> TAKE k \in 1..4
  <2>1. Scouts[k][1] \in {0, 8, 16, 22}
    BY <1>3, <1>4
  <2>2. Scouts[k][2] \in {"SCOUT_TARGET_STARTED", "SCOUT_ENDPOINT_DISCOVERED", "SCOUT_EVIDENCE_COLLECTED", "SCOUT_TARGET_COMPLETED"}
    BY <1>3, <1>4
  <2>3. Scouts[k][1] \in 0..(25 + 2)
    BY <2>1
  <2> QED BY <2>2, <2>3 DEF Types, Phase
<1>6. \A k \in 1..4 : \A f \in ToSet(s) : Allowed(d, sc, Scouts[k][2], f)
  <2> TAKE k \in 1..4
  <2> TAKE f \in ToSet(s)
  <2>1. Scouts[k][2] \in {"SCOUT_TARGET_STARTED", "SCOUT_ENDPOINT_DISCOVERED", "SCOUT_EVIDENCE_COLLECTED", "SCOUT_TARGET_COMPLETED"}
    BY <1>3, <1>4
  <2>2. f # "none"
    BY <1>1
  <2> QED BY <2>1, <2>2 DEF Allowed
<1>7. t \in Nat /\ ScoutDone(d) \in Nat
  BY TimesAre
<1>8. ScoutDone(d) = t + 10 + Len(s) * 25 + 10
  BY DEF ScoutDone
<1>9. ToSet(s) \subseteq ToSet(FindingsIn[d]) /\ 25 \in Paces
  BY DEF Paces
<1>10. ScoutScript(d) = Framed(t, "SCOUT_STARTED", E, ScoutDone(d), "SCOUT_COMPLETED")
  BY DEF ScoutScript, Framed, Scouts
<1> DEFINE n == Len(s)
           u == ScoutDone(d)
<1> HIDE DEF s, t
<1>11. t + 10 \in Nat
  BY <1>7
<1>12. Part(E, d, sc, t + 10, t + 10 + n * 25 + 2, 4, 4)
  <2>1. Said(Scouts, 4, s, 25, 4, d, sc)
    BY <1>2, <1>5, <1>6 DEF Said
  <2>2. 4 \in Nat /\ 4 \in Nat /\ 4 \notin {8, 12, 14}
    OBVIOUS
  <2>3. Tells(E, Scouts, 4, d, sc, s, t + 10, 25, 4)
    BY <1>1, <1>9, <1>11, <2>1, <2>2, AlikePart
  <2> QED BY <1>2, <2>3 DEF Tells
<1>13. Border("SCOUT_STARTED", 3, d, sc) /\ Border("SCOUT_COMPLETED", 5, d, sc)
  BY DEF Border, Types, Phase, Allowed
<1>14. n \in Nat /\ u \in Nat /\ u = t + 10 + n * 25 + 10
  BY <1>1, <1>7, <1>8
<1> HIDE DEF E, n, u
<1>15. /\ t + 10 + n * 25 + 2 \in Nat /\ t <= t + 10 /\ t + 10 + n * 25 + 2 <= u /\ t <= u
       /\ t + 10 <= t + 10 + n * 25 + 2
  BY <1>7, <1>14
<1>16. Part(Framed(t, "SCOUT_STARTED", E, u, "SCOUT_COMPLETED"), d, sc, t, u, 3, 5)
  <2> DEFINE lo == t + 10
             hi == t + 10 + n * 25 + 2
  <2>1. t \in Nat /\ u \in Nat /\ lo \in Nat /\ hi \in Nat /\ t <= lo /\ lo <= hi /\ hi <= u
    BY <1>7, <1>11, <1>14, <1>15
  <2>2. Part(E, d, sc, lo, hi, 4, 4)
    BY <1>12
  <2> HIDE DEF lo, hi
  <2>3. 4 \in Nat /\ 3 < 4 /\ 4 <= 5 /\ 4 \notin {8, 12, 14}
    OBVIOUS
  <2>4. Frames(t, "SCOUT_STARTED", E, u, "SCOUT_COMPLETED", d, sc, lo, hi, 4, 3, 5)
    BY <1>13, <2>1, <2>2, <2>3, FramedIs
  <2> QED BY <2>4 DEF Frames
<1> QED BY <1>10, <1>16 DEF t, u

Plans == << <<0, "PLANNER_COMPLETED">> >>
LEMMA PlannerPart ==
  ASSUME DemoAssumption, NEW d \in Demos, NEW sc
  PROVE  /\ Part(PlannerScript(d), d, sc, PlannerStart(d), PlannerDone(d), 5, 6)
         /\ Says(PlannerScript(d), PlannedIn[d], "PLANNER_COMPLETED")
<1> DEFINE s == PlannedIn[d]
           t == PlannerStart(d)
           E == Each(s, t + 10, 15, Alike(s, Plans))
<1>1. s \in Seq(ToSet(s)) /\ Len(s) \in Nat /\ ToSet(s) \subseteq ToSet(FindingsIn[d])
  BY DemoLists
<1>2. DOMAIN Plans = 1..1 /\ 1 \in 1..1 /\ Plans[1][1] = 0 /\ Plans[1][2] = "PLANNER_COMPLETED"
  BY DEF Plans
<1>4. \A k \in 1..1 : k = 1
  OBVIOUS
<1>5. \A k \in 1..1 : Plans[k][1] \in 0..(15 + 2) /\ Plans[k][2] \in Types /\ Phase(Plans[k][2]) = 6
  BY <1>2, <1>4 DEF Types, Phase
<1>6. \A k \in 1..1 : \A f \in ToSet(s) : Allowed(d, sc, Plans[k][2], f)
  BY <1>2, <1>4 DEF Allowed
<1>7. t \in Nat /\ PlannerDone(d) \in Nat
  BY TimesAre
<1>8. PlannerDone(d) = t + 10 + Len(s) * 15 + 10
  BY DEF PlannerDone
<1>9. 15 \in Paces
  BY DEF Paces
<1>10. PlannerScript(d) = Framed(t, "PLANNER_STARTED", E, PlannerDone(d), "PLANNER_COMPLETED")
  BY DEF PlannerScript, Framed, Plans
<1> DEFINE n == Len(s)
           u == PlannerDone(d)
<1> HIDE DEF s, t
<1>11. t + 10 \in Nat
  BY <1>7
<1>12. Part(E, d, sc, t + 10, t + 10 + n * 15 + 2, 6, 6) /\ Says(E, s, Plans[1][2])
  <2>1. Said(Plans, 1, s, 15, 6, d, sc)
    BY <1>2, <1>5, <1>6 DEF Said
  <2>2. 1 \in Nat /\ 6 \in Nat /\ 6 \notin {8, 12, 14}
    OBVIOUS
  <2>3. Tells(E, Plans, 1, d, sc, s, t + 10, 15, 6)
    BY <1>1, <1>9, <1>11, <2>1, <2>2, AlikePart
  <2> QED BY <1>2, <2>3 DEF Tells
<1>13. Border("PLANNER_STARTED", 5, d, sc) /\ Border("PLANNER_COMPLETED", 6, d, sc)
  BY DEF Border, Types, Phase, Allowed
<1>14. n \in Nat /\ u \in Nat /\ u = t + 10 + n * 15 + 10
  BY <1>1, <1>7, <1>8
<1> HIDE DEF E, n, u
<1>15. /\ t + 10 + n * 15 + 2 \in Nat /\ t <= t + 10 /\ t + 10 + n * 15 + 2 <= u /\ t <= u
       /\ t + 10 <= t + 10 + n * 15 + 2
  BY <1>7, <1>14
<1> DEFINE F == Framed(t, "PLANNER_STARTED", E, u, "PLANNER_COMPLETED")
<1>16. Part(F, d, sc, t, u, 5, 6) /\ Keeps(E, F)
  <2> DEFINE lo == t + 10
             hi == t + 10 + n * 15 + 2
  <2>1. t \in Nat /\ u \in Nat /\ lo \in Nat /\ hi \in Nat /\ t <= lo /\ lo <= hi /\ hi <= u
    BY <1>7, <1>11, <1>14, <1>15
  <2>2. Part(E, d, sc, lo, hi, 6, 6)
    BY <1>12
  <2> HIDE DEF lo, hi
  <2>3. 6 \in Nat /\ 5 < 6 /\ 6 <= 6 /\ 6 \notin {8, 12, 14}
    OBVIOUS
  <2>4. Frames(t, "PLANNER_STARTED", E, u, "PLANNER_COMPLETED", d, sc, lo, hi, 6, 5, 6)
    BY <1>13, <2>1, <2>2, <2>3, FramedIs
  <2> QED BY <2>4 DEF Frames
<1>17. Says(E, s, "PLANNER_COMPLETED")
  BY <1>2, <1>12
<1> HIDE DEF F
<1>18. Says(F, s, "PLANNER_COMPLETED")
  BY <1>16, <1>17, SaysKept
<1> QED BY <1>10, <1>16, <1>18 DEF F, t, u, s

Engineers == << <<0, "ENGINEER_RAG_STARTED">>, <<15, "ENGINEER_PATCH_GENERATED">> >>
LEMMA EngineerPart ==
  ASSUME DemoAssumption, NEW d \in Demos, NEW sc
  PROVE  /\ Part(EngineerScript(d), d, sc, EngineerStart(d), EngineerDone(d) - 5, 9, 11)
         /\ Says(EngineerScript(d), PatchedIn[d], "ENGINEER_PATCH_GENERATED")
<1> DEFINE s == PatchedIn[d]
           t == EngineerStart(d)
           E == Each(s, t + 10, 25, Alike(s, Engineers))
<1>1. s \in Seq(ToSet(s)) /\ Len(s) \in Nat /\ ToSet(s) \subseteq ToSet(FindingsIn[d])
  BY DemoLists
<1>2. DOMAIN Engineers = 1..2 /\ 2 \in 1..2 /\ 2 \in Nat
      /\ Engineers[1][1] = 0 /\ Engineers[1][2] = "ENGINEER_RAG_STARTED"
      /\ Engineers[2][1] = 15 /\ Engineers[2][2] = "ENGINEER_PATCH_GENERATED"
  BY DEF Engineers
<1>4. \A k \in 1..2 : k = 1 \/ k = 2
  OBVIOUS
<1>5. \A k \in 1..2 : Engineers[k][1] \in 0..(25 + 2) /\ Engineers[k][2] \in Types /\ Phase(Engineers[k][2]) = 10
  BY <1>2, <1>4 DEF Types, Phase
<1>6. \A k \in 1..2 : \A f \in ToSet(s) : Allowed(d, sc, Engineers[k][2], f)
  BY <1>2, <1>4 DEF Allowed
<1>7. t \in Nat /\ EngineerDone(d) \in Nat
  BY TimesAre
<1>8. EngineerDone(d) = t + 10 + Len(s) * 25 + 10
  BY DEF EngineerDone
<1>9. 25 \in Paces
  BY DEF Paces
<1>10. EngineerScript(d) = Framed(t, "ENGINEER_STARTED", E, EngineerDone(d) - 5, "ENGINEER_COMPLETED")
  BY DEF EngineerScript, Framed, Engineers
<1> DEFINE n == Len(s)
           u == EngineerDone(d) - 5
<1> HIDE DEF s, t
<1>11. t + 10 \in Nat
  BY <1>7
<1>12. Part(E, d, sc, t + 10, t + 10 + n * 25 + 2, 10, 10) /\ Says(E, s, Engineers[2][2])
  <2>1. Said(Engineers, 2, s, 25, 10, d, sc)
    BY <1>2, <1>5, <1>6 DEF Said
  <2>2. 2 \in Nat /\ 10 \in Nat /\ 10 \notin {8, 12, 14}
    OBVIOUS
  <2>3. Tells(E, Engineers, 2, d, sc, s, t + 10, 25, 10)
    BY <1>1, <1>9, <1>11, <2>1, <2>2, AlikePart
  <2> QED BY <1>2, <2>3 DEF Tells
<1>13. Border("ENGINEER_STARTED", 9, d, sc) /\ Border("ENGINEER_COMPLETED", 11, d, sc)
  BY DEF Border, Types, Phase, Allowed
<1>14. n \in Nat /\ u \in Nat /\ u = t + 10 + n * 25 + 10 - 5
  BY <1>1, <1>7, <1>8
<1> HIDE DEF E, n, u
<1>15. /\ t + 10 + n * 25 + 2 \in Nat /\ t <= t + 10 /\ t + 10 + n * 25 + 2 <= u /\ t <= u
       /\ t + 10 <= t + 10 + n * 25 + 2
  BY <1>7, <1>14
<1> DEFINE F == Framed(t, "ENGINEER_STARTED", E, u, "ENGINEER_COMPLETED")
<1>16. Part(F, d, sc, t, u, 9, 11) /\ Keeps(E, F)
  <2> DEFINE lo == t + 10
             hi == t + 10 + n * 25 + 2
  <2>1. t \in Nat /\ u \in Nat /\ lo \in Nat /\ hi \in Nat /\ t <= lo /\ lo <= hi /\ hi <= u
    BY <1>7, <1>11, <1>14, <1>15
  <2>2. Part(E, d, sc, lo, hi, 10, 10)
    BY <1>12
  <2> HIDE DEF lo, hi
  <2>3. 10 \in Nat /\ 9 < 10 /\ 10 <= 11 /\ 10 \notin {8, 12, 14}
    OBVIOUS
  <2>4. Frames(t, "ENGINEER_STARTED", E, u, "ENGINEER_COMPLETED", d, sc, lo, hi, 10, 9, 11)
    BY <1>13, <2>1, <2>2, <2>3, FramedIs
  <2> QED BY <2>4 DEF Frames
<1>17. Says(E, s, "ENGINEER_PATCH_GENERATED")
  BY <1>2, <1>12
<1> HIDE DEF F
<1>18. Says(F, s, "ENGINEER_PATCH_GENERATED")
  BY <1>16, <1>17, SaysKept
<1> QED BY <1>10, <1>16, <1>18 DEF F, t, u, s

(* The parts that are about the targets and the patches, in turn.           *)
LEMMA EachHas ==
  ASSUME NEW Y, NEW s \in Seq(Y), NEW start, NEW step, NEW parts, NEW T, NEW at, Plays(at, T, s, start, step, parts),
         DOMAIN parts = DOMAIN s, NEW i \in DOMAIN s, NEW n \in Nat, DOMAIN parts[i] = 1..n, NEW k \in 1..n
  PROVE  Has(T, parts[i][k][2], s[i])
<1>1. <<i, k>> \in Spots(parts) /\ <<i, k>>[1] = i /\ <<i, k>>[2] = k
  BY LenProperties DEF Spots
<1>2. at[<<i, k>>] \in DOMAIN T /\ T[at[<<i, k>>]] = Beat(s, start, step, parts, <<i, k>>)
  BY <1>1 DEF Plays
<1>3. Beat(s, start, step, parts, <<i, k>>).type = parts[i][k][2] /\ Beat(s, start, step, parts, <<i, k>>).on = s[i]
  BY <1>1 DEF Beat, Timed
<1> QED BY <1>2, <1>3 DEF Has

LEMMA SniperPart ==
  ASSUME DemoAssumption, NEW d \in Demos, NEW sc
  PROVE  /\ Part(SniperScript(d), d, sc, SniperStart(d), SniperDone(d), 7, 9)
         /\ Says(SniperScript(d), ExploitedIn[d], "SNIPER_CONFIRMED")
<1> DEFINE s == ExploitedIn[d]
           t == SniperStart(d)
           parts == Alike(s, SniperParts)
           E == Each(s, t + 10, 25, parts)
<1>1. s \in Seq(ToSet(s)) /\ Len(s) \in Nat /\ ToSet(s) \subseteq ToSet(FindingsIn[d])
  BY DemoLists
<1>2. \A k \in 1..2 : k = 1 \/ k = 2
  OBVIOUS
<1>3. /\ DOMAIN parts = DOMAIN s /\ \A i \in DOMAIN s : parts[i] = SniperParts
      /\ \A i \in DOMAIN s : s[i] \in ToSet(s)
  BY DEF Alike, ToSet
<1>4. \A k \in 1..2 : SniperParts[k][1] \in 0..(25 + 2) /\ SniperParts[k][2] \in Types /\ Phase(SniperParts[k][2]) = 8
  BY <1>2, SniperPartsAre DEF Types, Phase
<1>5. \A k \in 1..2 : \A f \in ToSet(s) : Allowed(d, sc, SniperParts[k][2], f)
  BY <1>2, SniperPartsAre DEF Allowed
<1>6. t \in Nat /\ SniperDone(d) \in Nat
  BY TimesAre
<1>7. SniperDone(d) = t + 10 + Len(s) * 25 + 10
  BY DEF SniperDone
<1>8. 25 \in Paces /\ 8 \in Nat /\ 2 \in Nat
  BY DEF Paces
<1>9. SniperScript(d) = Framed(t, "SNIPER_STARTED", E, SniperDone(d), "SNIPER_VERIFICATION_COMPLETED")
  BY DEF SniperScript, Framed, SniperParts
<1>10. Shaped(s, parts, 25, 8, d, sc)
  <2> HIDE DEF s, parts
  <2>1. \A i \in DOMAIN s : s[i] \in ToSet(FindingsIn[d])
    BY <1>1, <1>3
  <2> QED BY <1>3, <1>4, <1>5, <1>8, <2>1, SniperPartsAre DEF Shaped
<1> DEFINE n == Len(s)
           u == SniperDone(d)
           lo == t + 10
           hi == t + 10 + n * 25 + 2
<1>11. n \in Nat /\ u \in Nat /\ u = t + 10 + n * 25 + 10 /\ t \in Nat
  BY <1>1, <1>6, <1>7
<1>12. lo \in Nat
  BY <1>6
<1>13. EachFits(E, d, sc, s, lo, 25, parts, 8)
  <2> HIDE DEF s, parts, lo
  <2>1. EachFits(Each(s, lo, 25, parts), d, sc, s, lo, 25, parts, 8)
    BY <1>1, <1>8, <1>10, <1>12, EachIs
  <2> QED BY <2>1 DEF lo
<1>14. E \in Seq(Beats(d, sc)) /\ Within(E, lo, hi, 8, 8) /\ InOrder(E)
  BY <1>13 DEF EachFits
<1>15. PICK at : Plays(at, E, s, lo, 25, parts)
  BY <1>13 DEF EachFits
<1> HIDE DEF E
<1>16. Turns(E)
  <2>1. DOMAIN E \subseteq Nat
    BY <1>14, LenProperties
  <2> HIDE DEF s, lo
  <2> QED BY <1>1, <1>12, <1>15, <2>1, SniperTurns
<1>17. Opens(E) /\ EndsOnce(E)
  <2>1. \A q \in DOMAIN E : Phase(E[q].type) = 8
    BY <1>14 DEF Within
  <2> QED BY <2>1 DEF Opens, EndsOnce, Phase
<1>18. Part(E, d, sc, lo, hi, 8, 8)
  BY <1>14, <1>16, <1>17 DEF Part
<1>19. Says(E, s, "SNIPER_CONFIRMED")
  <2> SUFFICES ASSUME NEW f \in ToSet(s) PROVE Has(E, "SNIPER_CONFIRMED", f)
    BY DEF Says
  <2>1. PICK i \in DOMAIN s : s[i] = f
    BY DEF ToSet
  <2>2. DOMAIN parts[i] = 1..2 /\ parts[i][2][2] = "SNIPER_CONFIRMED" /\ DOMAIN parts = DOMAIN s /\ 2 \in 1..2
    BY <1>3, SniperPartsAre
  <2> HIDE DEF s, parts, lo
  <2>3. Has(E, parts[i][2][2], s[i])
    BY <1>1, <1>8, <1>15, <2>2, EachHas
  <2> QED BY <2>1, <2>2, <2>3
<1>20. Border("SNIPER_STARTED", 7, d, sc) /\ Border("SNIPER_VERIFICATION_COMPLETED", 9, d, sc)
  BY DEF Border, Types, Phase, Allowed
<1> HIDE DEF s, t, n, u
<1>21. hi \in Nat /\ t <= lo /\ lo <= hi /\ hi <= u
  BY <1>11
<1> HIDE DEF lo, hi
<1> DEFINE F == Framed(t, "SNIPER_STARTED", E, u, "SNIPER_VERIFICATION_COMPLETED")
<1>22. Part(F, d, sc, t, u, 7, 9) /\ Keeps(E, F)
  <2>1. 8 \in Nat /\ 7 < 8 /\ 8 <= 9 /\ 8 # 9
    OBVIOUS
  <2>0. t \in Nat /\ u \in Nat
    BY <1>11
  <2>2. Frames(t, "SNIPER_STARTED", E, u, "SNIPER_VERIFICATION_COMPLETED", d, sc, lo, hi, 8, 7, 9)
    BY <1>12, <1>18, <1>20, <1>21, <2>0, <2>1, FramedIs
  <2> QED BY <2>2 DEF Frames
<1> HIDE DEF F
<1>23. Says(F, s, "SNIPER_CONFIRMED")
  BY <1>19, <1>22, SaysKept
<1> QED BY <1>9, <1>22, <1>23 DEF F, t, u, s

Verdict(sc) == IF sc = "full_approved" THEN "SCAN_COMPLETED" ELSE "SCAN_FAILED"
LEMMA CriticPart ==
  ASSUME DemoAssumption, NEW d \in Demos, NEW sc \in Scenarios
  PROVE  /\ Part(CriticScript(d, sc), d, sc, CriticStart(d), CriticDone(d), 11, 14)
         /\ \A f \in ToSet(PatchedIn[d]) \ RejectedIn(d, sc) : Has(CriticScript(d, sc), "REMEDIATION_PR_CREATED", f)
         /\ Has(CriticScript(d, sc), Verdict(sc), "none")
<1> DEFINE s == PatchedIn[d]
           t == CriticStart(d)
           parts == [i \in DOMAIN s |-> Review(d, sc, s[i], i)]
           E == Each(s, t + 10, 40, parts)
           u == CriticDone(d)
           b == <<Timed(t, "CRITIC_STARTED", "none")>>
           c == Timed(u - 5, "CRITIC_COMPLETED", "none")
           e == Timed(u, Verdict(sc), "none")
           n == Len(s)
           lo == t + 10
           hi == t + 10 + n * 40 + 2
           w == u - 5
<1>1. s \in Seq(ToSet(s)) /\ n \in Nat /\ ToSet(s) \subseteq ToSet(FindingsIn[d])
  BY DemoLists
<1>2. ASSUME NEW i \in DOMAIN s PROVE ReviewFits(parts[i], d, sc, s[i]) /\ s[i] \in ToSet(s)
  BY ReviewIs DEF ToSet
<1>3. t \in Nat /\ u \in Nat /\ u = t + 10 + n * 40 + 10
  BY TimesAre DEF CriticDone
<1>4. CriticScript(d, sc) = (b \o E) \o <<c, e>>
  BY DEF CriticScript, Verdict
<1>5. DOMAIN parts = DOMAIN s
  OBVIOUS
<1> HIDE DEF s, t, parts, u, n
<1>6. Shaped(s, parts, 40, 12, d, sc)
  <2>1. 40 + 2 = 42
    OBVIOUS
  <2>2. \A i \in DOMAIN s : s[i] \in ToSet(FindingsIn[d])
    BY <1>1, <1>2
  <2> QED BY <1>2, <1>5, <2>1, <2>2 DEF Shaped, ReviewFits
<1>7. lo \in Nat /\ hi \in Nat /\ w \in Nat /\ t <= lo /\ lo <= hi /\ hi <= w /\ w <= u
  BY <1>1, <1>3
<1>8. EachFits(E, d, sc, s, lo, 40, parts, 12)
  <2> HIDE DEF lo
  <2>1. 40 \in Paces /\ 12 \in Nat
    BY DEF Paces
  <2>2. EachFits(Each(s, lo, 40, parts), d, sc, s, lo, 40, parts, 12)
    BY <1>1, <1>6, <1>7, <2>1, EachIs
  <2> QED BY <2>2 DEF lo
<1>9. E \in Seq(Beats(d, sc)) /\ Within(E, lo, hi, 12, 12) /\ InOrder(E)
  BY <1>8 DEF EachFits, n
<1>10. PICK at : Plays(at, E, s, lo, 40, parts)
  BY <1>8 DEF EachFits
<1> HIDE DEF E, lo, hi
<1>11. Opens(E)
  <2>1. DOMAIN E \subseteq Nat
    BY <1>9, LenProperties
  <2> QED BY <1>1, <1>2, <1>5, <1>7, <1>10, <2>1, CriticOpens
<1>12. Turns(E) /\ EndsOnce(E)
  <2>1. \A q \in DOMAIN E : Phase(E[q].type) = 12
    BY <1>9 DEF Within
  <2> QED BY <2>1 DEF Turns, EndsOnce, Phase
<1>13. Part(E, d, sc, lo, hi, 12, 12)
  BY <1>9, <1>11, <1>12 DEF Part
<1>14. ASSUME NEW f \in ToSet(s) \ RejectedIn(d, sc) PROVE Has(E, "REMEDIATION_PR_CREATED", f)
  <2>1. PICK i \in DOMAIN s : s[i] = f
    BY DEF ToSet
  <2>2. PICK m \in Nat : DOMAIN parts[i] = 1..m
    BY <1>2 DEF ReviewFits
  <2>3. PICK k \in 1..m : parts[i][k][2] = "REMEDIATION_PR_CREATED"
    <3>1. ReviewFits(parts[i], d, sc, s[i]) /\ s[i] \notin RejectedIn(d, sc)
      BY <1>2, <2>1
    <3> HIDE DEF E
    <3> QED BY <2>2, <3>1 DEF ReviewFits
  <2>4. Has(E, parts[i][k][2], s[i])
    BY <1>1, <1>5, <1>10, <2>2, EachHas
  <2> QED BY <2>1, <2>3, <2>4
<1>15. Border("CRITIC_STARTED", 11, d, sc) /\ Border("CRITIC_COMPLETED", 13, d, sc) /\ Border(Verdict(sc), 14, d, sc)
  BY DEF Border, Types, Phase, Allowed, Verdict
<1> HIDE DEF w
<1>16. Part(b, d, sc, t, t, 11, 11) /\ Part(<<c>>, d, sc, w, w, 13, 13) /\ Part(<<e>>, d, sc, u, u, 14, 14)
  BY <1>3, <1>7, <1>15, BorderPart DEF w
<1>17. Has(<<e>>, Verdict(sc), "none")
  BY DEF Has, Timed
<1> HIDE DEF b, c, e
<1>18. Part(b \o E, d, sc, t, hi, 11, 12)
  <2>1. t <= hi
    BY <1>3, <1>7
  <2> QED BY <1>3, <1>7, <1>13, <1>16, <2>1, PartJoins
<1>19. Part(<<c>> \o <<e>>, d, sc, w, u, 13, 14)
  BY <1>3, <1>7, <1>16, PartJoins
<1>20. Part((b \o E) \o (<<c>> \o <<e>>), d, sc, t, u, 11, 14)
  <2>1. t <= w /\ hi <= u
    BY <1>3, <1>7
  <2> QED BY <1>3, <1>7, <1>18, <1>19, <2>1, PartJoins
<1>21. <<c>> \o <<e>> = <<c, e>>
  BY PairIs
<1> DEFINE F == (b \o E) \o (<<c>> \o <<e>>)
<1>22. Keeps(E, b \o E)
  BY <1>13, <1>16, JoinKeeps
<1>23. Keeps(b \o E, F) /\ Keeps(<<c>> \o <<e>>, F)
  BY <1>18, <1>19, JoinKeeps
<1>24. Keeps(<<e>>, <<c>> \o <<e>>)
  BY <1>16, JoinKeeps
<1>25. F = CriticScript(d, sc)
  BY <1>4, <1>21
<1> HIDE DEF F
<1>26. \A f \in ToSet(s) \ RejectedIn(d, sc) : Has(F, "REMEDIATION_PR_CREATED", f)
  BY <1>14, <1>22, <1>23 DEF Keeps
<1>27. Has(F, Verdict(sc), "none")
  BY <1>17, <1>23, <1>24 DEF Keeps
<1>28. Part(F, d, sc, t, u, 11, 14)
  BY <1>20 DEF F
<1> QED BY <1>25, <1>26, <1>27, <1>28 DEF s, t, u

Recounts(T, d, sc) ==
  /\ Says(T, FindingsIn[d], "SCANNER_FINDING_DISCOVERED") /\ Says(T, PlannedIn[d], "PLANNER_COMPLETED")
  /\ Says(T, ExploitedIn[d], "SNIPER_CONFIRMED") /\ Says(T, PatchedIn[d], "ENGINEER_PATCH_GENERATED")
  /\ \A f \in ToSet(PatchedIn[d]) \ RejectedIn(d, sc) : Has(T, "REMEDIATION_PR_CREATED", f)
  /\ Has(T, Verdict(sc), "none")

(* A script goes through its phases and tells everything of the demo.       *)
LEMMA ScriptIs ==
  ASSUME DemoAssumption, NEW d \in Demos, NEW sc \in Scenarios
  PROVE  Part(Script(d, sc), d, sc, 5, CriticDone(d), 1, 14) /\ Recounts(Script(d, sc), d, sc)
<1> DEFINE A == ScanScript(d)
           B == SandboxScript(d)
           C == ScoutScript(d)
           D == PlannerScript(d)
           E == SniperScript(d)
           F == EngineerScript(d)
           G == CriticScript(d, sc)
           a == ScannerDone(d)
           c == ScoutDone(d)
           p == PlannerDone(d)
           s == SniperDone(d)
           g == EngineerDone(d)
           z == CriticDone(d)
           n1 == Len(FindingsIn[d])
           n2 == Len(PlannedIn[d])
           n3 == Len(ExploitedIn[d])
           n4 == Len(PatchedIn[d])
<1>1. Script(d, sc) = (((((A \o B) \o C) \o D) \o E) \o F) \o G
  BY DEF Script
<1>2. /\ Part(A, d, sc, 5, a, 1, 3) /\ Part(B, d, sc, a + 15, a + 45, 3, 3) /\ Part(C, d, sc, a + 60, c, 3, 5)
      /\ Part(D, d, sc, c + 15, p, 5, 6) /\ Part(E, d, sc, p + 15, s, 7, 9) /\ Part(F, d, sc, s + 15, g - 5, 9, 11)
      /\ Part(G, d, sc, g + 15, z, 11, 14)
  <2>1. Part(A, d, sc, 5, a, 1, 3) /\ Part(B, d, sc, a + 15, a + 45, 3, 3)
    BY ScanPart, SandboxPart
  <2>2. Part(C, d, sc, a + 60, c, 3, 5) /\ Part(D, d, sc, c + 15, p, 5, 6)
    BY ScoutPart, PlannerPart DEF ScoutStart, PlannerStart
  <2>3. Part(E, d, sc, p + 15, s, 7, 9)
    BY SniperPart DEF SniperStart
  <2>4. Part(F, d, sc, s + 15, g - 5, 9, 11)
    BY EngineerPart DEF EngineerStart
  <2>5. Part(G, d, sc, g + 15, z, 11, 14)
    BY CriticPart DEF CriticStart
  <2> QED BY <2>1, <2>2, <2>3, <2>4, <2>5
<1>3. /\ Says(A, FindingsIn[d], "SCANNER_FINDING_DISCOVERED") /\ Says(D, PlannedIn[d], "PLANNER_COMPLETED")
      /\ Says(E, ExploitedIn[d], "SNIPER_CONFIRMED") /\ Says(F, PatchedIn[d], "ENGINEER_PATCH_GENERATED")
  BY ScanPart, PlannerPart, SniperPart, EngineerPart
<1>4. /\ \A f \in ToSet(PatchedIn[d]) \ RejectedIn(d, sc) : Has(G, "REMEDIATION_PR_CREATED", f)
      /\ Has(G, Verdict(sc), "none")
  BY CriticPart
<1>5. a \in Nat /\ c \in Nat /\ p \in Nat /\ s \in Nat /\ g \in Nat /\ z \in Nat
  BY TimesAre
<1>6. n1 \in Nat /\ n2 \in Nat /\ n3 \in Nat /\ n4 \in Nat
  BY DemoLists
<1>7. /\ a = 85 + n1 * 15 + 10
      /\ c = a + 60 + 10 + n1 * 25 + 10
      /\ p = c + 15 + 10 + n2 * 15 + 10
  BY DEF ScannerDone, ScoutDone, ScoutStart, PlannerDone, PlannerStart
<1>8. /\ s = p + 15 + 10 + n3 * 25 + 10
      /\ g = s + 15 + 10 + n4 * 25 + 10
      /\ z = g + 15 + 10 + n4 * 40 + 10
  BY DEF SniperDone, SniperStart, EngineerDone, EngineerStart, CriticDone, CriticStart
<1> HIDE DEF A, B, C, D, E, F, G, a, c, p, s, g, z, n1, n2, n3, n4
<1>9. /\ 5 <= a /\ a + 60 <= c /\ c + 15 <= p /\ p + 15 <= s /\ s + 15 <= g - 5 /\ g + 15 <= z
  <2>1. 5 <= a /\ a + 60 <= c /\ c + 15 <= p
    BY <1>5, <1>6, <1>7
  <2>2. p + 15 <= s /\ s + 15 <= g - 5 /\ g + 15 <= z
    BY <1>5, <1>6, <1>8
  <2> QED BY <2>1, <2>2
<1>10. Part(A \o B, d, sc, 5, a + 45, 1, 3)
  <2>1. 5 <= a + 15 /\ a + 15 \in Nat /\ a + 45 \in Nat /\ a <= a + 15 /\ a <= a + 45 /\ a \in Nat
    BY <1>5, <1>9
  <2> QED BY <1>2, <2>1, PartJoins
<1>11. Part((A \o B) \o C, d, sc, 5, c, 1, 5)
  <2>1. 5 <= a + 60 /\ a + 60 \in Nat /\ a + 45 \in Nat /\ a + 45 <= a + 60 /\ a + 45 <= c /\ c \in Nat
    BY <1>5, <1>9
  <2> QED BY <1>2, <1>10, <2>1, PartJoins
<1>12. Part(((A \o B) \o C) \o D, d, sc, 5, p, 1, 6)
  <2>1. 5 <= c + 15 /\ c + 15 \in Nat /\ c \in Nat /\ c <= c + 15 /\ c <= p /\ p \in Nat
    BY <1>5, <1>9
  <2> QED BY <1>2, <1>11, <2>1, PartJoins
<1>13. Part((((A \o B) \o C) \o D) \o E, d, sc, 5, s, 1, 9)
  <2>1. 5 <= p + 15 /\ p + 15 \in Nat /\ p \in Nat /\ p <= p + 15 /\ p <= s /\ s \in Nat
    BY <1>5, <1>9
  <2> QED BY <1>2, <1>12, <2>1, PartJoins
<1>14. Part(((((A \o B) \o C) \o D) \o E) \o F, d, sc, 5, g - 5, 1, 11)
  <2>1. 5 <= s + 15 /\ s + 15 \in Nat /\ s \in Nat /\ s <= s + 15 /\ s <= g - 5 /\ g - 5 \in Nat
    BY <1>5, <1>9
  <2> QED BY <1>2, <1>13, <2>1, PartJoins
<1>15. Part((((((A \o B) \o C) \o D) \o E) \o F) \o G, d, sc, 5, z, 1, 14)
  <2>1. 5 <= g + 15 /\ g + 15 \in Nat /\ g - 5 \in Nat /\ g - 5 <= g + 15 /\ g - 5 <= z /\ z \in Nat
    BY <1>5, <1>9
  <2> QED BY <1>2, <1>14, <2>1, PartJoins
<1> DEFINE T2 == A \o B
           T3 == T2 \o C
           T4 == T3 \o D
           T5 == T4 \o E
           T6 == T5 \o F
           T7 == T6 \o G
<1>16. /\ Keeps(A, T2) /\ Keeps(T2, T3) /\ Keeps(T3, T4) /\ Keeps(D, T4) /\ Keeps(T4, T5) /\ Keeps(E, T5)
       /\ Keeps(T5, T6) /\ Keeps(F, T6) /\ Keeps(T6, T7) /\ Keeps(G, T7)
  <2>1. /\ Part(T2, d, sc, 5, a + 45, 1, 3) /\ Part(T3, d, sc, 5, c, 1, 5) /\ Part(T4, d, sc, 5, p, 1, 6)
        /\ Part(T5, d, sc, 5, s, 1, 9) /\ Part(T6, d, sc, 5, g - 5, 1, 11)
    BY <1>10, <1>11, <1>12, <1>13, <1>14
  <2>2. Keeps(A, T2)
    BY <1>2, JoinKeeps
  <2> HIDE DEF T2
  <2>3. Keeps(T2, T3)
    BY <1>2, <2>1, JoinKeeps
  <2> HIDE DEF T3
  <2>4. Keeps(T3, T4) /\ Keeps(D, T4)
    BY <1>2, <2>1, JoinKeeps
  <2> HIDE DEF T4
  <2>5. Keeps(T4, T5) /\ Keeps(E, T5)
    BY <1>2, <2>1, JoinKeeps
  <2> HIDE DEF T5
  <2>6. Keeps(T5, T6) /\ Keeps(F, T6)
    BY <1>2, <2>1, JoinKeeps
  <2> HIDE DEF T6
  <2>7. Keeps(T6, T7) /\ Keeps(G, T7)
    BY <1>2, <2>1, JoinKeeps
  <2> QED BY <2>2, <2>3, <2>4, <2>5, <2>6, <2>7
<1>17. Part(T7, d, sc, 5, z, 1, 14)
  BY <1>15
<1>18. Script(d, sc) = T7
  BY <1>1
<1> HIDE DEF T2, T3, T4, T5, T6, T7
<1>19. Says(T7, FindingsIn[d], "SCANNER_FINDING_DISCOVERED")
  <2>1. Says(T2, FindingsIn[d], "SCANNER_FINDING_DISCOVERED")
    BY <1>3, <1>16, SaysKept
  <2>2. Says(T4, FindingsIn[d], "SCANNER_FINDING_DISCOVERED")
    <3>1. Says(T3, FindingsIn[d], "SCANNER_FINDING_DISCOVERED")
      BY <1>16, <2>1, SaysKept
    <3> QED BY <1>16, <3>1, SaysKept
  <2>3. Says(T5, FindingsIn[d], "SCANNER_FINDING_DISCOVERED")
    BY <1>16, <2>2, SaysKept
  <2>4. Says(T6, FindingsIn[d], "SCANNER_FINDING_DISCOVERED")
    BY <1>16, <2>3, SaysKept
  <2> QED BY <1>16, <2>4, SaysKept
<1>20. Says(T7, PlannedIn[d], "PLANNER_COMPLETED")
  <2>1. Says(T4, PlannedIn[d], "PLANNER_COMPLETED")
    BY <1>3, <1>16, SaysKept
  <2>2. Says(T5, PlannedIn[d], "PLANNER_COMPLETED")
    BY <1>16, <2>1, SaysKept
  <2>3. Says(T6, PlannedIn[d], "PLANNER_COMPLETED")
    BY <1>16, <2>2, SaysKept
  <2> QED BY <1>16, <2>3, SaysKept
<1>21. Says(T7, ExploitedIn[d], "SNIPER_CONFIRMED")
  <2>1. Says(T5, ExploitedIn[d], "SNIPER_CONFIRMED")
    BY <1>3, <1>16, SaysKept
  <2>2. Says(T6, ExploitedIn[d], "SNIPER_CONFIRMED")
    BY <1>16, <2>1, SaysKept
  <2> QED BY <1>16, <2>2, SaysKept
<1>22. Says(T7, PatchedIn[d], "ENGINEER_PATCH_GENERATED")
  <2>1. Says(T6, PatchedIn[d], "ENGINEER_PATCH_GENERATED")
    BY <1>3, <1>16, SaysKept
  <2> QED BY <1>16, <2>1, SaysKept
<1>23. /\ \A f \in ToSet(PatchedIn[d]) \ RejectedIn(d, sc) : Has(T7, "REMEDIATION_PR_CREATED", f)
       /\ Has(T7, Verdict(sc), "none")
  BY <1>4, <1>16 DEF Keeps
<1>24. Recounts(T7, d, sc)
  BY <1>19, <1>20, <1>21, <1>22, <1>23 DEF Recounts
<1> QED BY <1>17, <1>18, <1>24 DEF z

-----------------------------------------------------------------------------
(* The timers.                                                              *)
LEMMA TimesGrow ==
  ASSUME NEW s \in Nat, NEW q \in Nat, NEW r \in Nat, r + 1 <= q
  PROVE  s * r + s <= s * q
<1>1. PICK k \in Nat : q = r + 1 + k
  <2>1. q - r - 1 \in Nat /\ q = r + 1 + (q - r - 1)
    OBVIOUS
  <2> QED BY <2>1
<1>2. s * q = s * r + s + s * k
  BY <1>1
<1>3. s * k \in Nat /\ s * r \in Nat
  OBVIOUS
<1> QED BY <1>2, <1>3

LEMMA DivIs ==
  ASSUME NEW a \in Nat, NEW s \in Nat \ {0}
  PROVE  a \div s \in Nat /\ s * (a \div s) <= a /\ a < s * (a \div s) + s
<1>1. a \div s \in Nat
  OBVIOUS
<1>2. a % s \in 0..(s-1) /\ a = s * (a \div s) + (a % s)
  OBVIOUS
<1> DEFINE q == a \div s
           r == a % s
           p == s * q
<1>3. p \in Nat
  BY <1>1
<1> HIDE DEF q, r
<1>4. r \in 0..(s-1) /\ a = p + r
  BY <1>2 DEF q, r
<1> HIDE DEF p
<1>5. p <= a /\ a < p + s
  BY <1>3, <1>4
<1> QED BY <1>1, <1>5 DEF p, q

LEMMA DivGrows ==
  ASSUME NEW a \in Nat, NEW b \in Nat, NEW s \in Nat \ {0}, a <= b
  PROVE  a \div s <= b \div s
<1> DEFINE q == a \div s
           r == b \div s
<1>1. q \in Nat /\ r \in Nat /\ s * q <= a /\ b < s * r + s
  BY DivIs
<1> HIDE DEF q, r
<1>2. SUFFICES ASSUME r + 1 <= q PROVE FALSE
  BY <1>1 DEF q, r
<1>3. s * r + s <= s * q
  BY <1>1, <1>2, TimesGrow
<1>4. s * r \in Nat /\ s * q \in Nat
  BY <1>1
<1> QED BY <1>1, <1>3, <1>4

LEMMA DelayIs ==
  ASSUME NEW t \in Nat, NEW u \in Nat, NEW sp \in Nat \ {0}, t <= u
  PROVE  Delay(t, sp) \in Nat /\ Delay(u, sp) \in Nat /\ Delay(t, sp) <= Delay(u, sp)
<1> DEFINE a == t * 1000
           b == u * 1000
           q == a \div sp
           r == b \div sp
<1>1. a \in Nat /\ b \in Nat /\ a <= b
  OBVIOUS
<1> HIDE DEF a, b
<1>2. q \in Nat /\ r \in Nat /\ q <= r
  BY <1>1, DivIs, DivGrows
<1>3. Delay(t, sp) = (IF q < 100 THEN 100 ELSE q) /\ Delay(u, sp) = IF r < 100 THEN 100 ELSE r
  BY DEF Delay, q, r, a, b
<1> HIDE DEF q, r
<1> QED BY <1>2, <1>3

(* The timers are the script, in an order that keeps one event before       *)
(* another when it was set before it and for no later a time.               *)
Retimes(at, P, T) ==
  /\ P = [k \in DOMAIN T |-> P[k]] /\ at \in [DOMAIN T -> DOMAIN T]
  /\ \A i \in DOMAIN T : P[at[i]] = T[i]
  /\ \A k \in DOMAIN T : \E i \in DOMAIN T : at[i] = k
  /\ \A i \in DOMAIN T, j \in DOMAIN T : i < j /\ T[i].time <= T[j].time => at[i] < at[j]

LEMMA TimersAre ==
  ASSUME NEW d, NEW sc, NEW X, NEW sp \in Nat \ {0}, Script(d, sc) \in Seq(X), \A e \in X : e.time \in Nat
  PROVE  \E at : Retimes(at, Timers(d, sc, sp), Script(d, sc))
<1> DEFINE T == Script(d, sc)
           S == DOMAIN T
           due(i) == Delay(T[i].time, sp)
           before(i) == {j \in S : due(j) < due(i) \/ (due(j) = due(i) /\ j < i)}
           order == [k \in S |-> CHOOSE i \in S : Cardinality(before(i)) = k - 1]
           Up == [i \in S |-> before(i)]
           P == Timers(d, sc, sp)
<1>1. P = [k \in S |-> T[order[k]]]
  BY DEF Timers
<1>2. Len(T) \in Nat /\ S = 1..Len(T)
  BY LenProperties
<1>3. \A i \in S : T[i].time \in Nat
  BY ElementOfSeq
<1>4. \A i \in S, j \in S : T[i].time <= T[j].time => due(i) <= due(j)
  BY <1>3, DelayIs
<1>5. \A i \in S : due(i) \in Nat /\ i \in Nat
  <2> TAKE i \in S
  <2>1. T[i].time \in Nat /\ T[i].time <= T[i].time
    BY <1>3
  <2> QED BY <1>2, <2>1, DelayIs
<1>6. \A k \in S : order[k] = CHOOSE i \in S : Cardinality(before(i)) = k - 1
  OBVIOUS
<1>61. DOMAIN order = S
  OBVIOUS
<1> HIDE DEF T, P, order, due
<1>7. IsFiniteSet(S) /\ Cardinality(S) = Len(T)
  <2> DEFINE n == Len(T)
  <2>1. n \in Nat
    BY <1>2
  <2> HIDE DEF n
  <2>2. IsFiniteSet(1..n) /\ Cardinality(1..n) = IF 1 > n THEN 0 ELSE n - 1 + 1
    BY <2>1, FS_Interval
  <2>3. (IF 1 > n THEN 0 ELSE n - 1 + 1) = n
    BY <2>1
  <2>4. 1..n = S
    BY <1>2 DEF n
  <2>5. IsFiniteSet(1..n) /\ Cardinality(1..n) = n
    BY <2>2, <2>3
  <2> HIDE DEF S
  <2> QED BY <2>4, <2>5 DEF n
<1> HIDE DEF S
<1>8. Ranks(S, Up)
  <2>1. Up \in [S -> SUBSET S]
    OBVIOUS
  <2>2. \A i \in S : i \notin Up[i]
    BY <1>5
  <2>3. ASSUME NEW x \in S, NEW y \in S, x # y PROVE x \in Up[y] \/ y \in Up[x]
    <3>1. due(x) \in Nat /\ due(y) \in Nat /\ x \in Nat /\ y \in Nat
      BY <1>5
    <3> QED BY <2>3, <3>1
  <2>4. ASSUME NEW x \in S, NEW y \in S, x \in Up[y] PROVE Up[x] \subseteq Up[y]
    <3> SUFFICES ASSUME NEW z \in Up[x] PROVE z \in Up[y]
      OBVIOUS
    <3>0. z \in S
      OBVIOUS
    <3>1. due(x) \in Nat /\ due(y) \in Nat /\ due(z) \in Nat /\ x \in Nat /\ y \in Nat /\ z \in Nat
      BY <1>5, <3>0
    <3>2. due(z) < due(x) \/ (due(z) = due(x) /\ z < x)
      OBVIOUS
    <3>3. due(x) < due(y) \/ (due(x) = due(y) /\ x < y)
      BY <2>4
    <3>4. due(z) < due(y) \/ (due(z) = due(y) /\ z < y)
      BY <3>1, <3>2, <3>3
    <3> QED BY <3>0, <3>4
  <2> QED BY <1>7, <2>1, <2>2, <2>3, <2>4 DEF Ranks
<1>9. \A i \in S : Up[i] = before(i)
  OBVIOUS
<1>10. \A i \in S, j \in S : i < j /\ due(i) <= due(j) => i \in Up[j]
  <2> TAKE i \in S, j \in S
  <2>1. due(i) \in Nat /\ due(j) \in Nat
    BY <1>5
  <2> QED BY <2>1
<1> HIDE DEF before
<1>11. \A k \in 1..Cardinality(S) : k \in S /\ order[k] \in S /\ Cardinality(Up[order[k]]) = k - 1
  <2> TAKE k \in 1..Cardinality(S)
  <2>1. \E x \in S : Cardinality(Up[x]) = k - 1
    <3> HIDE DEF Up
    <3> QED BY <1>8, RankIs
  <2>2. \E x \in S : Cardinality(before(x)) = k - 1
    BY <1>9, <2>1
  <2>3. k \in S
    BY <1>2, <1>7 DEF S
  <2> QED BY <1>6, <1>9, <2>2, <2>3
<1>12. S = 1..Cardinality(S)
  BY <1>2, <1>7 DEF S
<1> HIDE DEF Up
<1>13. order \in [1..Cardinality(S) -> S]
  <2>1. order = [k \in S |-> order[k]]
    BY <1>61 DEF order
  <2>2. \A k \in S : order[k] \in S
    BY <1>11, <1>12
  <2> QED BY <1>12, <2>1, <2>2
<1>14. Sorted(order, S, Up)
  BY <1>11, <1>13 DEF Sorted
<1> DEFINE at == [i \in S |-> CHOOSE k \in S : order[k] = i]
<1>15. /\ \A x \in S : \E k \in S : order[k] = x
       /\ \A k \in S, l \in S : /\ order[k] \in S
                                /\ order[k] = order[l] => k = l
                                /\ order[k] \in Up[order[l]] <=> k < l
  <2> DEFINE n == Cardinality(S)
  <2>1. \A x \in S : \E k \in 1..n : order[k] = x
    BY <1>8, <1>14, SortedIs
  <2>2. \A k \in 1..n, l \in 1..n : /\ order[k] \in S
                                    /\ order[k] = order[l] => k = l
                                    /\ order[k] \in Up[order[l]] <=> k < l
    BY <1>8, <1>14, SortedIs
  <2>3. S = 1..n
    BY <1>12
  <2> HIDE DEF n
  <2> QED BY <2>1, <2>2, <2>3
<1>16. \A i \in S : at[i] \in S /\ order[at[i]] = i
  BY <1>15
<1>17. at \in [S -> S]
  BY <1>16
<1> HIDE DEF at
<1>18. \A i \in S : P[at[i]] = T[i]
  BY <1>1, <1>16
<1>19. \A k \in S : at[order[k]] = k
  <2> TAKE k \in S
  <2>1. order[k] \in S /\ at[order[k]] \in S /\ order[at[order[k]]] = order[k]
    BY <1>15, <1>16
  <2> QED BY <1>15, <2>1
<1>20. ASSUME NEW i \in S, NEW j \in S, i < j, T[i].time <= T[j].time PROVE at[i] < at[j]
  <2>1. i \in Up[j]
    BY <1>4, <1>10, <1>20
  <2>2. order[at[i]] \in Up[order[at[j]]]
    BY <1>16, <2>1
  <2> QED BY <1>15, <1>16, <2>2
<1>21. P = [k \in S |-> P[k]]
  BY <1>1
<1>22. Retimes(at, P, T)
  BY <1>15, <1>17, <1>18, <1>19, <1>20, <1>21 DEF Retimes, S
<1> QED BY <1>22 DEF P, T

Falls(T) == \A i \in DOMAIN T, j \in DOMAIN T : Phase(T[i].type) < Phase(T[j].type) => i < j
Confirms(T, i, j) == \E l \in DOMAIN T : i < l /\ l < j /\ T[l].type = "SNIPER_CONFIRMED" /\ T[l].on = T[i].on
Alternates(T) ==
  \A i \in DOMAIN T, j \in DOMAIN T :
    i < j /\ T[i].type = "SNIPER_TARGET_SELECTED" /\ T[j].type = "SNIPER_TARGET_SELECTED" => Confirms(T, i, j)
Answers(T, j) == \E i \in DOMAIN T : i < j /\ T[i].type = "CRITIC_APPROVED" /\ T[i].on = T[j].on
Answered(T) == \A j \in DOMAIN T : T[j].type = "REMEDIATION_PR_CREATED" => Answers(T, j)
Told(P, d, sc) ==
  /\ P \in Seq(Beats(d, sc)) /\ \A i \in DOMAIN P : Phase(P[i].type) \in 1..14
  /\ Falls(P) /\ Alternates(P) /\ Answered(P) /\ EndsOnce(P) /\ Recounts(P, d, sc)

(* What is played is the script in an order that keeps its phases, turns    *)
(* and answers.                                                             *)
LEMMA ToldIs ==
  ASSUME NEW d, NEW sc, NEW P, NEW T, NEW at, Retimes(at, P, T), NEW hi \in Nat,
         Part(T, d, sc, 5, hi, 1, 14), Recounts(T, d, sc)
  PROVE  Told(P, d, sc)
<1> DEFINE S == DOMAIN T
           X == Beats(d, sc)
<1>1. /\ DOMAIN P = S /\ at \in [S -> S] /\ \A i \in S : P[at[i]] = T[i]
      /\ \A k \in S : \E i \in S : at[i] = k
      /\ \A i \in S, j \in S : i < j /\ T[i].time <= T[j].time => at[i] < at[j]
  BY DEF Retimes
<1>2. T \in Seq(X) /\ Len(T) \in Nat /\ S = 1..Len(T)
  BY LenProperties DEF Part
<1>3. S \subseteq Nat
  BY <1>2
<1>4. \A i \in S : T[i] \in X
  BY <1>2, ElementOfSeq
<1>5. \A k \in S : \E i \in S : at[i] = k /\ P[k] = T[i]
  BY <1>1
<1>6. P \in Seq(X)
  <2> DEFINE n == Len(T)
  <2>1. n \in Nat /\ DOMAIN P = 1..n
    BY <1>1, <1>2
  <2>2. \A k \in 1..n : P[k] \in X
    BY <1>2, <1>4, <1>5
  <2>3. P = [k \in 1..n |-> P[k]]
    BY <1>2 DEF Retimes
  <2> HIDE DEF n, X
  <2>4. P \in [1..n -> X]
    BY <2>2, <2>3
  <2> QED BY <2>1, <2>4, ListIs
<1> HIDE DEF S, X
<1>7. \A k \in S : Phase(P[k].type) \in 1..14
  BY <1>5 DEF Part, Within, S
<1>8. Falls(P)
  <2> SUFFICES ASSUME NEW k \in S, NEW l \in S, Phase(P[k].type) < Phase(P[l].type) PROVE k < l
    BY <1>1 DEF Falls
  <2>1. PICK i \in S, j \in S : at[i] = k /\ at[j] = l
    BY <1>1
  <2>2. i < j /\ T[i].time <= T[j].time
    BY <1>1, <2>1 DEF Part, InOrder, S
  <2> QED BY <1>1, <2>1, <2>2
<1>9. Alternates(P)
  <2> SUFFICES ASSUME NEW k \in S, NEW l \in S, k < l, P[k].type = "SNIPER_TARGET_SELECTED",
                      P[l].type = "SNIPER_TARGET_SELECTED"
               PROVE  Confirms(P, k, l)
    BY <1>1 DEF Alternates
  <2>1. PICK i \in S, j \in S : at[i] = k /\ at[j] = l
    BY <1>1
  <2>2. T[i].type = "SNIPER_TARGET_SELECTED" /\ T[j].type = "SNIPER_TARGET_SELECTED"
    BY <1>1, <2>1
  <2>3. ASSUME NEW a \in S, NEW b \in S, a < b, T[a].type = "SNIPER_TARGET_SELECTED", T[b].type = "SNIPER_TARGET_SELECTED"
        PROVE  Confirms(P, at[a], at[b]) /\ at[a] < at[b]
    <3>1. ConfirmedBetween(T, a, b)
      BY <2>3 DEF Part, Turns, S
    <3>2. PICK m \in S : /\ a < m /\ m < b /\ T[m].type = "SNIPER_CONFIRMED" /\ T[m].on = T[a].on
                         /\ T[a].time <= T[m].time /\ T[m].time <= T[b].time
      BY <3>1 DEF ConfirmedBetween, S
    <3>3. at[a] < at[m] /\ at[m] < at[b] /\ at[m] \in S /\ at[a] \in S /\ at[b] \in S
      BY <1>1, <3>2
    <3>4. P[at[m]] = T[m] /\ P[at[a]] = T[a]
      BY <1>1
    <3>5. at[a] < at[b]
      BY <1>3, <3>3
    <3> QED BY <1>1, <3>2, <3>3, <3>4, <3>5 DEF Confirms
  <2>4. CASE i < j
    BY <2>1, <2>2, <2>3, <2>4
  <2>5. CASE j < i
    <3>1. at[j] < at[i]
      BY <2>2, <2>3, <2>5
    <3> QED BY <1>3, <2>1, <3>1
  <2>6. i # j
    BY <1>3, <2>1
  <2> QED BY <1>3, <2>4, <2>5, <2>6
<1>10. Answered(P)
  <2> SUFFICES ASSUME NEW k \in S, P[k].type = "REMEDIATION_PR_CREATED" PROVE Answers(P, k)
    BY <1>1 DEF Answered
  <2>1. PICK j \in S : at[j] = k /\ P[k] = T[j]
    BY <1>5
  <2>2. ApprovedBefore(T, j)
    BY <2>1 DEF Part, Opens, S
  <2>3. PICK i \in S : i < j /\ T[i].type = "CRITIC_APPROVED" /\ T[i].on = T[j].on /\ T[i].time <= T[j].time
    BY <2>2 DEF ApprovedBefore, S
  <2>4. at[i] < k /\ at[i] \in S /\ P[at[i]] = T[i]
    BY <1>1, <2>1, <2>3
  <2> QED BY <1>1, <2>1, <2>3, <2>4 DEF Answers
<1>11. EndsOnce(P)
  <2> SUFFICES ASSUME NEW k \in S, NEW l \in S, Phase(P[k].type) = 14, Phase(P[l].type) = 14 PROVE k = l
    BY <1>1 DEF EndsOnce
  <2>1. PICK i \in S, j \in S : at[i] = k /\ at[j] = l
    BY <1>1
  <2>2. i = j
    BY <1>1, <2>1 DEF Part, EndsOnce, S
  <2> QED BY <2>1, <2>2
<1>12. Keeps(T, P)
  <2> SUFFICES ASSUME NEW y, NEW f, Has(T, y, f) PROVE Has(P, y, f)
    BY DEF Keeps
  <2>1. PICK i \in S : T[i].type = y /\ T[i].on = f
    BY DEF Has, S
  <2> QED BY <1>1, <2>1 DEF Has
<1>13. Recounts(P, d, sc)
  BY <1>12 DEF Recounts, Says, Keeps
<1> QED BY <1>1, <1>6, <1>7, <1>8, <1>9, <1>10, <1>11, <1>13 DEF Told, X

LEMMA PlaybillIs ==
  ASSUME DemoAssumption, NEW d \in Demos, NEW sc \in Scenarios, NEW sp \in Speeds
  PROVE  Told(Playbill[d][sc][sp], d, sc)
<1>1. sp \in Nat \ {0}
  BY DEF DemoAssumption
<1>2. Part(Script(d, sc), d, sc, 5, CriticDone(d), 1, 14) /\ Recounts(Script(d, sc), d, sc) /\ CriticDone(d) \in Nat
  BY ScriptIs, TimesAre
<1>3. Script(d, sc) \in Seq(Beats(d, sc))
  BY <1>2 DEF Part
<1>4. \A e \in Beats(d, sc) : e.time \in Nat
  BY DEF Beats
<1>5. PICK at : Retimes(at, Timers(d, sc, sp), Script(d, sc))
  BY <1>1, <1>3, <1>4, TimersAre
<1>6. Told(Timers(d, sc, sp), d, sc)
  <2> DEFINE P == Timers(d, sc, sp)
             T == Script(d, sc)
             hi == CriticDone(d)
  <2>1. Retimes(at, P, T) /\ hi \in Nat /\ Part(T, d, sc, 5, hi, 1, 14) /\ Recounts(T, d, sc)
    BY <1>2, <1>5
  <2> HIDE DEF P, T, hi
  <2>2. Told(P, d, sc)
    BY <2>1, ToldIs
  <2> QED BY <2>2 DEF P
<1>7. Playbill[d][sc][sp] = Timers(d, sc, sp)
  BY DEF Playbill
<1> QED BY <1>6, <1>7

-----------------------------------------------------------------------------
(* What the page knows after the first n events of a demo.                  *)
Fired(P, n, y, f) == \E i \in 1..n : P[i].type = y /\ P[i].on = f
FiredOn(P, n, y) == {f \in Names : Fired(P, n, y, f)}
Attempted(P, n, f) ==
  \E k \in 1..n : /\ P[k].type = "SNIPER_TARGET_SELECTED" /\ P[k].on = f
                  /\ \A l \in 1..n : k < l => ~(P[l].type = "SNIPER_CONFIRMED" /\ P[l].on = f)
StatusTells(P, n) ==
  \A f \in Names :
    /\ Fired(P, n, "SCANNER_FINDING_DISCOVERED", f) => status[f] # "unseen"
    /\ status[f] = "VERIFYING" => Attempted(P, n, f)
    /\ status[f] = "CRITIC_VERIFIED" <=> Fired(P, n, "CRITIC_APPROVED", f)
RevealedTells(P, n) ==
  /\ FiredOn(P, n, "PLANNER_COMPLETED") \subseteq revealed["targets"]
  /\ revealed["exploits"] = FiredOn(P, n, "SNIPER_CONFIRMED")
  /\ revealed["patches"] = FiredOn(P, n, "ENGINEER_PATCH_GENERATED")
  /\ revealed["pulls"] = FiredOn(P, n, "REMEDIATION_PR_CREATED")
StateTells(P, n, sc) ==
  /\ n < Len(P) => scanState = "RUNNING"
  /\ n = Len(P) => scanState = IF sc = "full_approved" THEN "COMPLETED" ELSE "FAILED"

Bookings == {NoShow} \cup [demo : Demos, scenario : Scenarios, speed : Speeds, seq : Nat]
WellFormed ==
  /\ show \in Bookings /\ (show # NoShow => show.seq \in 0..Len(Program))
  /\ booked \in Bookings
  /\ status \in [Names -> FindingStatuses] /\ revealed \in [Kinds -> SUBSET Names]
  /\ scanState \in {"IDLE", "RUNNING", "COMPLETED", "FAILED"}
  /\ opened \in Demos \cup {RealScan, "none"} /\ effectOn \in Demos \cup {RealScan, "none"}
  /\ again \in BOOLEAN /\ missed \in BOOLEAN /\ starts \in 0..MaxStarts
Subscribed ==
  /\ opened \in Demos => booked # NoShow /\ booked.demo = opened /\ booked.seq = 0
  /\ opened \in Demos /\ opened # effectOn => show = NoShow
  /\ opened \in Demos /\ opened = effectOn /\ show = NoShow => again
Retold ==
  show # NoShow /\ effectOn \in Demos =>
    /\ show.demo = effectOn /\ ~missed
    /\ StatusTells(Program, show.seq) /\ RevealedTells(Program, show.seq) /\ StateTells(Program, show.seq, show.scenario)
DemoInv == WellFormed /\ Subscribed /\ Retold

LEMMA FiredNext ==
  ASSUME NEW P, NEW n \in Nat, NEW y, NEW f
  PROVE  Fired(P, n + 1, y, f) <=> Fired(P, n, y, f) \/ (P[n+1].type = y /\ P[n+1].on = f)
<1>1. \A i \in 1..(n+1) : i \in 1..n \/ i = n + 1
  OBVIOUS
<1>2. 1..n \subseteq 1..(n+1) /\ n + 1 \in 1..(n+1)
  OBVIOUS
<1> QED BY <1>1, <1>2 DEF Fired

LEMMA FiredEarlier ==
  ASSUME NEW d, NEW sc, NEW P, Told(P, d, sc), NEW n \in Nat, n + 1 \in DOMAIN P, NEW y, NEW f, Has(P, y, f),
         Phase(y) < Phase(P[n+1].type)
  PROVE  Fired(P, n, y, f)
<1>1. PICK i \in DOMAIN P : P[i].type = y /\ P[i].on = f
  BY DEF Has
<1>2. i < n + 1
  BY <1>1 DEF Told, Falls
<1>3. i \in Nat /\ i >= 1
  BY LenProperties DEF Told
<1>4. i \in 1..n
  BY <1>2, <1>3
<1> QED BY <1>1, <1>4 DEF Fired

LEMMA NotYet ==
  ASSUME NEW d, NEW sc, NEW P, Told(P, d, sc), NEW n \in Nat, n + 1 \in DOMAIN P, NEW y, NEW f, Fired(P, n, y, f)
  PROVE  ~(Phase(P[n+1].type) < Phase(y))
<1>1. PICK i \in 1..n : P[i].type = y /\ P[i].on = f
  BY DEF Fired
<1>2. DOMAIN P = 1..Len(P) /\ Len(P) \in Nat
  BY LenProperties DEF Told
<1>3. i \in DOMAIN P /\ ~(n + 1 < i)
  BY <1>2
<1> QED BY <1>1, <1>3 DEF Told, Falls

LEMMA FiredIs ==
  ASSUME NEW d, NEW sc, NEW P, Told(P, d, sc), NEW n \in 0..Len(P), NEW y, NEW f, Fired(P, n, y, f)
  PROVE  Has(P, y, f) /\ Allowed(d, sc, y, f) /\ f \in ToSet(FindingsIn[d]) \cup {"none"}
<1>1. PICK i \in 1..n : P[i].type = y /\ P[i].on = f
  BY DEF Fired
<1>2. DOMAIN P = 1..Len(P) /\ Len(P) \in Nat /\ P \in Seq(Beats(d, sc))
  BY LenProperties DEF Told
<1>3. i \in DOMAIN P
  BY <1>2
<1>4. P[i] \in Beats(d, sc)
  BY <1>2, <1>3, ElementOfSeq
<1> QED BY <1>1, <1>3, <1>4 DEF Has, Beats

(* What an event does to the page.                                          *)
Resets == {"SCAN_STARTED", "SCANNER_STARTED"}
Marking == {"SNIPER_TARGET_SELECTED", "SNIPER_CONFIRMED", "ENGINEER_PATCH_GENERATED", "CRITIC_APPROVED", "CRITIC_REJECTED"}
StatusStep(e) ==
  /\ status' \in [Names -> FindingStatuses]
  /\ e.type \in Resets => \A f \in Names : status'[f] = "unseen"
  /\ e.type \notin Resets => \A f \in Names :
       /\ status'[f] = "unseen" => status[f] = "unseen" /\ ~(e.type = "SCANNER_FINDING_DISCOVERED" /\ e.on = f)
       /\ status'[f] = "VERIFYING" => \/ status[f] = "VERIFYING" /\ ~(e.type = "SNIPER_CONFIRMED" /\ e.on = f)
                                      \/ e.type = "SNIPER_TARGET_SELECTED" /\ e.on = f
       /\ status'[f] = "CRITIC_VERIFIED" => status[f] = "CRITIC_VERIFIED" \/ (e.type = "CRITIC_APPROVED" /\ e.on = f)
       /\ status[f] # "unseen" /\ e.type = "CRITIC_APPROVED" /\ e.on = f => status'[f] = "CRITIC_VERIFIED"
       /\ status[f] = "CRITIC_VERIFIED" /\ status'[f] # "CRITIC_VERIFIED" =>
            e.on = f /\ e.type \in Marking \ {"CRITIC_APPROVED"}
RevealedStep(e) ==
  /\ revealed' \in [Kinds -> SUBSET Names]
  /\ e.type = "SCAN_STARTED" => revealed' = NothingRevealed
  /\ e.type # "SCAN_STARTED" =>
       /\ revealed["targets"] \subseteq revealed'["targets"]
       /\ e.type = "PLANNER_COMPLETED" /\ e.on # "none" => e.on \in revealed'["targets"]
       /\ revealed'["exploits"] = revealed["exploits"] \cup IF e.type = "SNIPER_CONFIRMED" THEN {e.on} ELSE {}
       /\ revealed'["patches"] = revealed["patches"] \cup IF e.type = "ENGINEER_PATCH_GENERATED" THEN {e.on} ELSE {}
       /\ revealed'["pulls"] = revealed["pulls"] \cup
            IF e.type = "REMEDIATION_PR_CREATED" /\ e.on \in revealed["patches"] THEN {e.on} ELSE {}
StateStep(e) ==
  scanState' = IF e.type = "SCAN_STARTED" THEN "RUNNING"
               ELSE IF e.type = "SCAN_COMPLETED" THEN "COMPLETED"
               ELSE IF e.type = "SCAN_FAILED" THEN "FAILED" ELSE scanState
Known(e) ==
  /\ e.on \in Names \cup {"none"}
  /\ e.type \in {"SCOUT_ENDPOINT_DISCOVERED", "SNIPER_CONFIRMED", "ENGINEER_PATCH_GENERATED"} => e.on \in Names

LEMMA UnseenIs == "unseen" \in FindingStatuses /\ [f \in Names |-> "unseen"] \in [Names -> FindingStatuses]
                  /\ NothingRevealed \in [Kinds -> SUBSET Names]
BY DEF FindingStatuses, NothingRevealed

LEMMA MarksAre ==
  ASSUME NEW f, NEW s \in FindingStatuses, status \in [Names -> FindingStatuses], Marks(f, s)
  PROVE  /\ status' \in [Names -> FindingStatuses]
         /\ \A g \in Names : status'[g] = IF g = f /\ status[f] # "unseen" THEN s ELSE status[g]
<1>1. status' = [status EXCEPT ![f] = IF status[f] = "unseen" THEN status[f] ELSE s]
  BY DEF Marks
<1>2. \A g \in Names : status'[g] = IF g = f /\ status[f] # "unseen" THEN s ELSE status[g]
  BY <1>1
<1>3. status' = [g \in Names |-> status'[g]]
  BY <1>1
<1>4. \A g \in Names : status'[g] \in FindingStatuses
  BY <1>2
<1> QED BY <1>2, <1>3, <1>4

LEMMA RevealIs ==
  ASSUME NEW kind \in Kinds, NEW f \in Names, revealed \in [Kinds -> SUBSET Names], Reveal(kind, f)
  PROVE  /\ revealed' \in [Kinds -> SUBSET Names]
         /\ \A k \in Kinds : revealed'[k] = revealed[k] \cup IF k = kind THEN {f} ELSE {}
<1>1. revealed' = [revealed EXCEPT ![kind] = revealed[kind] \cup {f}]
  BY DEF Reveal
<1>2. \A k \in Kinds : revealed'[k] = revealed[k] \cup IF k = kind THEN {f} ELSE {}
  BY <1>1
<1>3. revealed[kind] \cup {f} \in SUBSET Names
  OBVIOUS
<1> QED BY <1>1, <1>2, <1>3

LEMMA StatusSteps ==
  ASSUME NEW e, HandleStreamEvent(e), status \in [Names -> FindingStatuses], revealed \in [Kinds -> SUBSET Names]
  PROVE  StatusStep(e)
<1>1. CASE e.type \in Resets
  <2>1. status' = [f \in Names |-> "unseen"]
    BY <1>1 DEF Resets, HandleStreamEvent, ResetRevealed
  <2>2. \A f \in Names : status'[f] = "unseen"
    BY <2>1
  <2> QED BY <1>1, <2>1, <2>2, UnseenIs DEF StatusStep
<1>2. CASE e.type = "SCANNER_FINDING_DISCOVERED"
  <2>1. status' = [status EXCEPT ![e.on] = IF status[e.on] = "unseen" THEN "DISCOVERED" ELSE status[e.on]]
    BY <1>2 DEF HandleStreamEvent
  <2>2. \A f \in Names : status'[f] = IF f = e.on /\ status[f] = "unseen" THEN "DISCOVERED" ELSE status[f]
    BY <2>1
  <2>3. status' \in [Names -> FindingStatuses]
    <3>1. status' = [f \in Names |-> status'[f]]
      BY <2>1
    <3>2. \A f \in Names : status'[f] \in FindingStatuses
      BY <2>2 DEF FindingStatuses
    <3> QED BY <3>1, <3>2
  <2> QED BY <1>2, <2>2, <2>3 DEF StatusStep, Resets, Marking
<1>3. CASE e.type = "PLANNER_COMPLETED"
  <2> DEFINE planned == revealed.targets \cup ({e.on} \ {"none"})
  <2>1. status' = [f \in Names |-> IF f \in planned /\ status[f] = "DISCOVERED" THEN "PLANNED" ELSE status[f]]
    BY <1>3 DEF HandleStreamEvent
  <2> HIDE DEF planned
  <2>2. \A f \in Names : status'[f] = IF f \in planned /\ status[f] = "DISCOVERED" THEN "PLANNED" ELSE status[f]
    BY <2>1
  <2>3. status' \in [Names -> FindingStatuses]
    <3>1. \A f \in Names : status'[f] \in FindingStatuses
      BY <2>2 DEF FindingStatuses
    <3> QED BY <2>1, <3>1
  <2> QED BY <1>3, <2>2, <2>3 DEF StatusStep, Resets, Marking
<1>4. CASE e.type \in Marking
  <2> DEFINE s == CASE e.type = "SNIPER_TARGET_SELECTED" -> "VERIFYING" [] e.type = "SNIPER_CONFIRMED" -> "EXPLOIT_CONFIRMED"
                    [] e.type = "ENGINEER_PATCH_GENERATED" -> "PATCHED" [] e.type = "CRITIC_APPROVED" -> "CRITIC_VERIFIED"
                    [] OTHER -> "EXPLOIT_REJECTED"
  <2>1. s \in FindingStatuses
    BY <1>4 DEF Marking, FindingStatuses
  <2>2. Marks(e.on, s)
    BY <1>4 DEF Marking, HandleStreamEvent
  <2>3. /\ s = "VERIFYING" <=> e.type = "SNIPER_TARGET_SELECTED"
        /\ s = "CRITIC_VERIFIED" <=> e.type = "CRITIC_APPROVED"
        /\ s # "unseen" /\ (e.type = "SNIPER_CONFIRMED" => s = "EXPLOIT_CONFIRMED")
    BY <1>4 DEF Marking
  <2> HIDE DEF s
  <2>4. /\ status' \in [Names -> FindingStatuses]
        /\ \A g \in Names : status'[g] = IF g = e.on /\ status[e.on] # "unseen" THEN s ELSE status[g]
    BY <2>1, <2>2, MarksAre
  <2>5. e.type \notin Resets /\ e.type # "SCANNER_FINDING_DISCOVERED"
    BY <1>4 DEF Resets, Marking
  <2> QED BY <1>4, <2>3, <2>4, <2>5 DEF StatusStep
<1>5. CASE e.type \notin Resets \cup Marking \cup {"SCANNER_FINDING_DISCOVERED", "PLANNER_COMPLETED"}
  <2>1. status' = status
    BY <1>5 DEF Resets, Marking, HandleStreamEvent, Quiet
  <2> QED BY <1>5, <2>1 DEF StatusStep, Marking
<1> QED BY <1>1, <1>2, <1>3, <1>4, <1>5

LEMMA RevealedSteps ==
  ASSUME NEW e, HandleStreamEvent(e), Known(e), status \in [Names -> FindingStatuses], revealed \in [Kinds -> SUBSET Names]
  PROVE  RevealedStep(e)
<1>0. {"targets", "endpoints", "exploits", "patches", "pulls"} = Kinds
  BY DEF Kinds
<1>1. CASE e.type = "SCAN_STARTED"
  <2>1. revealed' = NothingRevealed
    BY <1>1 DEF HandleStreamEvent, ResetRevealed
  <2> QED BY <1>1, <2>1, UnseenIs DEF RevealedStep
<1>2. CASE e.type = "PLANNER_COMPLETED"
  <2> DEFINE planned == revealed.targets \cup ({e.on} \ {"none"})
  <2>1. revealed' = [revealed EXCEPT !["targets"] = planned]
    BY <1>2 DEF HandleStreamEvent
  <2>2. planned \in SUBSET Names
    BY <1>0 DEF Known
  <2>3. revealed["targets"] \subseteq planned /\ (e.on # "none" => e.on \in planned)
    OBVIOUS
  <2> HIDE DEF planned
  <2>4. revealed' \in [Kinds -> SUBSET Names]
    BY <2>1, <2>2
  <2>5. /\ revealed'["targets"] = planned /\ revealed'["exploits"] = revealed["exploits"]
        /\ revealed'["patches"] = revealed["patches"] /\ revealed'["pulls"] = revealed["pulls"]
    BY <1>0, <2>1
  <2> QED BY <1>2, <2>3, <2>4, <2>5 DEF RevealedStep
<1>3. CASE e.type \in {"SCOUT_ENDPOINT_DISCOVERED", "SNIPER_CONFIRMED", "ENGINEER_PATCH_GENERATED"}
  <2> DEFINE kind == CASE e.type = "SCOUT_ENDPOINT_DISCOVERED" -> "endpoints" [] e.type = "SNIPER_CONFIRMED" -> "exploits"
                       [] OTHER -> "patches"
  <2>1. kind \in Kinds /\ Reveal(kind, e.on)
    BY <1>0, <1>3 DEF HandleStreamEvent
  <2>2. /\ kind # "targets" /\ kind # "pulls" /\ (kind = "exploits" <=> e.type = "SNIPER_CONFIRMED")
        /\ kind = "patches" <=> e.type = "ENGINEER_PATCH_GENERATED"
    BY <1>3
  <2> HIDE DEF kind
  <2>3. e.on \in Names
    BY <1>3 DEF Known
  <2>4. /\ revealed' \in [Kinds -> SUBSET Names]
        /\ \A k \in Kinds : revealed'[k] = revealed[k] \cup IF k = kind THEN {e.on} ELSE {}
    BY <2>1, <2>3, RevealIs
  <2>5. /\ revealed'["targets"] = revealed["targets"] /\ revealed'["pulls"] = revealed["pulls"]
        /\ revealed'["exploits"] = revealed["exploits"] \cup IF e.type = "SNIPER_CONFIRMED" THEN {e.on} ELSE {}
        /\ revealed'["patches"] = revealed["patches"] \cup IF e.type = "ENGINEER_PATCH_GENERATED" THEN {e.on} ELSE {}
    BY <1>0, <2>2, <2>4
  <2> QED BY <1>3, <2>4, <2>5 DEF RevealedStep
<1>4. CASE e.type = "REMEDIATION_PR_CREATED"
  <2>1. CASE e.on \in revealed["patches"]
    <3>1. Reveal("pulls", e.on) /\ e.on \in Names
      BY <1>0, <1>4, <2>1 DEF HandleStreamEvent
    <3>2. /\ revealed' \in [Kinds -> SUBSET Names]
          /\ \A k \in Kinds : revealed'[k] = revealed[k] \cup IF k = "pulls" THEN {e.on} ELSE {}
      BY <1>0, <3>1, RevealIs
    <3>3. /\ revealed'["targets"] = revealed["targets"] /\ revealed'["exploits"] = revealed["exploits"]
          /\ revealed'["patches"] = revealed["patches"] /\ revealed'["pulls"] = revealed["pulls"] \cup {e.on}
      BY <1>0, <3>2
    <3> QED BY <1>4, <2>1, <3>2, <3>3 DEF RevealedStep
  <2>2. CASE e.on \notin revealed["patches"]
    <3>1. revealed' = revealed
      BY <1>4, <2>2 DEF HandleStreamEvent
    <3> QED BY <1>4, <2>2, <3>1 DEF RevealedStep
  <2> QED BY <2>1, <2>2
<1>5. CASE e.type \notin {"SCAN_STARTED", "PLANNER_COMPLETED", "SCOUT_ENDPOINT_DISCOVERED", "SNIPER_CONFIRMED",
                          "ENGINEER_PATCH_GENERATED", "REMEDIATION_PR_CREATED"}
  <2>1. revealed' = revealed
    BY <1>5 DEF HandleStreamEvent, Quiet
  <2> QED BY <1>5, <2>1 DEF RevealedStep
<1> QED BY <1>1, <1>2, <1>3, <1>4, <1>5

LEMMA StateSteps ==
  ASSUME NEW e, HandleStreamEvent(e)
  PROVE  StateStep(e)
<1>1. CASE e.type = "SCAN_STARTED"
  BY <1>1 DEF HandleStreamEvent, ResetRevealed, StateStep
<1>2. CASE e.type \in {"SCAN_COMPLETED", "SCAN_FAILED"}
  BY <1>2 DEF HandleStreamEvent, StateStep
<1>3. CASE e.type \notin {"SCAN_STARTED", "SCAN_COMPLETED", "SCAN_FAILED"}
  <2>1. scanState' = scanState
    BY <1>3 DEF HandleStreamEvent, Quiet
  <2> QED BY <1>3, <2>1 DEF StateStep
<1> QED BY <1>1, <1>2, <1>3

LEMMA NamesAre ==
  ASSUME DemoAssumption, NEW d \in Demos
  PROVE  /\ ToSet(FindingsIn[d]) \subseteq Names /\ "none" \notin Names
         /\ ToSet(PatchedIn[d]) \subseteq Names /\ ToSet(ExploitedIn[d]) \subseteq Names
<1>1. \A c \in Demos : ToSet(FindingsIn[c]) = {FindingsIn[c][i] : i \in DOMAIN FindingsIn[c]}
  BY DEF ToSet
<1>2. ToSet(FindingsIn[d]) \subseteq Names
  <2>1. {FindingsIn[d][i] : i \in DOMAIN FindingsIn[d]} \in {{FindingsIn[c][i] : i \in DOMAIN FindingsIn[c]} : c \in Demos}
    OBVIOUS
  <2> QED BY <1>1, <2>1 DEF Names
<1>3. "none" \notin Names
  <2> SUFFICES ASSUME NEW c \in Demos, "none" \in {FindingsIn[c][i] : i \in DOMAIN FindingsIn[c]} PROVE FALSE
    BY DEF Names
  <2> QED BY <1>1, DemoLists
<1> QED BY <1>2, <1>3, DemoLists

(* The next event of what is played.                                        *)
NextIs(P, n, d, sc, e) ==
  /\ n + 1 \in DOMAIN P /\ P[n+1] = e /\ e \in Beats(d, sc) /\ Phase(e.type) \in 1..14 /\ Known(e)
  /\ Allowed(d, sc, e.type, e.on)
LEMMA NextEvent ==
  ASSUME DemoAssumption, NEW d \in Demos, NEW sc, NEW P, Told(P, d, sc), NEW n \in Nat, n < Len(P)
  PROVE  NextIs(P, n, d, sc, P[n+1])
<1>1. DOMAIN P = 1..Len(P) /\ Len(P) \in Nat /\ P \in Seq(Beats(d, sc))
  BY LenProperties DEF Told
<1>2. n + 1 \in DOMAIN P
  BY <1>1
<1>3. P[n+1] \in Beats(d, sc)
  BY <1>1, <1>2, ElementOfSeq
<1>4. Phase(P[n+1].type) \in 1..14
  BY <1>2 DEF Told
<1>5. P[n+1].on \in ToSet(FindingsIn[d]) \cup {"none"} /\ Allowed(d, sc, P[n+1].type, P[n+1].on)
  BY <1>3 DEF Beats
<1>6. Known(P[n+1])
  BY <1>5, NamesAre DEF Known, Allowed
<1> QED BY <1>2, <1>3, <1>4, <1>5, <1>6 DEF NextIs

LEMMA StatusHolds ==
  ASSUME DemoAssumption, NEW d \in Demos, NEW sc \in Scenarios, NEW P, Told(P, d, sc), NEW n \in Nat, n < Len(P),
         status \in [Names -> FindingStatuses], StatusStep(P[n+1]), StatusTells(P, n)
  PROVE  StatusTells(P, n + 1)'
<1> DEFINE e == P[n+1]
<1>1. NextIs(P, n, d, sc, e)
  BY NextEvent
<1>2. n + 1 \in DOMAIN P /\ Allowed(d, sc, e.type, e.on) /\ n \in 0..Len(P)
  BY <1>1, LenProperties DEF NextIs, Told
<1>3. \A y, f : Fired(P, n + 1, y, f) <=> Fired(P, n, y, f) \/ (e.type = y /\ e.on = f)
  BY FiredNext
<1>4. \A y, f : Fired(P, n, y, f) => ~(Phase(e.type) < Phase(y))
  BY <1>2, NotYet
<1>5. CASE e.type \in Resets
  <2>1. Phase(e.type) = 1 /\ Phase("SCANNER_FINDING_DISCOVERED") = 2 /\ Phase("CRITIC_APPROVED") = 12
    BY <1>5 DEF Resets, Phase
  <2>2. e.type # "SCANNER_FINDING_DISCOVERED" /\ e.type # "CRITIC_APPROVED"
    BY <1>5 DEF Resets
  <2>3. \A f \in Names : ~Fired(P, n + 1, "SCANNER_FINDING_DISCOVERED", f) /\ ~Fired(P, n + 1, "CRITIC_APPROVED", f)
    BY <1>3, <1>4, <2>1, <2>2
  <2>4. \A f \in Names : status'[f] = "unseen"
    BY <1>5 DEF StatusStep
  <2> QED BY <2>3, <2>4 DEF StatusTells
<1>6. CASE e.type \notin Resets
  <2> SUFFICES ASSUME NEW f \in Names
               PROVE  /\ Fired(P, n + 1, "SCANNER_FINDING_DISCOVERED", f) => status'[f] # "unseen"
                      /\ status'[f] = "VERIFYING" => Attempted(P, n + 1, f)
                      /\ status'[f] = "CRITIC_VERIFIED" <=> Fired(P, n + 1, "CRITIC_APPROVED", f)
    BY DEF StatusTells
  <2>1. /\ Fired(P, n, "SCANNER_FINDING_DISCOVERED", f) => status[f] # "unseen"
        /\ status[f] = "VERIFYING" => Attempted(P, n, f)
        /\ status[f] = "CRITIC_VERIFIED" <=> Fired(P, n, "CRITIC_APPROVED", f)
    BY DEF StatusTells
  <2>2. /\ status'[f] = "unseen" => status[f] = "unseen" /\ ~(e.type = "SCANNER_FINDING_DISCOVERED" /\ e.on = f)
        /\ status'[f] = "VERIFYING" => \/ status[f] = "VERIFYING" /\ ~(e.type = "SNIPER_CONFIRMED" /\ e.on = f)
                                       \/ e.type = "SNIPER_TARGET_SELECTED" /\ e.on = f
        /\ status'[f] = "CRITIC_VERIFIED" => status[f] = "CRITIC_VERIFIED" \/ (e.type = "CRITIC_APPROVED" /\ e.on = f)
        /\ status[f] # "unseen" /\ e.type = "CRITIC_APPROVED" /\ e.on = f => status'[f] = "CRITIC_VERIFIED"
        /\ status[f] = "CRITIC_VERIFIED" /\ status'[f] # "CRITIC_VERIFIED" =>
             e.on = f /\ e.type \in Marking \ {"CRITIC_APPROVED"}
    BY <1>6 DEF StatusStep
  <2>3. Fired(P, n + 1, "SCANNER_FINDING_DISCOVERED", f) => status'[f] # "unseen"
    BY <1>3, <2>1, <2>2
  <2>4. status'[f] = "VERIFYING" => Attempted(P, n + 1, f)
    <3>1. CASE status[f] = "VERIFYING" /\ ~(e.type = "SNIPER_CONFIRMED" /\ e.on = f)
      <4>1. PICK k \in 1..n : /\ P[k].type = "SNIPER_TARGET_SELECTED" /\ P[k].on = f
                              /\ \A l \in 1..n : k < l => ~(P[l].type = "SNIPER_CONFIRMED" /\ P[l].on = f)
        BY <2>1, <3>1 DEF Attempted
      <4>2. k \in 1..(n+1) /\ \A l \in 1..(n+1) : l \in 1..n \/ l = n + 1
        OBVIOUS
      <4>3. \A l \in 1..(n+1) : k < l => ~(P[l].type = "SNIPER_CONFIRMED" /\ P[l].on = f)
        BY <3>1, <4>1, <4>2
      <4> QED BY <4>1, <4>2, <4>3 DEF Attempted
    <3>2. CASE e.type = "SNIPER_TARGET_SELECTED" /\ e.on = f
      <4>1. n + 1 \in 1..(n+1) /\ \A l \in 1..(n+1) : ~(n + 1 < l)
        OBVIOUS
      <4> QED BY <3>2, <4>1 DEF Attempted
    <3> QED BY <2>2, <3>1, <3>2
  <2>5. ASSUME status'[f] = "CRITIC_VERIFIED" PROVE Fired(P, n + 1, "CRITIC_APPROVED", f)
    BY <1>3, <2>1, <2>2, <2>5
  <2>6. ASSUME e.type = "CRITIC_APPROVED", e.on = f PROVE status'[f] = "CRITIC_VERIFIED"
    <3>1. f \in ToSet(PatchedIn[d])
      BY <1>2, <2>6 DEF Allowed
    <3>2. f \in ToSet(FindingsIn[d])
      BY <3>1, DemoLists
    <3>3. Has(P, "SCANNER_FINDING_DISCOVERED", f)
      BY <3>2 DEF Told, Recounts, Says
    <3>4. Phase("SCANNER_FINDING_DISCOVERED") < Phase(e.type)
      BY <2>6 DEF Phase
    <3>5. Fired(P, n, "SCANNER_FINDING_DISCOVERED", f)
      BY <1>2, <3>3, <3>4, FiredEarlier
    <3> QED BY <2>1, <2>2, <2>6, <3>5
  <2>7. ASSUME Fired(P, n, "CRITIC_APPROVED", f), status'[f] # "CRITIC_VERIFIED" PROVE FALSE
    <3>1. e.on = f /\ e.type \in Marking \ {"CRITIC_APPROVED"}
      BY <2>1, <2>2, <2>7
    <3>2. ~(Phase(e.type) < 12)
      <4>1. Phase("CRITIC_APPROVED") = 12
        BY DEF Phase
      <4> QED BY <1>4, <2>7, <4>1
    <3>3. e.type = "CRITIC_REJECTED"
      BY <3>1, <3>2 DEF Marking, Phase
    <3>4. f \in RejectedIn(d, sc)
      BY <1>2, <3>1, <3>3 DEF Allowed
    <3>5. Allowed(d, sc, "CRITIC_APPROVED", f)
      BY <1>2, <2>7, FiredIs
    <3> QED BY <3>4, <3>5 DEF Allowed
  <2> QED BY <1>3, <2>3, <2>4, <2>5, <2>6, <2>7
<1> QED BY <1>5, <1>6

LEMMA RevealedHolds ==
  ASSUME DemoAssumption, NEW d \in Demos, NEW sc \in Scenarios, NEW P, Told(P, d, sc), NEW n \in Nat, n < Len(P),
         revealed \in [Kinds -> SUBSET Names], RevealedStep(P[n+1]), RevealedTells(P, n)
  PROVE  RevealedTells(P, n + 1)'
<1> DEFINE e == P[n+1]
<1>1. NextIs(P, n, d, sc, e)
  BY NextEvent
<1>2. n + 1 \in DOMAIN P /\ Allowed(d, sc, e.type, e.on) /\ Known(e)
  BY <1>1 DEF NextIs
<1>3. \A y, f : Fired(P, n + 1, y, f) <=> Fired(P, n, y, f) \/ (e.type = y /\ e.on = f)
  BY FiredNext
<1>4. \A y, f : Fired(P, n, y, f) => ~(Phase(e.type) < Phase(y))
  BY <1>2, NotYet
<1>5. CASE e.type = "SCAN_STARTED"
  <2>1. Phase(e.type) = 1 /\ Phase("PLANNER_COMPLETED") = 6 /\ Phase("SNIPER_CONFIRMED") = 8
        /\ Phase("ENGINEER_PATCH_GENERATED") = 10 /\ Phase("REMEDIATION_PR_CREATED") = 12
    BY <1>5 DEF Phase
  <2>2. \A f \in Names : /\ ~Fired(P, n + 1, "PLANNER_COMPLETED", f) /\ ~Fired(P, n + 1, "SNIPER_CONFIRMED", f)
                         /\ ~Fired(P, n + 1, "ENGINEER_PATCH_GENERATED", f) /\ ~Fired(P, n + 1, "REMEDIATION_PR_CREATED", f)
    <3>1. ASSUME NEW y, NEW f, y # "SCAN_STARTED", 1 < Phase(y) PROVE ~Fired(P, n + 1, y, f)
      <4>1. ~Fired(P, n, y, f)
        BY <1>4, <2>1, <3>1
      <4> QED BY <1>3, <1>5, <3>1, <4>1
    <3> DEFINE Later == {"PLANNER_COMPLETED", "SNIPER_CONFIRMED", "ENGINEER_PATCH_GENERATED", "REMEDIATION_PR_CREATED"}
    <3>2. \A y \in Later : y # "SCAN_STARTED" /\ 1 < Phase(y)
      BY <2>1
    <3>3. \A y \in Later : \A f : ~Fired(P, n + 1, y, f)
      BY <3>1, <3>2
    <3> QED BY <3>3
  <2>3. revealed' = NothingRevealed
    BY <1>5 DEF RevealedStep
  <2>4. /\ NothingRevealed["targets"] = {} /\ NothingRevealed["exploits"] = {}
        /\ NothingRevealed["patches"] = {} /\ NothingRevealed["pulls"] = {}
    BY DEF NothingRevealed, Kinds
  <2> QED BY <2>2, <2>3, <2>4 DEF RevealedTells, FiredOn
<1>6. CASE e.type # "SCAN_STARTED"
  <2>0. /\ revealed["targets"] \subseteq revealed'["targets"]
        /\ e.type = "PLANNER_COMPLETED" /\ e.on # "none" => e.on \in revealed'["targets"]
        /\ revealed'["exploits"] = revealed["exploits"] \cup IF e.type = "SNIPER_CONFIRMED" THEN {e.on} ELSE {}
        /\ revealed'["patches"] = revealed["patches"] \cup IF e.type = "ENGINEER_PATCH_GENERATED" THEN {e.on} ELSE {}
        /\ revealed'["pulls"] = revealed["pulls"] \cup
             IF e.type = "REMEDIATION_PR_CREATED" /\ e.on \in revealed["patches"] THEN {e.on} ELSE {}
    BY <1>6 DEF RevealedStep
  <2>1. FiredOn(P, n + 1, "PLANNER_COMPLETED") \subseteq revealed'["targets"]
    <3> SUFFICES ASSUME NEW f \in Names, Fired(P, n + 1, "PLANNER_COMPLETED", f) PROVE f \in revealed'["targets"]
      BY DEF FiredOn
    <3>1. CASE Fired(P, n, "PLANNER_COMPLETED", f)
      BY <2>0, <3>1 DEF RevealedTells, FiredOn
    <3>2. CASE e.type = "PLANNER_COMPLETED" /\ e.on = f
      BY <2>0, <3>2, NamesAre
    <3> QED BY <1>3, <3>1, <3>2
  <2>2. ASSUME NEW y, e.type = y => e.on \in Names
        PROVE  FiredOn(P, n + 1, y) = FiredOn(P, n, y) \cup IF e.type = y THEN {e.on} ELSE {}
    BY <1>3, <2>2 DEF FiredOn
  <2>3. FiredOn(P, n + 1, "SNIPER_CONFIRMED") = revealed'["exploits"]
    BY <1>2, <2>0, <2>2 DEF Known, RevealedTells
  <2>4. FiredOn(P, n + 1, "ENGINEER_PATCH_GENERATED") = revealed'["patches"]
    BY <1>2, <2>0, <2>2 DEF Known, RevealedTells
  <2>5. ASSUME e.type = "REMEDIATION_PR_CREATED" PROVE e.on \in revealed["patches"] /\ e.on \in Names
    <3>1. e.on \in ToSet(PatchedIn[d])
      BY <1>2, <2>5 DEF Allowed
    <3>2. Has(P, "ENGINEER_PATCH_GENERATED", e.on)
      BY <3>1 DEF Told, Recounts, Says
    <3>3. Phase("ENGINEER_PATCH_GENERATED") < Phase(e.type)
      BY <2>5 DEF Phase
    <3>4. Fired(P, n, "ENGINEER_PATCH_GENERATED", e.on)
      BY <1>2, <3>2, <3>3, FiredEarlier
    <3> QED BY <3>1, <3>4, NamesAre DEF RevealedTells, FiredOn
  <2>6. FiredOn(P, n + 1, "REMEDIATION_PR_CREATED") = revealed'["pulls"]
    <3>1. FiredOn(P, n + 1, "REMEDIATION_PR_CREATED")
            = FiredOn(P, n, "REMEDIATION_PR_CREATED") \cup IF e.type = "REMEDIATION_PR_CREATED" THEN {e.on} ELSE {}
      BY <2>2, <2>5
    <3> QED BY <2>0, <2>5, <3>1 DEF RevealedTells
  <2> QED BY <2>1, <2>3, <2>4, <2>6 DEF RevealedTells
<1> QED BY <1>5, <1>6

(* The verdict on the scan is the last event of what is played.             *)
LEMMA LastIs ==
  ASSUME NEW d, NEW sc, NEW P, Told(P, d, sc)
  PROVE  /\ Len(P) \in Nat \ {0} /\ \A i \in DOMAIN P : Phase(P[i].type) = 14 <=> i = Len(P)
         /\ P[Len(P)].type = Verdict(sc)
<1>1. PICK k \in DOMAIN P : P[k].type = Verdict(sc)
  BY DEF Told, Recounts, Has
<1>2. Phase(Verdict(sc)) = 14
  BY DEF Phase, Verdict
<1>3. DOMAIN P = 1..Len(P) /\ Len(P) \in Nat
  BY LenProperties DEF Told
<1>4. ASSUME NEW i \in DOMAIN P, i # k PROVE i < k /\ Phase(P[i].type) # 14
  <2>1. Phase(P[i].type) # 14
    BY <1>1, <1>2, <1>4 DEF Told, EndsOnce
  <2>2. Phase(P[i].type) < 14
    BY <2>1 DEF Told
  <2> QED BY <1>1, <1>2, <2>1, <2>2 DEF Told, Falls
<1>5. k = Len(P)
  <2>1. Len(P) \in DOMAIN P /\ k <= Len(P)
    BY <1>3
  <2>2. Len(P) # k => Len(P) < k
    BY <1>4, <2>1
  <2> QED BY <1>3, <2>1, <2>2
<1> QED BY <1>1, <1>2, <1>3, <1>4, <1>5

LEMMA StateHolds ==
  ASSUME DemoAssumption, NEW d \in Demos, NEW sc \in Scenarios, NEW P, Told(P, d, sc), NEW n \in Nat, n < Len(P),
         StateStep(P[n+1]), StateTells(P, n, sc)
  PROVE  StateTells(P, n + 1, sc)'
<1> DEFINE e == P[n+1]
<1>1. n + 1 \in DOMAIN P
  BY NextEvent DEF NextIs
<1>2. /\ Len(P) \in Nat \ {0} /\ (Phase(e.type) = 14 <=> n + 1 = Len(P))
      /\ n + 1 = Len(P) => e.type = Verdict(sc)
  BY <1>1, LastIs
<1>3. scanState = "RUNNING"
  BY DEF StateTells
<1> HIDE DEF e
<1>4. scanState' = IF e.type = "SCAN_STARTED" THEN "RUNNING"
                   ELSE IF e.type = "SCAN_COMPLETED" THEN "COMPLETED"
                   ELSE IF e.type = "SCAN_FAILED" THEN "FAILED" ELSE scanState
  BY DEF StateStep, e
<1>5. CASE n + 1 = Len(P)
  <2>1. scanState' = IF sc = "full_approved" THEN "COMPLETED" ELSE "FAILED"
    BY <1>2, <1>4, <1>5 DEF Verdict
  <2>2. ~(n + 1 < Len(P))
    BY <1>2, <1>5
  <2> QED BY <2>1, <2>2 DEF StateTells
<1>6. CASE n + 1 # Len(P)
  <2>1. e.type \notin {"SCAN_COMPLETED", "SCAN_FAILED"}
    BY <1>2, <1>6 DEF Phase
  <2>2. scanState' = "RUNNING"
    BY <1>3, <1>4, <2>1
  <2> QED BY <1>6, <2>2 DEF StateTells
<1> QED BY <1>5, <1>6

LEMMA ShowIs ==
  ASSUME DemoAssumption, NEW p \in Bookings
  PROVE  /\ p # NoShow => p.demo \in Demos /\ p.scenario \in Scenarios /\ p.speed \in Speeds /\ p.seq \in Nat
         /\ NoShow \in Bookings
BY DEF Bookings, NoShow

Advanced(p, q, n) ==
  q \in Bookings /\ q # NoShow /\ q.demo = p.demo /\ q.scenario = p.scenario /\ q.speed = p.speed /\ q.seq = n
LEMMA AdvancedIs ==
  ASSUME DemoAssumption, NEW p \in Bookings, p # NoShow, NEW n \in Nat
  PROVE  Advanced(p, [p EXCEPT !.seq = n], n)
<1> DEFINE R == [demo : Demos, scenario : Scenarios, speed : Speeds, seq : Nat]
           q == [p EXCEPT !.seq = n]
<1>1. p \in R
  BY DEF Bookings
<1>2. q.demo = p.demo /\ q.scenario = p.scenario /\ q.speed = p.speed /\ q.seq = n
  BY <1>1
<1>4. q \in R
  BY <1>1
<1>5. q # NoShow
  BY <1>1, <1>2 DEF NoShow, DemoAssumption
<1> HIDE DEF q
<1>6. Advanced(p, q, n)
  BY <1>2, <1>4, <1>5 DEF Advanced, Bookings
<1> QED BY <1>6 DEF q

LEMMA BookedIs ==
  ASSUME DemoAssumption, NEW d \in Demos, NEW sc \in Scenarios, NEW sp \in Speeds
  PROVE  /\ [demo |-> d, scenario |-> sc, speed |-> sp, seq |-> 0] \in Bookings
         /\ [demo |-> d, scenario |-> sc, speed |-> sp, seq |-> 0] # NoShow
BY DEF Bookings, NoShow, DemoAssumption

(* At the beginning of what is played nothing is known.                     *)
LEMMA NothingFired ==
  ASSUME NEW P, NEW y
  PROVE  FiredOn(P, 0, y) = {} /\ \A f : ~Fired(P, 0, y, f)
<1>1. 1..0 = {}
  OBVIOUS
<1> QED BY <1>1 DEF FiredOn, Fired

LEMMA ResetTells ==
  ASSUME NEW d, NEW sc, NEW P, Told(P, d, sc), ResetRevealed
  PROVE  /\ StatusTells(P, 0)' /\ RevealedTells(P, 0)' /\ StateTells(P, 0, sc)'
         /\ status' \in [Names -> FindingStatuses] /\ revealed' \in [Kinds -> SUBSET Names] /\ scanState' = "RUNNING"
<1>1. status' = [f \in Names |-> "unseen"] /\ revealed' = NothingRevealed /\ scanState' = "RUNNING"
  BY DEF ResetRevealed
<1>2. \A f \in Names : status'[f] = "unseen"
  BY <1>1
<1>3. /\ NothingRevealed["targets"] = {} /\ NothingRevealed["exploits"] = {}
      /\ NothingRevealed["patches"] = {} /\ NothingRevealed["pulls"] = {}
  BY DEF NothingRevealed, Kinds
<1>4. 0 # Len(P)
  BY LastIs
<1>5. StatusTells(P, 0)'
  BY <1>2, NothingFired DEF StatusTells
<1>6. RevealedTells(P, 0)'
  BY <1>1, <1>3, NothingFired DEF RevealedTells
<1>7. StateTells(P, 0, sc)'
  BY <1>1, <1>4 DEF StateTells
<1> QED BY <1>1, <1>5, <1>6, <1>7, UnseenIs

LEMMA DemoStarts == DemoAssumption /\ DemoInit => DemoInv
<1> SUFFICES ASSUME DemoAssumption, DemoInit PROVE DemoInv
  OBVIOUS
<1> USE DEF DemoInit
<1>1. show = NoShow /\ booked = NoShow /\ NoShow \in Bookings
  BY DEF Bookings
<1>2. opened \notin Demos /\ MaxStarts \in Nat
  BY DEF DemoAssumption
<1>3. WellFormed
  <2>1. opened = "none" /\ effectOn = "none" /\ again = FALSE /\ missed = FALSE /\ scanState = "IDLE" /\ starts \in 0..MaxStarts
    BY <1>2
  <2>2. status \in [Names -> FindingStatuses] /\ revealed \in [Kinds -> SUBSET Names]
    BY UnseenIs
  <2> QED BY <1>1, <2>1, <2>2 DEF WellFormed
<1>4. Subscribed /\ Retold
  BY <1>1, <1>2 DEF Subscribed, Retold
<1> QED BY <1>3, <1>4 DEF DemoInv

(* The next timer of what is played.                                        *)
LEMMA FireKeeps ==
  ASSUME DemoAssumption, DemoInv, Fire
  PROVE  DemoInv'
<1>1. WellFormed /\ Subscribed /\ Retold
  BY DEF DemoInv
<1>0. PICK p \in Bookings : show = p
  BY <1>1 DEF WellFormed
<1> DEFINE d == p.demo
           sc == p.scenario
           n == p.seq
           P == Playbill[p.demo][p.scenario][p.speed]
           e == P[n+1]
<1>2. p # NoShow /\ n < Len(P) /\ Program = P
  BY <1>0 DEF Fire, Playing, Program
<1>3. d \in Demos /\ sc \in Scenarios /\ p.speed \in Speeds /\ n \in Nat
  BY <1>2, ShowIs
<1>4. Told(P, d, sc)
  BY <1>3, PlaybillIs
<1>5. show' = [p EXCEPT !.seq = n + 1]
  BY <1>0 DEF Fire
<1>6. n + 1 \in Nat
  BY <1>3
<1>7. Advanced(p, show', n + 1)
  <2> HIDE DEF n
  <2> QED BY <1>2, <1>5, <1>6, AdvancedIs
<1>8. Program' = P
  BY <1>7 DEF Program, Advanced
<1>9. UNCHANGED <<opened, effectOn, booked, again, starts>>
  BY DEF Fire
<1>10. n + 1 \in 0..Len(P)
  <2>1. Len(P) \in Nat
    BY <1>4, LastIs
  <2>2. n < Len(P) /\ n \in Nat
    BY <1>2, <1>3
  <2> HIDE DEF P, n
  <2> QED BY <2>1, <2>2
<1>11. Subscribed'
  BY <1>0, <1>1, <1>2, <1>7, <1>9 DEF Subscribed, Advanced
<1>12. status \in [Names -> FindingStatuses] /\ revealed \in [Kinds -> SUBSET Names]
  BY <1>1 DEF WellFormed
<1> HIDE DEF d, sc, n, P
<1>13. CASE effectOn \in Demos /\ missed' = missed /\ HandleStreamEvent(e)
  <2>1. d = effectOn /\ ~missed /\ StatusTells(P, n) /\ RevealedTells(P, n) /\ StateTells(P, n, sc)
    BY <1>0, <1>1, <1>2, <1>13 DEF Retold, d, n, sc
  <2>2. NextIs(P, n, d, sc, e)
    BY <1>2, <1>3, <1>4, NextEvent
  <2>3. StatusStep(e) /\ RevealedStep(e) /\ StateStep(e)
    BY <1>12, <1>13, <2>2, StatusSteps, RevealedSteps, StateSteps DEF NextIs
  <2>4. StatusTells(P, n + 1)'
    BY <1>2, <1>3, <1>4, <1>12, <2>1, <2>3, StatusHolds
  <2>5. RevealedTells(P, n + 1)'
    BY <1>2, <1>3, <1>4, <1>12, <2>1, <2>3, RevealedHolds
  <2>6. StateTells(P, n + 1, sc)'
    BY <1>2, <1>3, <1>4, <2>1, <2>3, StateHolds
  <2>7. Retold'
    BY <1>7, <1>8, <1>9, <1>13, <2>1, <2>4, <2>5, <2>6 DEF Retold, Advanced, d, sc
  <2>8. scanState' \in {"IDLE", "RUNNING", "COMPLETED", "FAILED"}
    BY <1>1, <2>3 DEF StateStep, WellFormed
  <2>9. WellFormed'
    BY <1>1, <1>7, <1>8, <1>9, <1>10, <1>13, <2>3, <2>8 DEF WellFormed, Advanced, StatusStep, RevealedStep
  <2> QED BY <1>11, <2>7, <2>9 DEF DemoInv
<1>14. CASE effectOn \notin Demos /\ missed' = TRUE /\ Quiet
  <2>1. Retold'
    BY <1>9, <1>14 DEF Retold
  <2>2. WellFormed'
    BY <1>1, <1>7, <1>8, <1>9, <1>10, <1>14 DEF WellFormed, Advanced, Quiet
  <2> QED BY <1>11, <2>1, <2>2 DEF DemoInv
<1>15. \/ effectOn \in Demos /\ missed' = missed /\ HandleStreamEvent(e)
       \/ effectOn \notin Demos /\ missed' = TRUE /\ Quiet
  BY <1>0, <1>2 DEF Fire, n
<1> QED BY <1>13, <1>14, <1>15

LEMMA StartKeeps ==
  ASSUME DemoAssumption, DemoInv, NEW d \in Demos, NEW sc \in Scenarios, NEW sp \in Speeds, StartDemo(d, sc, sp)
  PROVE  DemoInv'
<1> DEFINE b == [demo |-> d, scenario |-> sc, speed |-> sp, seq |-> 0]
<1>1. WellFormed /\ Subscribed
  BY DEF DemoInv
<1>2. b \in Bookings /\ b # NoShow /\ b.demo = d /\ b.seq = 0 /\ NoShow \in Bookings
  BY BookedIs, ShowIs
<1>3. /\ booked' = b /\ show' = NoShow /\ opened' = d /\ again' = (opened = d) /\ opened = effectOn /\ effectOn' = effectOn
      /\ missed' = missed /\ starts' = starts + 1 /\ starts < MaxStarts /\ ResetRevealed
  BY DEF StartDemo, BookDemo
<1>4. status' \in [Names -> FindingStatuses] /\ revealed' \in [Kinds -> SUBSET Names] /\ scanState' = "RUNNING"
  BY <1>3, UnseenIs DEF ResetRevealed
<1>5. starts' \in 0..MaxStarts
  BY <1>1, <1>3 DEF WellFormed, DemoAssumption
<1> HIDE DEF b
<1>6. WellFormed'
  BY <1>1, <1>2, <1>3, <1>4, <1>5 DEF WellFormed
<1>7. Subscribed' /\ Retold'
  BY <1>2, <1>3 DEF Subscribed, Retold
<1> QED BY <1>6, <1>7 DEF DemoInv

LEMMA RealKeeps ==
  ASSUME DemoAssumption, DemoInv, StartReal
  PROVE  DemoInv'
<1>1. WellFormed /\ Subscribed /\ Retold
  BY DEF DemoInv
<1>2. /\ UNCHANGED <<show, status, revealed, scanState, effectOn, booked, again, missed>> /\ opened' = RealScan
      /\ RealScan \notin Demos /\ starts' = starts + 1 /\ starts < MaxStarts /\ MaxStarts \in Nat
  BY DEF StartReal, DemoAssumption
<1>3. starts' \in 0..MaxStarts /\ Program' = Program
  BY <1>1, <1>2 DEF WellFormed, Program
<1>4. WellFormed'
  BY <1>1, <1>2, <1>3 DEF WellFormed
<1>5. Subscribed'
  BY <1>2 DEF Subscribed
<1>6. Retold'
  BY <1>1, <1>2, <1>3 DEF Retold, StatusTells, RevealedTells, StateTells
<1> QED BY <1>4, <1>5, <1>6 DEF DemoInv

LEMMA SubscribeKeeps ==
  ASSUME DemoAssumption, DemoInv, Subscribe
  PROVE  DemoInv'
<1>1. WellFormed /\ Subscribed /\ Retold
  BY DEF DemoInv
<1>2. opened # effectOn /\ effectOn' = opened /\ UNCHANGED <<opened, booked, again, starts>>
  BY DEF Subscribe
<1>3. CASE opened \in Demos /\ show = NoShow /\ show' = booked /\ missed' = FALSE /\ ResetRevealed
  <2>1. booked # NoShow /\ booked.demo = opened /\ booked.seq = 0 /\ booked \in Bookings
    BY <1>1, <1>3 DEF Subscribed, WellFormed
  <2>0. PICK b \in Bookings : booked = b
    BY <2>1
  <2> DEFINE P == Playbill[b.demo][b.scenario][b.speed]
             sc == b.scenario
  <2>2. Told(P, b.demo, sc)
    BY <2>0, <2>1, ShowIs, PlaybillIs
  <2>3. Program' = P
    BY <1>3, <2>0 DEF Program
  <2> HIDE DEF P
  <2>4. /\ StatusTells(P, 0)' /\ RevealedTells(P, 0)' /\ StateTells(P, 0, sc)'
        /\ status' \in [Names -> FindingStatuses] /\ revealed' \in [Kinds -> SUBSET Names] /\ scanState' = "RUNNING"
    BY <1>3, <2>2, ResetTells
  <2>5. 0 \in 0..Len(P)
    <3>1. Len(P) \in Nat
      BY <2>2, LastIs
    <3> QED BY <3>1
  <2>6. WellFormed'
    BY <1>1, <1>2, <1>3, <2>0, <2>1, <2>3, <2>4, <2>5 DEF WellFormed
  <2>7. Subscribed'
    BY <1>1, <1>2, <1>3, <2>1 DEF Subscribed
  <2>8. Retold'
    BY <1>2, <1>3, <2>0, <2>1, <2>3, <2>4 DEF Retold
  <2> QED BY <2>6, <2>7, <2>8 DEF DemoInv
<1>4. CASE (opened \notin Demos \/ show # NoShow) /\ UNCHANGED <<show, missed>> /\ Quiet
  <2>1. opened \notin Demos
    BY <1>1, <1>2, <1>4 DEF Subscribed
  <2>2. Program' = Program
    BY <1>4 DEF Program
  <2>3. WellFormed'
    BY <1>1, <1>2, <1>4, <2>2 DEF WellFormed, Quiet
  <2>4. Subscribed' /\ Retold'
    BY <1>2, <2>1 DEF Subscribed, Retold
  <2> QED BY <2>3, <2>4 DEF DemoInv
<1> QED BY <1>3, <1>4 DEF Subscribe

LEMMA DemoKeeps == DemoAssumption /\ DemoInv /\ [DemoNext]_demoVars => DemoInv'
<1> SUFFICES ASSUME DemoAssumption, DemoInv, [DemoNext]_demoVars PROVE DemoInv'
  OBVIOUS
<1>1. CASE Fire
  BY <1>1, FireKeeps
<1>2. CASE Subscribe
  BY <1>2, SubscribeKeeps
<1>3. CASE StartReal
  BY <1>3, RealKeeps
<1>4. ASSUME NEW d \in Demos, NEW sc \in Scenarios, NEW sp \in Speeds, StartDemo(d, sc, sp) PROVE DemoInv'
  BY <1>4, StartKeeps
<1>5. CASE UNCHANGED demoVars
  BY <1>5 DEF demoVars, DemoInv, WellFormed, Subscribed, Retold, StatusTells, RevealedTells, StateTells, Program
<1> QED BY <1>1, <1>2, <1>3, <1>4, <1>5 DEF DemoNext

(* What is said before something that was said was said as well.           *)
LEMMA FiredBefore ==
  ASSUME NEW d, NEW sc, NEW P, Told(P, d, sc), NEW n \in 0..Len(P), NEW z, NEW g, Fired(P, n, z, g),
         NEW y, NEW f, Has(P, y, f), Phase(y) < Phase(z)
  PROVE  Fired(P, n, y, f)
<1>1. DOMAIN P = 1..Len(P) /\ Len(P) \in Nat /\ Falls(P)
  BY LenProperties DEF Told
<1>2. PICK j \in 1..n : P[j].type = z /\ P[j].on = g
  BY DEF Fired
<1>3. PICK i \in DOMAIN P : P[i].type = y /\ P[i].on = f
  BY DEF Has
<1>4. j \in DOMAIN P
  BY <1>1
<1>5. i < j
  BY <1>1, <1>2, <1>3, <1>4 DEF Falls
<1>6. i \in 1..n
  BY <1>1, <1>5
<1> QED BY <1>3, <1>6 DEF Fired

LEMMA FiredAtEnd ==
  ASSUME NEW d, NEW sc, NEW P, Told(P, d, sc), NEW y, NEW f, Has(P, y, f)
  PROVE  Fired(P, Len(P), y, f)
<1>1. DOMAIN P = 1..Len(P)
  BY LenProperties DEF Told
<1> QED BY <1>1 DEF Fired, Has

(* The phases of what the property compares.                               *)
LEMMA PhasesAre ==
  /\ Phase("PLANNER_COMPLETED") < Phase("SNIPER_CONFIRMED")
  /\ Phase("SNIPER_CONFIRMED") < Phase("ENGINEER_PATCH_GENERATED")
  /\ Phase("ENGINEER_PATCH_GENERATED") < Phase("REMEDIATION_PR_CREATED")
BY DEF Phase

(* Nothing is patched that was not confirmed, or confirmed unplanned; and  *)
(* an open pull request is for an approved patch.                          *)
Grounds ==
  /\ revealed["patches"] \subseteq revealed["exploits"] /\ revealed["exploits"] \subseteq revealed["targets"]
  /\ \A f \in revealed["pulls"] : status[f] = "CRITIC_VERIFIED" /\ f \in revealed["patches"]
LEMMA GroundsHold ==
  ASSUME DemoAssumption, NEW d \in Demos, NEW sc, NEW P, Told(P, d, sc), NEW n \in 0..Len(P),
         StatusTells(P, n), RevealedTells(P, n)
  PROVE  Grounds
<1>1. /\ ToSet(PatchedIn[d]) \subseteq ToSet(ExploitedIn[d]) /\ ToSet(ExploitedIn[d]) \subseteq ToSet(PlannedIn[d])
  BY DemoLists
<1>2. /\ Says(P, PlannedIn[d], "PLANNER_COMPLETED") /\ Says(P, ExploitedIn[d], "SNIPER_CONFIRMED")
      /\ Says(P, PatchedIn[d], "ENGINEER_PATCH_GENERATED")
  BY DEF Told, Recounts
<1>3. ASSUME NEW f \in revealed["patches"] PROVE f \in revealed["exploits"]
  <2>1. f \in Names /\ Fired(P, n, "ENGINEER_PATCH_GENERATED", f)
    BY <1>3 DEF RevealedTells, FiredOn
  <2>2. f \in ToSet(ExploitedIn[d])
    BY <1>1, <2>1, FiredIs DEF Allowed
  <2>3. Has(P, "SNIPER_CONFIRMED", f)
    BY <1>2, <2>2 DEF Says
  <2>4. Fired(P, n, "SNIPER_CONFIRMED", f)
    BY <2>1, <2>3, PhasesAre, FiredBefore
  <2> QED BY <2>1, <2>4 DEF RevealedTells, FiredOn
<1>4. ASSUME NEW f \in revealed["exploits"] PROVE f \in revealed["targets"]
  <2>1. f \in Names /\ Fired(P, n, "SNIPER_CONFIRMED", f)
    BY <1>4 DEF RevealedTells, FiredOn
  <2>2. f \in ToSet(PlannedIn[d])
    BY <1>1, <2>1, FiredIs DEF Allowed
  <2>3. Has(P, "PLANNER_COMPLETED", f)
    BY <1>2, <2>2 DEF Says
  <2>4. Fired(P, n, "PLANNER_COMPLETED", f)
    BY <2>1, <2>3, PhasesAre, FiredBefore
  <2> QED BY <2>1, <2>4 DEF RevealedTells, FiredOn
<1>5. ASSUME NEW f \in revealed["pulls"] PROVE status[f] = "CRITIC_VERIFIED" /\ f \in revealed["patches"]
  <2>1. f \in Names /\ Fired(P, n, "REMEDIATION_PR_CREATED", f)
    BY <1>5 DEF RevealedTells, FiredOn
  <2>2. f \in ToSet(PatchedIn[d])
    BY <2>1, FiredIs DEF Allowed
  <2>3. Fired(P, n, "ENGINEER_PATCH_GENERATED", f)
    BY <1>2, <2>1, <2>2, PhasesAre, FiredBefore DEF Says
  <2>4. Fired(P, n, "CRITIC_APPROVED", f)
    <3>1. DOMAIN P = 1..Len(P) /\ Len(P) \in Nat /\ Answered(P)
      BY LenProperties DEF Told
    <3>2. PICK j \in 1..n : P[j].type = "REMEDIATION_PR_CREATED" /\ P[j].on = f
      BY <2>1 DEF Fired
    <3>3. j \in DOMAIN P
      BY <3>1
    <3>4. PICK i \in DOMAIN P : i < j /\ P[i].type = "CRITIC_APPROVED" /\ P[i].on = f
      BY <3>1, <3>2, <3>3 DEF Answered, Answers
    <3>5. i \in 1..n
      BY <3>1, <3>4
    <3> QED BY <3>4, <3>5 DEF Fired
  <2> QED BY <2>1, <2>3, <2>4 DEF RevealedTells, StatusTells, FiredOn
<1> QED BY <1>3, <1>4, <1>5 DEF Grounds

(* One target is verified at a time.                                       *)
Verifying == {f \in Names : status[f] = "VERIFYING"}
LEMMA OneVerified ==
  ASSUME NEW d, NEW sc, NEW P, Told(P, d, sc), NEW n \in 0..Len(P), StatusTells(P, n)
  PROVE  Cardinality(Verifying) <= 1
<1>1. DOMAIN P = 1..Len(P) /\ Len(P) \in Nat /\ Alternates(P)
  BY LenProperties DEF Told
<1>2. ASSUME NEW k \in 1..n, NEW l \in 1..n, k < l,
             P[k].type = "SNIPER_TARGET_SELECTED", P[l].type = "SNIPER_TARGET_SELECTED",
             \A m \in 1..n : k < m => ~(P[m].type = "SNIPER_CONFIRMED" /\ P[m].on = P[k].on)
      PROVE  FALSE
  <2>1. k \in DOMAIN P /\ l \in DOMAIN P
    BY <1>1
  <2>2. PICK m \in DOMAIN P : k < m /\ m < l /\ P[m].type = "SNIPER_CONFIRMED" /\ P[m].on = P[k].on
    BY <1>1, <1>2, <2>1 DEF Alternates, Confirms
  <2>3. m \in 1..n
    BY <1>1, <2>2
  <2> QED BY <1>2, <2>2, <2>3
<1>3. ASSUME NEW f \in Verifying, NEW g \in Verifying PROVE f = g
  <2>1. Attempted(P, n, f) /\ Attempted(P, n, g)
    BY <1>3 DEF Verifying, StatusTells
  <2>2. PICK k \in 1..n : /\ P[k].type = "SNIPER_TARGET_SELECTED" /\ P[k].on = f
                          /\ \A l \in 1..n : k < l => ~(P[l].type = "SNIPER_CONFIRMED" /\ P[l].on = f)
    BY <2>1 DEF Attempted
  <2>3. PICK l \in 1..n : /\ P[l].type = "SNIPER_TARGET_SELECTED" /\ P[l].on = g
                          /\ \A m \in 1..n : l < m => ~(P[m].type = "SNIPER_CONFIRMED" /\ P[m].on = g)
    BY <2>1 DEF Attempted
  <2>4. ~(k < l) /\ ~(l < k)
    BY <1>2, <2>2, <2>3
  <2>5. k = l
    BY <2>4
  <2> QED BY <2>2, <2>3, <2>5
<1>4. CASE Verifying = {}
  BY <1>4, FS_EmptySet
<1>5. CASE Verifying # {}
  <2>1. PICK f \in Verifying : TRUE
    BY <1>5
  <2>2. Verifying = {f}
    BY <1>3, <2>1
  <2>3. Cardinality({f}) = 1
    BY FS_Singleton
  <2> QED BY <2>2, <2>3
<1> QED BY <1>4, <1>5

(* A patch the scenario rejects is never approved; at the end every patch  *)
(* has its verdict.                                                        *)
Verdicts(n, P, rejected) ==
  /\ \A f \in rejected : status[f] # "CRITIC_VERIFIED"
  /\ (scanState = "RUNNING") = (n < Len(P))
  /\ n = Len(P) => revealed["patches"] = revealed["pulls"] \cup rejected /\ (scanState = "FAILED") = (rejected # {})
LEMMA VerdictsHold ==
  ASSUME DemoAssumption, NEW d \in Demos, NEW sc \in Scenarios, NEW P, Told(P, d, sc), NEW n \in 0..Len(P),
         StatusTells(P, n), RevealedTells(P, n), StateTells(P, n, sc)
  PROVE  Verdicts(n, P, RejectedIn(d, sc))
<1>1. /\ ToSet(PatchedIn[d]) \subseteq Names /\ RejectedIn(d, sc) \subseteq ToSet(PatchedIn[d])
  BY NamesAre DEF RejectedIn
<1>2. Len(P) \in Nat /\ n \in Nat /\ n <= Len(P)
  BY LenProperties DEF Told
<1>3. ASSUME NEW f \in RejectedIn(d, sc), status[f] = "CRITIC_VERIFIED" PROVE FALSE
  <2>1. f \in Names
    BY <1>1
  <2>2. Fired(P, n, "CRITIC_APPROVED", f)
    BY <1>3, <2>1 DEF StatusTells
  <2> QED BY <1>3, <2>2, FiredIs DEF Allowed
<1>4. (scanState = "RUNNING") = (n < Len(P))
  <2>1. CASE n < Len(P)
    BY <2>1 DEF StateTells
  <2>2. CASE ~(n < Len(P))
    <3>1. n = Len(P)
      BY <1>2, <2>2
    <3>2. scanState # "RUNNING"
      BY <3>1 DEF StateTells
    <3> QED BY <2>2, <3>2
  <2> QED BY <2>1, <2>2
<1>5. ASSUME n = Len(P) PROVE revealed["patches"] = revealed["pulls"] \cup RejectedIn(d, sc)
  <2>1. revealed["patches"] = FiredOn(P, n, "ENGINEER_PATCH_GENERATED")
        /\ revealed["pulls"] = FiredOn(P, n, "REMEDIATION_PR_CREATED")
    BY DEF RevealedTells
  <2>2. ASSUME NEW f \in ToSet(PatchedIn[d]) PROVE f \in revealed["patches"]
    <3>1. Has(P, "ENGINEER_PATCH_GENERATED", f)
      BY <2>2 DEF Told, Recounts, Says
    <3>2. f \in Names
      BY <1>1, <2>2
    <3> QED BY <1>5, <2>1, <3>1, <3>2, FiredAtEnd DEF FiredOn
  <2>3. ASSUME NEW f \in ToSet(PatchedIn[d]) \ RejectedIn(d, sc) PROVE f \in revealed["pulls"]
    <3>1. Has(P, "REMEDIATION_PR_CREATED", f)
      BY <2>3 DEF Told, Recounts
    <3>2. f \in Names
      BY <1>1, <2>3
    <3> QED BY <1>5, <2>1, <3>1, <3>2, FiredAtEnd DEF FiredOn
  <2>4. ASSUME NEW f \in revealed["patches"] PROVE f \in ToSet(PatchedIn[d])
    BY <2>1, <2>4, FiredIs DEF FiredOn, Allowed
  <2>5. ASSUME NEW f \in revealed["pulls"] PROVE f \in ToSet(PatchedIn[d])
    BY <2>1, <2>5, FiredIs DEF FiredOn, Allowed
  <2> QED BY <1>1, <2>2, <2>3, <2>4, <2>5
<1>6. ASSUME n = Len(P) PROVE (scanState = "FAILED") = (RejectedIn(d, sc) # {})
  <2>1. scanState = IF sc = "full_approved" THEN "COMPLETED" ELSE "FAILED"
    BY <1>6 DEF StateTells
  <2>2. CASE sc = "full_approved"
    BY <2>1, <2>2 DEF RejectedIn
  <2>3. CASE sc # "full_approved"
    <3>1. PICK i \in DOMAIN PatchedIn[d] : Fails(d, PatchedIn[d][i], i)
      BY DEF DemoAssumption
    <3>2. PatchedIn[d][i] \in RejectedIn(d, sc)
      BY <2>3, <3>1, RejectedIs
    <3> QED BY <2>1, <2>3, <3>2
  <2> QED BY <2>2, <2>3
<1> QED BY <1>3, <1>4, <1>5, <1>6 DEF Verdicts

LEMMA ReplayFollows == DemoAssumption /\ DemoInv => ReplayHolds
<1> SUFFICES ASSUME DemoAssumption, DemoInv, opened = effectOn, opened \in Demos, show # NoShow PROVE
      /\ show.demo = opened /\ ~missed
      /\ revealed.patches \subseteq revealed.exploits /\ revealed.exploits \subseteq revealed.targets
      /\ \A f \in revealed.pulls : status[f] = "CRITIC_VERIFIED" /\ f \in revealed.patches
      /\ \A f \in Rejected : status[f] # "CRITIC_VERIFIED"
      /\ Cardinality({f \in Names : status[f] = "VERIFYING"}) <= 1
      /\ (scanState = "RUNNING") = Playing
      /\ ~Playing => /\ revealed.patches = revealed.pulls \cup Rejected
                     /\ (scanState = "FAILED") = (Rejected # {})
  BY DEF DemoInv, Subscribed, ReplayHolds
<1> DEFINE d == show.demo
           sc == show.scenario
           n == show.seq
           P == Program
<1>1. /\ d \in Demos /\ sc \in Scenarios /\ show.speed \in Speeds /\ n \in 0..Len(P)
  BY ShowIs DEF DemoInv, WellFormed
<1>2. Told(P, d, sc)
  BY <1>1, PlaybillIs DEF Program
<1>3. d = opened /\ ~missed /\ StatusTells(P, n) /\ RevealedTells(P, n) /\ StateTells(P, n, sc)
  BY DEF DemoInv, Retold
<1>4. Playing <=> n < Len(P)
  BY DEF Playing
<1>5. Rejected = RejectedIn(d, sc)
  <2>1. ToSet(PatchedIn[d]) \subseteq Names
    BY <1>1, NamesAre
  <2>2. \A i \in DOMAIN PatchedIn[d] : PatchedIn[d][i] \in ToSet(PatchedIn[d])
    BY DEF ToSet
  <2> QED BY <2>1, <2>2 DEF Rejected, RejectedIn
<1> HIDE DEF d, sc, n, P
<1>6. Grounds
  BY <1>1, <1>2, <1>3, GroundsHold
<1>7. Cardinality(Verifying) <= 1
  BY <1>1, <1>2, <1>3, OneVerified
<1>8. Verdicts(n, P, Rejected)
  BY <1>1, <1>2, <1>3, <1>5, VerdictsHold
<1>9. ~Playing => n = Len(P)
  <2>1. Len(P) \in Nat
    BY <1>2, LenProperties DEF Told
  <2> QED BY <1>1, <1>4, <2>1
<1>10. (scanState = "RUNNING") = Playing
  BY <1>4, <1>8 DEF Verdicts, Playing
<1>11. Grounds /\ Verdicts(n, P, Rejected) /\ Cardinality({f \in Names : status[f] = "VERIFYING"}) <= 1
  BY <1>6, <1>7, <1>8 DEF Verifying
<1> QED BY <1>3, <1>9, <1>10, <1>11 DEF Grounds, Verdicts, d

LEMMA DemoTyped == DemoInv => DemoTypeOK
BY DEF DemoInv, WellFormed, DemoTypeOK

(* Every variable of the demo keeps its type, whatever is started when.     *)
THEOREM DemoTypes == DemoSpec => []DemoTypeOK
BY DemoAssumption, DemoStarts, DemoKeeps, DemoTyped, PTL DEF DemoSpec

(* A page that shows a demo shows that demo, from its first event, and a    *)
(* story that holds together at every event and at any speed, for every     *)
(* fixture that fits DemoAssumption, every scenario and every order of      *)
(* starting demos and scans: demoRunner.ts under DemoDataProvider.ts and    *)
(* useScanStore.ts.  The events keep the order of their phases although     *)
(* rounding may give several the same delay, since timers that are due      *)
(* together fire as they were set.                                          *)
THEOREM ReplayIs == DemoSpec => []ReplayHolds
BY DemoAssumption, DemoStarts, DemoKeeps, ReplayFollows, PTL DEF DemoSpec
=============================================================================
