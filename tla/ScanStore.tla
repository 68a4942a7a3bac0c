------------------------------- MODULE ScanStore -------------------------------
(***************************************************************************)
(* useScanStore: what the browser shows of a scan, put together from the   *)
(* answers of the REST calls and from the events of the stream, which the  *)
(* backend replays to whoever subscribes.  Each scan has one finding here; *)
(* of its record the store keeps, the model keeps whether it is confirmed, *)
(* the status of its patch and whether that has a pull request.            *)
(***************************************************************************)
EXTENDS Naturals, FiniteSets, Sequences, SequencesExt

CONSTANTS ScanIds,      \* scans the browser may show
          OldScans,     \* those of them that are over when it is opened
          MaxVisits,    \* bound on attachToScan(), createScan() and reconnections
          MaxFetches    \* bound on different answers under way

ASSUME StoreAssumption ==
  "none" \notin ScanIds /\ OldScans \subseteq ScanIds /\ MaxVisits \in Nat /\ MaxFetches \in Nat \ {0}

VARIABLES history,     \* per scan: what its pipeline has stored, named by the event about it
          published,   \* per scan: how many of those events were published
          tail,        \* per scan: the oldest of them the bus still has, to be replayed
          attached,    \* activeScanId
          subscribed,  \* the scan whose EventSource is open
          cursor,      \* the next event of that scan to arrive
          processed,   \* processedEventKeysRef
          shown,       \* findingsById, per scan of the finding; Absent: no record
          fetches,     \* fetchScanData() under way: the scan, and the answer once it is read
          creating,    \* startScan() is awaited
          gap,         \* whether the store lost or could not place something since it attached
          visits       \* how often the page was attached or reconnected

pipeline == <<history, published, tail>>
page == <<attached, subscribed, cursor, processed, shown, fetches, creating, gap, visits>>
storeVars == <<pipeline, page>>

PatchStatus == {"none", "GENERATED", "APPROVED", "REJECTED"}
FindingView == [confirmed : BOOLEAN, patch : PatchStatus, pr : BOOLEAN]
Absent == [confirmed |-> FALSE, patch |-> "absent", pr |-> FALSE]
NoRecords == [s \in ScanIds |-> Absent]
Unread == [found |-> FALSE, view |-> Absent]

-----------------------------------------------------------------------------
(* The backend: each stage stores its result and then publishes an event   *)

Follows(e) ==
  CASE e = "none" -> {"SCAN_STARTED"}
    [] e = "SCAN_STARTED" -> {"SCANNER_COMPLETED"}
    [] e = "SCANNER_COMPLETED" -> {"SNIPER_CONFIRMED", "SNIPER_NOT_TESTED"}
    [] e = "SNIPER_CONFIRMED" -> {"ENGINEER_PATCH_GENERATED", "ENGINEER_REJECTED"}
    [] e = "ENGINEER_PATCH_GENERATED" -> {"CRITIC_APPROVED", "CRITIC_REJECTED"}
    [] e = "CRITIC_APPROVED" -> {"REMEDIATION_PR_CREATED", "REMEDIATION_DELIVERY_FAILED"}
    [] OTHER -> {}
Over == <<"SCAN_STARTED", "SCANNER_COMPLETED", "SNIPER_NOT_TESTED">>
Happened(s) == ToSet(history[s])
LastOf(s) == IF history[s] = <<>> THEN "none" ELSE Last(history[s])

StoreResult(s) ==
  /\ published[s] = Len(history[s])
  /\ \E e \in Follows(LastOf(s)) : history' = [history EXCEPT ![s] = Append(@, e)]
  /\ UNCHANGED <<published, tail, page>>
PublishEvent(s) ==
  /\ published[s] < Len(history[s]) /\ published' = [published EXCEPT ![s] = @ + 1]
  /\ UNCHANGED <<history, tail, page>>

(* getScanResults: the row of the finding with its latest patch.           *)
Stored(s) ==
  LET did == Happened(s) IN
    [found |-> "SCANNER_COMPLETED" \in did,
     view |-> [confirmed |-> "SNIPER_CONFIRMED" \in did,
               patch |-> IF did \cap {"ENGINEER_REJECTED", "CRITIC_REJECTED"} # {} THEN "REJECTED"
                         ELSE IF "CRITIC_APPROVED" \in did THEN "APPROVED"
                         ELSE IF "ENGINEER_PATCH_GENERATED" \in did THEN "GENERATED" ELSE "none",
               pr |-> "REMEDIATION_PR_CREATED" \in did]]

-----------------------------------------------------------------------------
(* fetchScanData() *)

Fetching(s) == fetches' = fetches \cup {[scan |-> s, answer |-> Unread]}
CanFetch == Cardinality(fetches) < MaxFetches

(* The backend reads the rows; another fetch of the scan may be waiting.   *)
ReadRows(f) ==
  /\ f \in fetches /\ f.answer = Unread
  /\ \E again \in BOOLEAN :
       /\ again => CanFetch
       /\ fetches' = (IF again THEN fetches ELSE fetches \ {f})
                       \cup {[scan |-> f.scan, answer |-> Stored(f.scan)]}
  /\ UNCHANGED <<pipeline, attached, subscribed, cursor, processed, shown, creating, gap, visits>>

(* The answer is merged into the record: confirmed and a pull request are  *)
(* never taken back, the patch is the one of the answer if it has one.     *)
TakesAnswer(rec, view) == view  \* slip: the answer replaces the record
Merged(rec, view) ==
  IF rec = Absent THEN view
  ELSE [confirmed |-> view.confirmed \/ rec.confirmed,
        patch |-> IF view.patch = "none" THEN rec.patch ELSE view.patch,
        pr |-> view.pr \/ rec.pr]

(* Whether the scan is still the one that is shown is not asked.           *)
TakeAnswer(f) ==
  /\ f \in fetches /\ f.answer # Unread
  /\ fetches' = fetches \ {f}
  /\ shown' = IF f.answer.found THEN [shown EXCEPT ![f.scan] = Merged(@, f.answer.view)] ELSE shown
  /\ UNCHANGED <<pipeline, attached, subscribed, cursor, processed, creating, gap, visits>>

FetchFails(f) ==
  /\ f \in fetches /\ fetches' = fetches \ {f}
  /\ gap' = IF f.scan = attached THEN gap \cup {"lost"} ELSE gap
  /\ UNCHANGED <<pipeline, attached, subscribed, cursor, processed, shown, creating, visits>>

-----------------------------------------------------------------------------
(* attachToScan(), createScan() and the effect on activeScanId *)

Visit == visits < MaxVisits /\ visits' = visits + 1

(* resetLiveState.                                                         *)
Reset == shown' = NoRecords /\ processed' = {}

Attach(s) ==
  /\ attached' = s /\ Reset /\ Fetching(s) /\ gap' = {}

SelectScan(s) ==
  /\ ~creating /\ Visit
  /\ CanFetch /\ Attach(s)
  /\ UNCHANGED <<pipeline, subscribed, cursor, creating>>

(* createScan() resets, and attaches only when the backend has answered.   *)
SubmitScan ==
  /\ ~creating /\ Visit
  /\ creating' = TRUE /\ Reset
  /\ gap' = IF attached = "none" THEN gap ELSE gap \cup {"lost"}
  /\ UNCHANGED <<pipeline, attached, subscribed, cursor, fetches>>
ScanCreated ==
  /\ creating /\ creating' = FALSE
  /\ \/ \E s \in ScanIds : history[s] = <<>> /\ CanFetch /\ Attach(s)
     \/ UNCHANGED <<attached, processed, shown, fetches, gap>>
  /\ UNCHANGED <<pipeline, subscribed, cursor, visits>>

(* The bus replays what it has of a scan to whoever subscribes: since the  *)
(* last time it may have dropped more of the oldest events.                *)
ReplayTo(s) ==
  /\ \E oldest \in tail[s]..published[s] + 1 : tail' = [tail EXCEPT ![s] = oldest]
  /\ cursor' = tail'[s]

(* The effect runs when another scan is active: it closes the old stream,  *)
(* fetches again and subscribes.                                           *)
RunEffect ==
  /\ attached # subscribed /\ attached # "none"
  /\ subscribed' = attached /\ CanFetch /\ Fetching(attached)
  /\ ReplayTo(attached)
  /\ UNCHANGED <<history, published, attached, processed, shown, creating, gap, visits>>

(* The EventSource reconnects: what the bus no longer has is missed.       *)
Reconnect ==
  /\ subscribed # "none" /\ Visit
  /\ ReplayTo(subscribed)
  /\ gap' = IF cursor < cursor' /\ subscribed = attached THEN gap \cup {"lost"} ELSE gap
  /\ UNCHANGED <<history, published, attached, subscribed, processed, shown, fetches, creating>>

-----------------------------------------------------------------------------
(* handleEvent() *)

(* What the events make of the record of their finding.  A confirmation    *)
(* and a patch make a record if there is none, the others need one.        *)
OnConfirmed(rec) ==
  IF rec = Absent THEN [confirmed |-> TRUE, patch |-> "none", pr |-> FALSE]
  ELSE [rec EXCEPT !.confirmed = TRUE]
OnDraft(rec) ==
  IF rec = Absent THEN [confirmed |-> TRUE, patch |-> "GENERATED", pr |-> FALSE]
  ELSE [rec EXCEPT !.patch = "GENERATED"]
OnNoDraft(rec) == IF rec = Absent THEN rec ELSE [rec EXCEPT !.patch = "REJECTED", !.pr = FALSE]
OnApproved(rec) == IF rec.patch \in PatchStatus \ {"none"} THEN [rec EXCEPT !.patch = "APPROVED"] ELSE rec
OnPullRequest(rec) == IF rec = Absent THEN rec ELSE [rec EXCEPT !.patch = "APPROVED", !.pr = TRUE]
OnDeliveryFailed(rec) == IF rec.patch = "none" THEN [rec EXCEPT !.patch = "APPROVED"] ELSE rec

Handled(e, rec) ==
  CASE e = "SNIPER_CONFIRMED" -> OnConfirmed(rec)
    [] e = "ENGINEER_PATCH_GENERATED" -> OnDraft(rec)
    [] e = "ENGINEER_REJECTED" -> OnNoDraft(rec)
    [] e = "CRITIC_APPROVED" -> OnApproved(rec)
    [] e = "REMEDIATION_PR_CREATED" -> OnPullRequest(rec)
    [] e = "REMEDIATION_DELIVERY_FAILED" -> OnDeliveryFailed(rec)
    [] OTHER -> rec

(* An event of the open stream arrives; one seen before is dropped.  The   *)
(* start of a scan empties the store, the end of the scanners fetches.     *)
Refetches(e) == e = "SCANNER_COMPLETED"
Empties(e) == e = "SCAN_STARTED"

(* A pull request that has no record to go to is not kept; and a replayed  *)
(* start of the scan empties what events that are not handled twice made.  *)
Misses(e, s) ==
  {g \in {"unplaced", "lost"} :
     IF g = "unplaced" THEN e = "REMEDIATION_PR_CREATED" /\ shown[s] = Absent
     ELSE Empties(e) /\ \E k \in processed : k[1] = s}
Arrive ==
  /\ subscribed # "none" /\ cursor <= published[subscribed] /\ cursor' = cursor + 1
  /\ LET s == subscribed
         e == history[s][cursor]
         key == <<s, cursor>>
     IN \/ key \in processed /\ UNCHANGED <<processed, shown, fetches, gap>>
        \/ /\ key \notin processed /\ processed' = processed \cup {key}
           /\ shown' = IF Empties(e) THEN NoRecords
                       ELSE [shown EXCEPT ![s] = Handled(e, @)]
           /\ IF Refetches(e) THEN CanFetch /\ Fetching(s) ELSE UNCHANGED fetches
           /\ gap' = IF s = attached THEN gap \cup Misses(e, s) ELSE gap
  /\ UNCHANGED <<pipeline, attached, subscribed, creating, visits>>

-----------------------------------------------------------------------------
StoreInit ==
  /\ history = [s \in ScanIds |-> IF s \in OldScans THEN Over ELSE <<>>]
  /\ published = [s \in ScanIds |-> Len(history[s])]
  /\ tail = [s \in ScanIds |-> 1]
  /\ attached = "none" /\ subscribed = "none" /\ cursor = 1 /\ processed = {}
  /\ shown = NoRecords /\ fetches = {} /\ creating = FALSE /\ gap = {}
  /\ visits = 0

StoreNext ==
  \/ \E s \in ScanIds : StoreResult(s) \/ PublishEvent(s) \/ SelectScan(s)
  \/ \E f \in fetches : ReadRows(f) \/ TakeAnswer(f) \/ FetchFails(f)
  \/ SubmitScan \/ ScanCreated \/ RunEffect \/ Reconnect \/ Arrive

StoreSpec == StoreInit /\ [][StoreNext]_storeVars

-----------------------------------------------------------------------------
(* Types of the variables.                                                 *)
StoreTypeOK ==
  /\ \A s \in ScanIds : published[s] \in 0..Len(history[s]) /\ Len(history[s]) <= 6
  /\ tail \in [ScanIds -> 1..7] /\ {attached, subscribed} \subseteq ScanIds \cup {"none"}
  /\ cursor \in 1..7 /\ processed \subseteq ScanIds \X (1..6)
  /\ shown \in [ScanIds -> FindingView \cup {Absent}]
  /\ \A f \in fetches : f.scan \in ScanIds /\ f.answer.found \in BOOLEAN
                          /\ f.answer.view \in FindingView \cup {Absent}
  /\ Cardinality(fetches) <= MaxFetches /\ creating \in BOOLEAN
  /\ gap \subseteq {"lost", "unplaced"}
  /\ visits \in 0..MaxVisits

(* Nothing more is on its way to the page of scan s.                       *)
AtRest(s) ==
  /\ attached = s /\ subscribed = s /\ ~creating
  /\ published[s] = Len(history[s]) /\ cursor = published[s] + 1
  /\ \A f \in fetches : f.scan # s

(* The page never claims a confirmation, an approval or a pull request     *)
(* the backend does not have; and once nothing more is on its way, it      *)
(* shows every confirmation and every pull request, although answers that  *)
(* are older than the last event are merged after it and the replay begins *)
(* by emptying the store - unless a fetch failed, a pull request came      *)
(* before the record it belongs to, or the store was emptied by a creation *)
(* of a scan that failed or by a start replayed to a page selected twice.  *)
ShownAtRest ==
  \A s \in ScanIds :
    LET row == Stored(s) IN
      /\ shown[s].confirmed => row.view.confirmed
      /\ shown[s].pr => row.view.pr
      /\ shown[s].patch = "APPROVED" => row.view.patch = "APPROVED"
      /\ AtRest(s) /\ "lost" \notin gap =>
           /\ row.found => shown[s] # Absent
           /\ row.view.confirmed => shown[s].confirmed
           /\ row.view.pr => shown[s].pr \/ "unplaced" \in gap
=============================================================================
