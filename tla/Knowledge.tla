------------------------------- MODULE Knowledge -------------------------------
(***************************************************************************)
(* The knowledge base: ingestion (a source is walked page by page, each    *)
(* record becomes a CVERecord row, then all are embedded in one call and   *)
(* pushed into Qdrant) and the search that resolves the hits to the rows.  *)
(* Ingestions may run beside each other and beside searches; the feed may  *)
(* change while it is walked.  Rows and points are never deleted by either.*)
(***************************************************************************)
EXTENDS Integers, Sequences, FiniteSets, SequencesExt

CONSTANTS Ingestions,     \* calls of ingest()
          Shelving,       \* those that may be of a service over the local source
          Feeds,          \* what the NVD API may list: sequences of raw items
          Shelf,          \* the markdown files of the local source, in order
          Caps,           \* values of maxItems; Uncapped when there is none
          PageSize, MaxPages, MaxFetchRetries, MaxEmbedRetries,
          MaxRevisions, MaxKnowledgeFaults

VARIABLES feed,       \* what the API lists now
          ingestion,  \* ingestion -> what it has done so far
          cveRows,    \* the CVERecord table: cveId -> text and severity
          points,     \* the collection of Qdrant: document id -> payload and vector
          collection, \* is there a collection
          revisions, knowledgeFaults

knowledgeVars == <<feed, ingestion, cveRows, points, collection, revisions, knowledgeFaults>>
Unset == "unset"
NoScore == -1
Unusable == -2
Uncapped == 1000

-----------------------------------------------------------------------------
(* A raw item has the metrics v31, v30 and v2: NoScore, Unusable (a data   *)
(* record without a finite number), or a score in tenths.                  *)
ExtractCvss(raw) ==
  LET present == SelectSeq(<<raw.v31, raw.v30, raw.v2>>, LAMBDA s : s # NoScore)
  IN IF present = <<>> \/ Head(present) = Unusable THEN NoScore ELSE Head(present)
ExtractSeverity(raw) ==
  LET score == ExtractCvss(raw)
  IN CASE score = NoScore -> Unset [] score >= 90 -> "CRITICAL" [] score >= 70 -> "HIGH" [] score >= 40 -> "MEDIUM"
       [] score > 0 -> "LOW" [] OTHER -> "INFO"
WellFormed(raw) == raw.valid /\ raw.text # ""
FirstCwe(raw) == IF raw.cwes = <<>> THEN Unset ELSE Head(raw.cwes)
NormalizeNvdItem(raw) ==
  [source |-> "nvd", id |-> <<"cve:", raw.id>>, external |-> raw.id, text |-> raw.text,
   severity |-> ExtractSeverity(raw), type |-> FirstCwe(raw)]

(* A file has the fields of its front matter, Unset when not given.        *)
Shelved(file) == file.id # Unset /\ file.text # ""
Given(value, default) == IF value = Unset THEN default ELSE value
ReadShelf(file) ==
  LET cwe == Given(file.cwe, Given(file.external, "UNKNOWN"))
  IN [source |-> "amass-kb", id |-> <<"", file.id>>, external |-> Given(file.external, cwe), text |-> file.text,
      severity |-> Given(file.severity, "HIGH"), type |-> Given(file.type, cwe)]

(* The id of a document is a prefix and a name.  The key of its row, and   *)
(* what is kept of it.                                                     *)
CveIdOf(doc) == IF doc.source = "nvd" THEN doc.external ELSE doc.id[2]
RowOf(doc) == [text |-> doc.text, severity |-> doc.severity]
PayloadOf(doc) == [source |-> doc.source, cveId |-> doc.external, type |-> doc.type, severity |-> doc.severity]
PointOf(doc, vector) == [payload |-> PayloadOf(doc), vector |-> vector]

Listed(list) == {NormalizeNvdItem(raw) : raw \in {r \in ToSet(list) : WellFormed(r)}}
OnShelf == {ReadShelf(f) : f \in {g \in ToSet(Shelf) : Shelved(g)}}

(* What a source reads: the documents of its entries, in order, without    *)
(* those it counts as malformed.                                           *)
Items(list) == [n \in 1..Len(list) |-> [usable |-> WellFormed(list[n]), document |-> NormalizeNvdItem(list[n])]]
ShelfItems == [n \in 1..Len(Shelf) |-> [usable |-> Shelved(Shelf[n]), document |-> ReadShelf(Shelf[n])]]
Documents(entries) ==
  LET read[n \in 0..Len(entries)] ==
        IF n = 0 THEN <<>>
        ELSE IF entries[n].usable THEN Append(read[n-1], entries[n].document) ELSE read[n-1]
  IN read[Len(entries)]

(* A cap, when there is one, is at least one; the ids of the local files   *)
(* are no ids of CVEs.                                                     *)
ASSUME KnowledgeAssumption ==
  /\ \A f \in Feeds \cup {Shelf} : f \in Seq(ToSet(f))
  /\ Caps \subseteq Nat \ {0} /\ PageSize \in Nat \ {0} /\ MaxPages \in Nat \ {0}
  /\ MaxFetchRetries \in Nat /\ MaxEmbedRetries \in Nat /\ MaxRevisions \in Nat /\ MaxKnowledgeFaults \in Nat
  /\ \A f \in Feeds, file \in ToSet(Shelf) : \A raw \in ToSet(f) : Shelved(file) /\ WellFormed(raw) => file.id # raw.id

-----------------------------------------------------------------------------
(* alone: no other ingestion has run since it began; calm: the feed has    *)
(* not changed while it was walked; listed: what there was when it began.  *)
Unbegun == [stage |-> "idle", cap |-> Uncapped, start |-> 0, page |-> 0, tries |-> 0, docs |-> <<>>, malformed |-> 0,
            hasMore |-> FALSE, next |-> 1, found |-> FALSE, inserted |-> 0, updated |-> 0, embedded |-> 0,
            vectors |-> <<>>, alone |-> TRUE, calm |-> TRUE, listed |-> {}]
Running(i) == ingestion[i].stage \notin {"idle", "done", "failed"}
Settle(i, changed) == ingestion' = [ingestion EXCEPT ![i] = changed]
Fault == knowledgeFaults < MaxKnowledgeFaults /\ knowledgeFaults' = knowledgeFaults + 1
IngestFails(i) == Fault /\ Settle(i, [ingestion[i] EXCEPT !.stage = "failed"])
BaseUntouched == <<cveRows, points, collection>>

(* The documents a source gives at most cap of.                            *)
Taken(docs, cap) == SubSeq(docs, 1, IF Len(docs) < cap THEN Len(docs) ELSE cap)
(* With documents the rows come next; without, the summary is answered.    *)
Fetched(job) == IF job.docs = <<>> THEN "done" ELSE "finding"

BeginIngestion(i) ==
  /\ ingestion[i].stage = "idle"
  /\ \E cap \in Caps, shelf \in {FALSE, (i \in Shelving)} :
       LET docs == Documents(ShelfItems)
           fresh == [Unbegun EXCEPT !.cap = cap, !.alone = \A j \in Ingestions : ~Running(j), !.listed = Listed(feed)]
           local == [fresh EXCEPT !.docs = Taken(docs, cap), !.listed = OnShelf, !.malformed = Len(Shelf) - Len(docs), !.hasMore = Len(docs) > cap]
           begun == IF shelf THEN [local EXCEPT !.stage = Fetched(local)] ELSE [fresh EXCEPT !.stage = "fetching"]
       IN ingestion' = [j \in Ingestions |-> IF j = i THEN begun ELSE [ingestion[j] EXCEPT !.alone = FALSE]]
  /\ UNCHANGED <<feed, revisions, knowledgeFaults, BaseUntouched>>

(* A page with fewer items than were asked for is the last one; a variant  *)
(* with a defect counts the items that can be used.                        *)
CountsUsable(items, pageSize) == Len(SelectSeq(items, WellFormed)) < pageSize
EndsWalk(items, pageSize) == Len(items) < pageSize

(* The items from a place on, as many as were asked for or as there are.   *)
PageAt(start, pageSize) ==
  SubSeq(feed, start + 1, IF start + pageSize < Len(feed) THEN start + pageSize ELSE Len(feed))

(* One answered page: what is read of it, and whether the walk goes on.    *)
FetchPage(i) ==
  /\ ingestion[i].stage = "fetching"
  /\ LET job == ingestion[i]
         remaining == job.cap - Len(job.docs)
         pageSize == IF remaining < PageSize THEN remaining ELSE PageSize
         items == PageAt(job.start, pageSize)
         good == Documents(Items(items))
         docs == job.docs \o good
         short == EndsWalk(items, pageSize)
         full == Len(docs) >= job.cap
         last == job.page = MaxPages - 1
         read == [job EXCEPT !.docs = docs, !.malformed = @ + Len(items) - Len(good), !.start = @ + Len(items),
                             !.page = @ + 1, !.tries = 0, !.hasMore = ~short /\ (full \/ last)]
     IN Settle(i, IF short \/ full \/ last THEN [read EXCEPT !.stage = Fetched(read)] ELSE read)
  /\ UNCHANGED <<feed, revisions, knowledgeFaults, BaseUntouched>>
(* 429, 5xx, a lost connection or a body that does not parse is tried      *)
(* again; another status or a page without a list is not.                  *)
PageFails(i) ==
  /\ ingestion[i].stage = "fetching"
  /\ \/ ingestion[i].tries < MaxFetchRetries /\ Fault /\ Settle(i, [ingestion[i] EXCEPT !.tries = @ + 1])
     \/ IngestFails(i)
  /\ UNCHANGED <<feed, revisions, BaseUntouched>>

(* upsert() of the repository reads, then updates or creates.              *)
FindRow(i) ==
  /\ ingestion[i].stage = "finding"
  /\ LET job == ingestion[i]
     IN Settle(i, [job EXCEPT !.found = CveIdOf(job.docs[job.next]) \in DOMAIN cveRows, !.stage = "writing"])
  /\ UNCHANGED <<feed, revisions, knowledgeFaults, BaseUntouched>>
WriteRow(i) ==
  /\ ingestion[i].stage = "writing"
  /\ LET job == ingestion[i]
         doc == job.docs[job.next]
         stage == IF job.next = Len(job.docs) THEN "embedding" ELSE "finding"
         key == CveIdOf(doc)
     IN IF ~job.found /\ key \in DOMAIN cveRows THEN Settle(i, [job EXCEPT !.stage = "failed"]) /\ UNCHANGED cveRows
        ELSE /\ cveRows' = [c \in DOMAIN cveRows \cup {key} |-> IF c = key THEN RowOf(doc) ELSE cveRows[c]]
             /\ Settle(i, [job EXCEPT !.next = @ + 1, !.stage = stage, !.tries = 0,
                                      !.inserted = @ + IF job.found THEN 0 ELSE 1,
                                      !.updated = @ + IF job.found THEN 1 ELSE 0])
  /\ UNCHANGED <<feed, revisions, knowledgeFaults, points, collection>>
RowFails(i) ==
  /\ ingestion[i].stage \in {"finding", "writing"} /\ IngestFails(i)
  /\ UNCHANGED <<feed, revisions, BaseUntouched>>

(* One call for the whole batch; vector n belongs to text n.  An answer    *)
(* with fewer vectors passes the validation, one with a vector of another  *)
(* length does not.                                                        *)
Vectors(docs, n) == [k \in 1..n |-> docs[k].text]
EmbedAll(i) ==
  /\ ingestion[i].stage = "embedding"
  /\ \E n \in 1..Len(ingestion[i].docs) :
       /\ n < Len(ingestion[i].docs) => Fault
       /\ n = Len(ingestion[i].docs) => UNCHANGED knowledgeFaults
       /\ Settle(i, [ingestion[i] EXCEPT !.vectors = Vectors(ingestion[i].docs, n), !.stage = "pushing"])
  /\ UNCHANGED <<feed, revisions, BaseUntouched>>
EmbedFails(i) ==
  /\ ingestion[i].stage = "embedding"
  /\ \/ ingestion[i].tries < MaxEmbedRetries /\ Fault /\ Settle(i, [ingestion[i] EXCEPT !.tries = @ + 1])
     \/ IngestFails(i)
  /\ UNCHANGED <<feed, revisions, BaseUntouched>>

(* Of points with one id the last of the batch stays.                      *)
Pushed(docs, vectors) ==
  [d \in DOMAIN points \cup {docs[n].id : n \in 1..Len(docs)} |->
    LET named == {n \in 1..Len(docs) : docs[n].id = d}
    IN IF named = {} THEN points[d]
       ELSE LET n == CHOOSE n \in named : \A k \in named : k <= n IN PointOf(docs[n], vectors[n])]
(* Nothing is sent when a document has no vector; without a collection     *)
(* Qdrant refuses.                                                         *)
UpsertPoints(i) ==
  /\ ingestion[i].stage = "pushing"
  /\ LET job == ingestion[i]
     IN IF Len(job.vectors) < Len(job.docs) \/ ~collection
        THEN Settle(i, [job EXCEPT !.stage = "failed"]) /\ UNCHANGED points
        ELSE /\ points' = Pushed(job.docs, job.vectors)
             /\ Settle(i, [job EXCEPT !.stage = "done", !.embedded = Len(job.vectors)])
  /\ UNCHANGED <<feed, revisions, knowledgeFaults, cveRows, collection>>
(* A refused or lost request, and one that timed out after it was applied. *)
UpsertFails(i) ==
  /\ ingestion[i].stage = "pushing" /\ Len(ingestion[i].vectors) = Len(ingestion[i].docs) /\ collection
  /\ points' \in {points, Pushed(ingestion[i].docs, ingestion[i].vectors)} /\ IngestFails(i)
  /\ UNCHANGED <<feed, revisions, cveRows, collection>>

(* ensureVectorCollection(), which the services leave to their operator.   *)
EnsureCollection ==
  ~collection /\ collection' = TRUE /\ UNCHANGED <<feed, ingestion, cveRows, points, revisions, knowledgeFaults>>

(* The feed moves on: a record is revised, listed, or listed elsewhere.    *)
(* It makes no difference once nobody is to read it any more.              *)
ReviseFeed ==
  /\ \E i \in Ingestions : ingestion[i].stage \in {"idle", "fetching"}
  /\ revisions < MaxRevisions /\ revisions' = revisions + 1
  /\ feed' \in Feeds \ {feed}
  /\ ingestion' = [i \in Ingestions |->
       IF ingestion[i].stage = "fetching" THEN [ingestion[i] EXCEPT !.calm = FALSE] ELSE ingestion[i]]
  /\ UNCHANGED <<knowledgeFaults, BaseUntouched>>

-----------------------------------------------------------------------------
(* A search changes nothing.  It asks for points with the type and the     *)
(* severity of a finding, or for any; the id of a hit is a hash, under     *)
(* which there is no row, so the row of its cveId gives the content.  Rows *)
(* are read after the points, and are never deleted in between.            *)
Matches(payload, filter) == \A f \in DOMAIN filter : filter[f] \in {Unset, payload[f]}
SearchPoints(filter) == {points[d] : d \in {e \in DOMAIN points : Matches(points[e].payload, filter)}}
PayloadOfHit(hit) == [hit.payload EXCEPT !.source = IF @ = "amass-kb" THEN @ ELSE "nvd"]
ToDocument(payload) ==
  [payload |-> payload, content |-> IF payload.cveId \in DOMAIN cveRows THEN cveRows[payload.cveId].text ELSE ""]
Search(filter) == {ToDocument(PayloadOfHit(hit)) : hit \in SearchPoints(filter)}

-----------------------------------------------------------------------------
KnowledgeInit ==
  /\ feed \in Feeds /\ collection \in BOOLEAN
  /\ ingestion = [i \in Ingestions |-> Unbegun]
  /\ cveRows = <<>> /\ points = <<>>
  /\ revisions = 0 /\ knowledgeFaults = 0
KnowledgeNext ==
  \/ \E i \in Ingestions : \/ BeginIngestion(i) \/ FetchPage(i) \/ PageFails(i) \/ FindRow(i) \/ WriteRow(i) \/ RowFails(i)
                           \/ EmbedAll(i) \/ EmbedFails(i) \/ UpsertPoints(i) \/ UpsertFails(i)
  \/ EnsureCollection \/ ReviseFeed
KnowledgeSpec == KnowledgeInit /\ [][KnowledgeNext]_knowledgeVars

(* Types of the knowledge base.                                            *)
AllDocs == (UNION {Listed(f) : f \in Feeds}) \cup OnShelf
KnowledgeTypeOK ==
  /\ feed \in Feeds /\ collection \in BOOLEAN /\ revisions \in 0..MaxRevisions /\ knowledgeFaults \in 0..MaxKnowledgeFaults
  /\ \A c \in DOMAIN cveRows : cveRows[c] \in {RowOf(d) : d \in {e \in AllDocs : CveIdOf(e) = c}}
  /\ \A d \in DOMAIN points : points[d].payload \in {PayloadOf(e) : e \in {f \in AllDocs : f.id = d}}
  /\ \A i \in Ingestions : /\ ingestion[i].stage \in {"idle", "fetching", "finding", "writing", "embedding", "pushing", "done", "failed"}
                           /\ ToSet(ingestion[i].docs) \subseteq AllDocs

(* Whatever fails on the way, whoever ingests beside it and however the    *)
(* feed moves: a document that can be found has its row, so a search finds *)
(* the text of its own CVE; an ingestion that answers success stored every *)
(* document it counts, at most as many as it was allowed, its row and its  *)
(* vector from the same text; and one that says there is no more has left  *)
(* nothing out that the list had.                                          *)
KnowledgeIsWhole ==
  /\ \A d \in DOMAIN points :
       (IF points[d].payload.source = "nvd" THEN points[d].payload.cveId ELSE d[2]) \in DOMAIN cveRows
  /\ \A r \in Search([type |-> Unset]) : r.payload.source = "nvd" =>
       \E d \in AllDocs : d.source = "nvd" /\ d.external = r.payload.cveId /\ d.text = r.content
  /\ \A i \in Ingestions : ingestion[i].stage = "done" =>
       LET job == ingestion[i]
           numbered == 1..Len(job.docs)
       IN /\ Len(job.docs) <= job.cap /\ job.embedded = Len(job.docs) /\ job.inserted + job.updated = Len(job.docs)
          /\ job.alone => \A n \in numbered : (\A k \in numbered : k > n => job.docs[k].id # job.docs[n].id) =>
               /\ cveRows[CveIdOf(job.docs[n])] = RowOf(job.docs[n])
               /\ points[job.docs[n].id] = PointOf(job.docs[n], job.docs[n].text)
               /\ job.docs[n].source = "nvd" =>
                    \E r \in Search([type |-> job.docs[n].type, severity |-> job.docs[n].severity]) :
                      r = [payload |-> PayloadOf(job.docs[n]), content |-> job.docs[n].text]
          /\ job.calm /\ ~job.hasMore => job.listed \subseteq ToSet(job.docs)
=============================================================================
