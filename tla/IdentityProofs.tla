--------------------------- MODULE IdentityProofs ----------------------------
(* Proofs about Acquisition.  The tables keep IdentityOK under each write of   *)
(* EventIdentity, and the map only grows; a run that has resolved an event     *)
(* then names the id the map holds, whatever other runs commit meanwhile, and  *)
(* as long as each provider has one collector, no two of its listings meet.    *)
EXTENDS Acquisition, TLAPS

\* The mapped events exist (event_source_map.internal_id is a foreign key).
MapIsStored == \A l \in Listings : sourceMap[l] # None => events[sourceMap[l]] # None

\* A decision named an event, and the map holds it.
DecisionMapped ==
    \A l \in Listings : reviews[l].state = "resolved" =>
        reviews[l].chosen \in EventIds /\ sourceMap[l] = reviews[l].chosen

\* Every source id of a row of event e is mapped to e.
SourcesMapped(row, e) ==
    \A p \in Providers : row.sources[p] # None => sourceMap[row.sources[p]] = e

TablesTyped ==
    /\ events \in [EventIds -> Rows \cup {None}]
    /\ history \in [EventIds -> Times \cup {None}]
    /\ sourceMap \in [Listings -> EventIds \cup {None}]
    /\ reviews \in [Listings -> Reviews]
    /\ \A a \in aliases : a.alias \in Names /\ a.canonical \in Participants

IdentityOK ==
    /\ TablesTyped
    /\ MapIsStored
    /\ EveryEventIsListed
    /\ \A e \in EventIds : events[e] # None => SourcesMapped(events[e], e)
    /\ DecisionMapped

\* What a transaction read: candidates that exist, rows as they once were.
ReadingFollows(w) ==
    LET r == reading[w]
    IN  /\ r.listing \in DOMAIN batch[w]
        /\ r.queued \in BOOLEAN
        /\ r.matched \subseteq Stored
        /\ \A e \in r.matched : r.rows[e] \in Rows /\ SourcesMapped(r.rows[e], e)
        /\ r.mapped => /\ sourceMap[r.listing] # None
                       /\ r.matched = {sourceMap[r.listing]}

RunsTyped ==
    /\ kickoff \in [Listings -> Times]
    /\ batch \in [Workers -> Batches]
    /\ target \in [Workers -> [Listings -> EventIds \cup {None}]]
    /\ reading = [w \in Workers |-> reading[w]]
    /\ busy \in [Workers -> BOOLEAN]
    /\ snapshots \subseteq Listings \X EventIds
    /\ moves \in 0..MaxMoves
    /\ crashes \in 0..MaxCrashes

RemapFollows(w) ==
    \A l \in Listings : target[w][l] # None => sourceMap[l] = target[w][l]

RunsOK ==
    /\ RunsTyped
    /\ \A w \in Workers : RemapFollows(w)
    /\ \A w \in Workers : ~busy[w] => reading[w] = None
    /\ \A w \in Workers : reading[w] # None => ReadingFollows(w)
    /\ SnapshotsFollowMap

IInv == IdentityOK /\ RunsOK

\* The map and the events only grow.
Grows ==
    /\ \A l \in Listings : sourceMap[l] # None => sourceMap'[l] = sourceMap[l]
    /\ \A e \in EventIds : events[e] # None => events'[e] # None

-----------------------------------------------------------------------------
(* The rows.                                                                   *)

\* A row keeps its kind when its sources or its kick-off are replaced.
LEMMA SourcesReplaced ==
    ASSUME NEW r \in Rows, NEW s \in [Providers -> Listings \cup {None}]
    PROVE  [r EXCEPT !.sources = s] \in Rows /\ [r EXCEPT !.sources = s].sources = s
BY DEF Rows

LEMMA StartReplaced ==
    ASSUME NEW r \in Rows, NEW t \in Times
    PROVE  [r EXCEPT !.start = t] \in Rows /\ [r EXCEPT !.start = t].sources = r.sources
BY DEF Rows

\* The row a provider's listing writes names that listing and no other.
LEMMA EventRowSources ==
    ASSUME NEW l \in Listings, NEW t \in Times
    PROVE  /\ EventRow(l, t) \in Rows
           /\ EventRow(l, t) # None
           /\ \A p \in Providers : EventRow(l, t).sources[p] \in {l, None}
<1>1. OnlySource(l) \in [Providers -> Listings \cup {None}]
  BY DEF OnlySource
<1>2. PairKey(l) \in Participants \X Participants
  BY IdentityAssumption DEF PairKey
<1>3. EventRow(l, t) \in Rows
  BY <1>1, <1>2 DEF EventRow, Rows
<1>4. \A p \in Providers : EventRow(l, t).sources[p] \in {l, None}
  BY DEF EventRow, OnlySource
<1> QED
  BY <1>3, <1>4, IdentityAssumption

\* Growth of the map keeps what a row says of it.
LEMMA SourcesStayMapped ==
    ASSUME TablesTyped, Grows, NEW row \in Rows, NEW e \in EventIds,
           SourcesMapped(row, e)
    PROVE  SourcesMapped(row, e)'
<1> SUFFICES ASSUME NEW p \in Providers, row.sources[p] # None
             PROVE  sourceMap'[row.sources[p]] = e
  BY DEF SourcesMapped
<1>1. row.sources[p] \in Listings
  BY DEF Rows
<1>2. sourceMap[row.sources[p]] = e /\ e # None
  BY IdentityAssumption DEF SourcesMapped
<1> QED
  BY <1>1, <1>2 DEF Grows

-----------------------------------------------------------------------------
(* The writes of EventIdentity.                                                *)

\* A link, of a run or of the operator, from a row read earlier.
LEMMA LinkKeeps ==
    ASSUME IdentityOK, NEW l \in Listings, NEW e \in EventIds, NEW row \in Rows,
           SourcesMapped(row, e), events[e] # None, Link(l, e, row),
           UNCHANGED <<history, aliases>>
    PROVE  /\ events' \in [EventIds -> Rows \cup {None}]
           /\ sourceMap' \in [Listings -> EventIds \cup {None}]
           /\ sourceMap'[l] = e
           /\ Grows
           /\ MapIsStored'
           /\ EveryEventIsListed'
           /\ \A d \in EventIds : events'[d] # None => SourcesMapped(events[d], d)'
<1> DEFINE s == [row.sources EXCEPT ![ProviderOf(l)] = l]
<1>1. s \in [Providers -> Listings \cup {None}]
  BY DEF Rows
<1>2. events \in [EventIds -> Rows \cup {None}] /\ events[e] \in Rows
  BY DEF IdentityOK, TablesTyped
<1>3. sourceMap \in [Listings -> EventIds \cup {None}]
  BY DEF IdentityOK, TablesTyped
<1>4. /\ events'[e] = [events[e] EXCEPT !.sources = s]
      /\ \A d \in EventIds \ {e} : events'[d] = events[d]
      /\ DOMAIN events' = EventIds
  BY <1>2 DEF Link
<1>5. events'[e] \in Rows /\ events'[e].sources = s /\ events'[e] # None
  <2> HIDE DEF s
  <2> QED
    BY <1>1, <1>2, <1>4, SourcesReplaced, IdentityAssumption
<1>6. events' \in [EventIds -> Rows \cup {None}]
  BY <1>2, <1>4, <1>5 DEF Link
<1>7. /\ sourceMap' \in [Listings -> EventIds \cup {None}]
      /\ sourceMap'[l] = e
      /\ \A k \in Listings \ {l} : sourceMap'[k] = sourceMap[k]
      /\ sourceMap[l] = None
  BY <1>3 DEF Link
<1>8. Grows
  BY <1>4, <1>5, <1>7 DEF Grows
<1>9. MapIsStored'
  BY <1>3, <1>4, <1>5, <1>7 DEF IdentityOK, MapIsStored
<1>10. EveryEventIsListed'
  BY <1>4, <1>7, IdentityAssumption DEF IdentityOK, EveryEventIsListed, Stored
<1>11. SourcesMapped(events[e], e)'
  <2> SUFFICES ASSUME NEW p \in Providers, s[p] # None
               PROVE  sourceMap'[s[p]] = e
    BY <1>5 DEF SourcesMapped
  <2>1. CASE s[p] = l
    BY <2>1, <1>7
  <2>2. CASE s[p] # l
    <3>1. s[p] = row.sources[p]
      BY <2>2 DEF Rows
    <3>2. SourcesMapped(row, e)'
      BY <1>8, SourcesStayMapped DEF IdentityOK
    <3> QED
      BY <3>1, <3>2 DEF SourcesMapped
  <2> QED
    BY <2>1, <2>2
<1>12. ASSUME NEW d \in EventIds \ {e}, events'[d] # None
       PROVE  SourcesMapped(events[d], d)'
  <2>1. events[d] \in Rows /\ SourcesMapped(events[d], d)
    BY <1>2, <1>4, <1>12 DEF IdentityOK
  <2>2. \A p \in Providers : events[d].sources[p] # None =>
           /\ events[d].sources[p] \in Listings
           /\ sourceMap[events[d].sources[p]] = d
    BY <2>1 DEF Rows, SourcesMapped
  <2>3. \A p \in Providers : events[d].sources[p] # None =>
           sourceMap'[events[d].sources[p]] = d
    BY <2>2, <1>8, IdentityAssumption DEF Grows
  <2> QED
    BY <2>3, <1>4 DEF SourcesMapped
<1> QED
  BY <1>6, <1>7, <1>8, <1>9, <1>10, <1>11, <1>12

\* An event row that keeps, or loses, its sources is still mapped as it says.
LEMMA KeptSources ==
    ASSUME TablesTyped, Grows,
           NEW e \in EventIds, events[e] # None, SourcesMapped(events[e], e),
           events'[e].sources = events[e].sources
    PROVE  SourcesMapped(events[e], e)'
<1>1. events[e] \in Rows
  BY DEF TablesTyped
<1>2. \A p \in Providers : events[e].sources[p] # None =>
         /\ events[e].sources[p] \in Listings
         /\ sourceMap[events[e].sources[p]] = e
  BY <1>1 DEF Rows, SourcesMapped
<1> QED
  BY <1>2, IdentityAssumption DEF Grows, SourcesMapped

\* A moved kick-off leaves the map and the sources alone.
LEMMA RefreshKeeps ==
    ASSUME IdentityOK, NEW e \in EventIds, NEW row \in Rows, NEW t \in Times,
           events[e] # None, RefreshMapped(e, row, t)
    PROVE  IdentityOK' /\ Grows /\ UNCHANGED sourceMap
<1>1. events[e] \in Rows /\ events \in [EventIds -> Rows \cup {None}]
  BY DEF IdentityOK, TablesTyped
<1>2. /\ events' \in [EventIds -> Rows \cup {None}]
      /\ \A d \in EventIds : events[d] # None =>
            events'[d] # None /\ events'[d].sources = events[d].sources
      /\ \A d \in EventIds : events[d] = None => events'[d] = None
  <2>1. CASE UNCHANGED events
    BY <2>1, <1>1
  <2>2. CASE events' = [events EXCEPT ![e].start = t]
    <3>1. /\ events'[e] = [events[e] EXCEPT !.start = t]
          /\ \A d \in EventIds \ {e} : events'[d] = events[d]
      BY <2>2, <1>1
    <3>2. /\ events'[e] \in Rows /\ events'[e].sources = events[e].sources
          /\ events'[e] # None
      BY <3>1, <1>1, StartReplaced, IdentityAssumption
    <3>3. events' \in [EventIds -> Rows \cup {None}]
      BY <2>2, <3>1, <3>2, <1>1
    <3> QED
      BY <3>1, <3>2, <3>3
  <2> QED
    BY <2>1, <2>2 DEF RefreshMapped
<1>3. /\ history' \in [EventIds -> Times \cup {None}]
      /\ UNCHANGED <<sourceMap, reviews, aliases>>
  BY DEF RefreshMapped, IdentityOK, TablesTyped
<1>4. TablesTyped'
  BY <1>2, <1>3 DEF IdentityOK, TablesTyped
<1>5. Grows
  BY <1>2, <1>3 DEF Grows
<1>6. MapIsStored'
  BY <1>2, <1>3, IdentityAssumption DEF IdentityOK, MapIsStored, TablesTyped
<1>7. EveryEventIsListed'
  BY <1>2, <1>3 DEF IdentityOK, EveryEventIsListed, Stored
<1>8. ASSUME NEW d \in EventIds, events'[d] # None
      PROVE  SourcesMapped(events[d], d)'
  <2>1. events[d] # None /\ events'[d].sources = events[d].sources
    BY <1>2, <1>8
  <2> QED
    BY <2>1, <1>5, KeptSources DEF IdentityOK
<1>9. DecisionMapped'
  BY <1>3 DEF IdentityOK, DecisionMapped
<1> QED
  BY <1>3, <1>4, <1>5, <1>6, <1>7, <1>8, <1>9 DEF IdentityOK

\* A new event comes with its mapping.
LEMMA CreateKeeps ==
    ASSUME IdentityOK, NEW l \in Listings, NEW e \in EventIds, NEW t \in Times,
           Create(l, e, t)
    PROVE  IdentityOK' /\ Grows /\ sourceMap'[l] = e
<1>1. /\ events \in [EventIds -> Rows \cup {None}]
      /\ sourceMap \in [Listings -> EventIds \cup {None}]
      /\ sourceMap[l] = None /\ events[e] = None
  BY DEF IdentityOK, TablesTyped, Create
<1>2. /\ events'[e] = EventRow(l, t)
      /\ \A d \in EventIds \ {e} : events'[d] = events[d]
      /\ events' \in [EventIds -> Rows \cup {None}]
      /\ events'[e] # None
  BY <1>1, EventRowSources DEF Create
<1>3. /\ sourceMap'[l] = e
      /\ \A k \in Listings \ {l} : sourceMap'[k] = sourceMap[k]
      /\ sourceMap' \in [Listings -> EventIds \cup {None}]
  BY <1>1 DEF Create
<1>4. TablesTyped'
  BY <1>2, <1>3 DEF IdentityOK, TablesTyped, Create
<1>5. Grows
  BY <1>1, <1>2, <1>3 DEF Grows
<1>6. MapIsStored'
  BY <1>1, <1>2, <1>3 DEF IdentityOK, MapIsStored
<1>7. EveryEventIsListed'
  BY <1>1, <1>2, <1>3, IdentityAssumption DEF IdentityOK, EveryEventIsListed, Stored
<1>8. ASSUME NEW d \in EventIds, events'[d] # None
      PROVE  SourcesMapped(events[d], d)'
  <2>1. CASE d = e
    BY <2>1, <1>2, <1>3, EventRowSources DEF SourcesMapped
  <2>2. CASE d # e
    <3>1. events[d] # None /\ events'[d].sources = events[d].sources
      BY <2>2, <1>2, <1>8
    <3> QED
      BY <3>1, <1>5, KeptSources DEF IdentityOK
  <2> QED
    BY <2>1, <2>2
<1>9. DecisionMapped'
  BY <1>1, <1>3, IdentityAssumption
  DEF IdentityOK, DecisionMapped, TablesTyped, Create, Reviews
<1> QED
  BY <1>3, <1>4, <1>5, <1>6, <1>7, <1>8, <1>9 DEF IdentityOK

\* A queued case touches neither the map nor the events, and leaves a resolved
\* row resolved as it was.
LEMMA AmbiguityKeeps ==
    ASSUME IdentityOK, NEW l \in Listings, NEW C \in SUBSET EventIds,
           NEW queued \in BOOLEAN, RecordAmbiguity(l, C, queued)
    PROVE  IdentityOK' /\ Grows
<1>1. UNCHANGED <<events, history, sourceMap, aliases>>
  BY DEF RecordAmbiguity
<1>2. /\ reviews' \in [Listings -> Reviews]
      /\ \A k \in Listings : reviews'[k].state = "resolved" =>
            reviews[k].state = "resolved" /\ reviews'[k].chosen = reviews[k].chosen
  <2>1. reviews \in [Listings -> Reviews]
    BY DEF IdentityOK, TablesTyped
  <2>2. reviews'[l] = [reviews[l] EXCEPT
                         !.state = IF queued THEN @ ELSE "open", !.candidates = C]
    BY <2>1 DEF RecordAmbiguity
  <2>3. reviews'[l] \in Reviews /\ reviews'[l].chosen = reviews[l].chosen
    <3>1. PICK st \in {reviews[l].state, "open"} :
             reviews'[l] = [reviews[l] EXCEPT !.state = st, !.candidates = C]
      BY <2>2
    <3> QED
      BY <2>1, <3>1 DEF Reviews
  <2>4. reviews'[l].state = "resolved" => reviews[l].state = "resolved"
    BY <2>1, <2>2 DEF Reviews
  <2>5. \A k \in Listings \ {l} : reviews'[k] = reviews[k]
    BY <2>1 DEF RecordAmbiguity
  <2>6. reviews' \in [Listings -> Reviews]
    BY <2>1, <2>3, <2>5 DEF RecordAmbiguity
  <2> QED
    BY <2>3, <2>4, <2>5, <2>6
<1>3. TablesTyped' /\ MapIsStored' /\ EveryEventIsListed'
  BY <1>1, <1>2 DEF IdentityOK, TablesTyped, MapIsStored, EveryEventIsListed, Stored
<1>4. \A e \in EventIds : events'[e] # None => SourcesMapped(events[e], e)'
  BY <1>1 DEF IdentityOK, SourcesMapped
<1>5. DecisionMapped'
  BY <1>1, <1>2 DEF IdentityOK, DecisionMapped
<1>6. Grows
  BY <1>1 DEF Grows
<1> QED
  BY <1>3, <1>4, <1>5, <1>6 DEF IdentityOK

\* The operator links a listing that is unmapped, and records the choice.
LEMMA ResolveKeeps ==
    ASSUME IdentityOK, NEW l \in Listings, NEW e \in EventIds, ResolveReview(l, e)
    PROVE  IdentityOK' /\ Grows
<1>1. events[e] \in Rows /\ SourcesMapped(events[e], e) /\ events[e] # None
  BY DEF IdentityOK, TablesTyped, ResolveReview
<1>2. Link(l, e, events[e]) /\ UNCHANGED <<history, aliases>>
  BY DEF ResolveReview
<1>3. /\ events' \in [EventIds -> Rows \cup {None}]
      /\ sourceMap' \in [Listings -> EventIds \cup {None}]
      /\ sourceMap'[l] = e
      /\ Grows
      /\ MapIsStored'
      /\ EveryEventIsListed'
      /\ \A d \in EventIds : events'[d] # None => SourcesMapped(events[d], d)'
  BY <1>1, <1>2, LinkKeeps
<1>4. /\ reviews' \in [Listings -> Reviews]
      /\ reviews'[l].chosen = e
      /\ \A k \in Listings \ {l} : reviews'[k] = reviews[k]
  BY DEF IdentityOK, TablesTyped, ResolveReview, Reviews
<1>5. TablesTyped'
  BY <1>2, <1>3, <1>4 DEF IdentityOK, TablesTyped
<1>6. DecisionMapped'
  BY <1>3, <1>4, IdentityAssumption DEF IdentityOK, DecisionMapped, Grows
<1> QED
  BY <1>3, <1>5, <1>6 DEF IdentityOK

\* An imported alias changes what matches next, and no table besides its own.
LEMMA ImportKeeps ==
    ASSUME IdentityOK, NEW a \in AliasFile,
           ImportAlias(a.source, a.alias, a.canonical)
    PROVE  IdentityOK' /\ Grows
<1>1. UNCHANGED <<events, history, sourceMap, reviews>>
  BY DEF ImportAlias
<1>2. \A b \in aliases' : b.alias \in Names /\ b.canonical \in Participants
  BY AcquisitionAssumption DEF ImportAlias, IdentityOK, TablesTyped
<1>3. TablesTyped'
  BY <1>1, <1>2 DEF IdentityOK, TablesTyped
<1> QED
  BY <1>1, <1>3
  DEF IdentityOK, MapIsStored, EveryEventIsListed, Stored, SourcesMapped,
      DecisionMapped, Grows

\* A run's link, from the row it read.
LEMMA RunLinkKeeps ==
    ASSUME IdentityOK, NEW l \in Listings, NEW e \in EventIds, NEW row \in Rows,
           SourcesMapped(row, e), events[e] # None, Link(l, e, row),
           UNCHANGED <<history, reviews, aliases>>
    PROVE  IdentityOK' /\ Grows /\ sourceMap'[l] = e
<1>1. /\ events' \in [EventIds -> Rows \cup {None}]
      /\ sourceMap' \in [Listings -> EventIds \cup {None}]
      /\ sourceMap'[l] = e
      /\ Grows
      /\ MapIsStored'
      /\ EveryEventIsListed'
      /\ \A d \in EventIds : events'[d] # None => SourcesMapped(events[d], d)'
  BY LinkKeeps
<1>2. TablesTyped'
  BY <1>1 DEF IdentityOK, TablesTyped
<1>3. DecisionMapped'
  BY <1>1, IdentityAssumption DEF IdentityOK, DecisionMapped, Grows
<1> QED
  BY <1>1, <1>2, <1>3 DEF IdentityOK

\* The batch of a run is a set of listings with their kick-offs.
LEMMA BatchTyped ==
    ASSUME RunsTyped, NEW w \in Workers
    PROVE  /\ DOMAIN batch[w] \subseteq Listings
           /\ \A l \in DOMAIN batch[w] : batch[w][l] \in Times
<1>1. batch[w] \in Batches
  BY DEF RunsTyped
<1>2. PICK S \in SUBSET Listings : batch[w] \in [S -> Times]
  BY <1>1 DEF Batches
<1> QED
  BY <1>2

\* upsert replaces rows by rows whose only source is mapped to them.
LEMMA UpsertKeeps ==
    ASSUME IdentityOK, RunsOK, NEW w \in Workers, PersistBatch(w)
    PROVE  IdentityOK' /\ Grows
<1> DEFINE ids == {target[w][l] : l \in DOMAIN batch[w]}
<1>1. PICK last \in [ids -> DOMAIN batch[w]] :
         /\ \A e \in ids : target[w][last[e]] = e
         /\ events' = Upserted(w, last)
  BY DEF PersistBatch
<1>2. UNCHANGED <<history, sourceMap, reviews, aliases>>
  BY DEF PersistBatch
<1>3. /\ events \in [EventIds -> Rows \cup {None}]
      /\ sourceMap \in [Listings -> EventIds \cup {None}]
  BY DEF IdentityOK, TablesTyped
<1>4. DOMAIN batch[w] \subseteq Listings /\ \A l \in DOMAIN batch[w] : batch[w][l] \in Times
  BY BatchTyped DEF RunsOK
<1>5. \A l \in DOMAIN batch[w] : target[w][l] # None /\ sourceMap[l] = target[w][l]
  BY <1>4 DEF PersistBatch, Resolved, Pending, RunsOK, RemapFollows
<1>6. \A e \in ids : last[e] \in Listings /\ sourceMap[last[e]] = e
  BY <1>1, <1>4, <1>5
<1>7. DOMAIN last = ids
  BY <1>1
<1>8. ASSUME NEW e \in EventIds
      PROVE  \/ /\ events'[e] \in Rows /\ events'[e] # None
                /\ SourcesMapped(events[e], e)'
                /\ \E l \in Listings : sourceMap[l] = e
             \/ events'[e] = events[e]
  <2>1. CASE e \in ids
    <3>1. events'[e] = EventRow(last[e], batch[w][last[e]])
      BY <2>1, <1>1, <1>7 DEF Upserted
    <3>2. last[e] \in Listings /\ batch[w][last[e]] \in Times /\ sourceMap[last[e]] = e
      BY <2>1, <1>1, <1>4, <1>6
    <3>3. /\ events'[e] \in Rows /\ events'[e] # None
          /\ \A p \in Providers : events'[e].sources[p] \in {last[e], None}
      BY <3>1, <3>2, EventRowSources
    <3>4. SourcesMapped(events[e], e)'
      BY <3>2, <3>3, <1>2 DEF SourcesMapped
    <3> QED
      BY <3>2, <3>3, <3>4
  <2>2. CASE e \notin ids
    BY <2>2, <1>1, <1>7 DEF Upserted
  <2> QED
    BY <2>1, <2>2
<1>9. events' \in [EventIds -> Rows \cup {None}]
  <2>1. DOMAIN events' = EventIds /\ events' = [e \in EventIds |-> events'[e]]
    BY <1>1 DEF Upserted
  <2>2. \A e \in EventIds : events'[e] \in Rows \cup {None}
    BY <1>3, <1>8
  <2> QED
    BY <2>1, <2>2
<1>10. Grows
  BY <1>2, <1>8 DEF Grows
<1>11. TablesTyped'
  BY <1>2, <1>9 DEF IdentityOK, TablesTyped
<1>12. MapIsStored'
  BY <1>2, <1>3, <1>10, IdentityAssumption DEF IdentityOK, MapIsStored, Grows
<1>13. EveryEventIsListed'
  BY <1>2, <1>8 DEF IdentityOK, EveryEventIsListed, Stored
<1>14. \A e \in EventIds : events'[e] # None => SourcesMapped(events[e], e)'
  BY <1>2, <1>8 DEF IdentityOK, SourcesMapped
<1>15. DecisionMapped'
  BY <1>2 DEF IdentityOK, DecisionMapped
<1> QED
  BY <1>11, <1>12, <1>13, <1>14, <1>15, <1>10 DEF IdentityOK

LEMMA IdentityUnchanged ==
    ASSUME IdentityOK, UNCHANGED identityVars
    PROVE  IdentityOK' /\ Grows
BY DEF identityVars, IdentityOK, TablesTyped, MapIsStored, EveryEventIsListed,
       Stored, SourcesMapped, DecisionMapped, Grows

-----------------------------------------------------------------------------
(* The runs.                                                                   *)

\* What a run resolved stays true while the map grows.
LEMMA RemapStays ==
    ASSUME TablesTyped, RunsTyped, Grows, NEW w \in Workers, RemapFollows(w),
           UNCHANGED target[w]
    PROVE  RemapFollows(w)'
<1>1. \A l \in Listings : target[w][l] # None =>
         sourceMap[l] # None /\ sourceMap[l] = target[w][l]
  BY DEF RemapFollows
<1> QED
  BY <1>1 DEF RemapFollows, Grows

\* So does what a transaction read.
LEMMA ReadingStays ==
    ASSUME TablesTyped, RunsTyped, Grows, NEW w \in Workers, ReadingFollows(w),
           UNCHANGED <<batch[w], reading[w]>>
    PROVE  ReadingFollows(w)'
<1> DEFINE r == reading[w]
<1>1. r.listing \in DOMAIN batch[w] /\ r.queued \in BOOLEAN
  BY DEF ReadingFollows
<1>2. \A e \in r.matched : /\ e \in EventIds /\ events[e] # None
                           /\ r.rows[e] \in Rows /\ SourcesMapped(r.rows[e], e)
  BY DEF ReadingFollows, Stored
<1>3. \A e \in r.matched : events'[e] # None
  BY <1>2 DEF Grows
<1>4. \A e \in r.matched : SourcesMapped(r.rows[e], e)'
  <2> SUFFICES ASSUME NEW e \in r.matched
               PROVE  \A p \in Providers :
                        r.rows[e].sources[p] # None => sourceMap'[r.rows[e].sources[p]] = e
    BY DEF SourcesMapped
  <2>1. e \in EventIds /\ r.rows[e] \in Rows /\ SourcesMapped(r.rows[e], e)
    BY <1>2
  <2>2. \A p \in Providers : r.rows[e].sources[p] # None =>
           /\ r.rows[e].sources[p] \in Listings
           /\ sourceMap[r.rows[e].sources[p]] = e
    BY <2>1 DEF Rows, SourcesMapped
  <2> QED
    BY <2>1, <2>2, IdentityAssumption DEF Grows
<1>5. r.mapped => sourceMap'[r.listing] # None /\ r.matched = {sourceMap'[r.listing]}
  <2>1. r.listing \in Listings
    BY <1>1, BatchTyped
  <2> QED
    BY <2>1 DEF ReadingFollows, Grows
<1>6. r.matched \subseteq Stored'
  BY <1>2, <1>3 DEF Stored
<1>7. reading'[w] = r /\ batch'[w] = batch[w]
  OBVIOUS
<1> QED
  BY <1>1, <1>2, <1>4, <1>5, <1>6, <1>7 DEF ReadingFollows

\* Stored prices keep naming the event of their listing.
LEMMA SnapshotsStay ==
    ASSUME TablesTyped, RunsOK, Grows, UNCHANGED snapshots
    PROVE  SnapshotsFollowMap'
<1>1. \A s \in snapshots : s[1] \in Listings /\ sourceMap[s[1]] = s[2] /\ s[2] # None
  BY IdentityAssumption DEF RunsOK, RunsTyped, SnapshotsFollowMap
<1> QED
  BY <1>1 DEF SnapshotsFollowMap, Grows

\* The environment's and the operator's steps touch no run.
LEMMA RunsUntouched ==
    ASSUME IdentityOK, RunsOK, Grows, UNCHANGED <<runVars, snapshots>>,
           kickoff' \in [Listings -> Times], moves' \in 0..MaxMoves,
           crashes' \in 0..MaxCrashes
    PROVE  RunsOK'
<1>1. RunsTyped'
  BY DEF RunsOK, RunsTyped, runVars
<1>2. \A w \in Workers : RemapFollows(w)'
  BY RemapStays DEF RunsOK, IdentityOK, runVars
<1>3. \A w \in Workers : reading'[w] # None => ReadingFollows(w)'
  BY ReadingStays DEF RunsOK, IdentityOK, runVars
<1>4. SnapshotsFollowMap'
  BY SnapshotsStay DEF IdentityOK
<1>5. \A w \in Workers : ~busy'[w] => reading'[w] = None
  BY DEF RunsOK, runVars
<1> QED
  BY <1>1, <1>2, <1>3, <1>4, <1>5 DEF RunsOK

\* What holds of the workers that a step of worker w leaves alone.
LEMMA OthersKept ==
    ASSUME IdentityOK, RunsOK, Grows, NEW w \in Workers,
           \A v \in Workers \ {w} :
              UNCHANGED <<batch[v], target[v], reading[v], busy[v]>>
    PROVE  \A v \in Workers \ {w} :
              /\ RemapFollows(v)'
              /\ reading'[v] # None => ReadingFollows(v)'
              /\ ~busy'[v] => reading'[v] = None
<1> SUFFICES ASSUME NEW v \in Workers \ {w}
             PROVE  /\ RemapFollows(v)'
                    /\ reading'[v] # None => ReadingFollows(v)'
                    /\ ~busy'[v] => reading'[v] = None
  OBVIOUS
<1>1. UNCHANGED <<batch[v], target[v], reading[v], busy[v]>>
  OBVIOUS
<1>2. RemapFollows(v)'
  BY <1>1, RemapStays DEF RunsOK, IdentityOK
<1>3. reading'[v] # None => ReadingFollows(v)'
  BY <1>1, ReadingStays DEF RunsOK, IdentityOK
<1> QED
  BY <1>1, <1>2, <1>3 DEF RunsOK

LEMMA EmptyBatch == NoBatch \in Batches /\ DOMAIN NoBatch = {}
<1>1. NoBatch \in [{} -> Times] /\ {} \in SUBSET Listings
  BY DEF NoBatch
<1> QED
  BY <1>1 DEF Batches, NoBatch

\* A run that ends, fails or crashes leaves nothing of its own behind.
LEMMA ForgetKeeps ==
    ASSUME IdentityOK, RunsOK, Grows, NEW w \in Workers, Forget(w),
           SnapshotsFollowMap', snapshots' \subseteq Listings \X EventIds,
           UNCHANGED <<kickoff, moves>>, crashes' \in 0..MaxCrashes
    PROVE  RunsOK'
<1>1. /\ batch' \in [Workers -> Batches]
      /\ target' \in [Workers -> [Listings -> EventIds \cup {None}]]
      /\ busy' \in [Workers -> BOOLEAN]
  BY EmptyBatch DEF Forget, RunsOK, RunsTyped, Unresolved
<1>2. reading' = [v \in Workers |-> reading'[v]]
  BY DEF Forget, RunsOK, RunsTyped
<1>3. RunsTyped'
  BY <1>1, <1>2 DEF RunsOK, RunsTyped
<1>4. \A v \in Workers \ {w} : UNCHANGED <<batch[v], target[v], reading[v], busy[v]>>
  BY DEF Forget, RunsOK, RunsTyped
<1>5. target'[w] = Unresolved /\ reading'[w] = None
  BY DEF Forget, RunsOK, RunsTyped
<1>6. RemapFollows(w)'
  BY <1>5 DEF RemapFollows, Unresolved
<1> QED
  BY <1>3, <1>4, <1>5, <1>6, OthersKept DEF RunsOK

\* A run that puts an event on the id the map holds.
LEMMA RemapKeeps ==
    ASSUME IdentityOK, RunsOK, Grows, NEW w \in Workers, NEW l \in Listings,
           NEW e \in EventIds, sourceMap'[l] = e, Remap(w, l, e)
    PROVE  RunsOK'
<1>1. UNCHANGED <<kickoff, batch, busy, snapshots, moves, crashes>>
  BY DEF Remap
<1>2. target' \in [Workers -> [Listings -> EventIds \cup {None}]]
  BY DEF Remap, RunsOK, RunsTyped
<1>3. reading' = [v \in Workers |-> reading'[v]]
  BY DEF Remap, RunsOK, RunsTyped
<1>4. RunsTyped'
  BY <1>1, <1>2, <1>3 DEF RunsOK, RunsTyped
<1>5. \A v \in Workers \ {w} : UNCHANGED <<batch[v], target[v], reading[v], busy[v]>>
  BY <1>1 DEF Remap, RunsOK, RunsTyped
<1>6. /\ reading'[w] = None
      /\ target'[w][l] = e
      /\ \A k \in Listings \ {l} : target'[w][k] = target[w][k]
  BY DEF Remap, RunsOK, RunsTyped
<1>7. RemapFollows(w)'
  BY <1>6 DEF RemapFollows, RunsOK, Grows
<1>8. SnapshotsFollowMap'
  BY <1>1, SnapshotsStay DEF IdentityOK
<1> QED
  BY <1>4, <1>5, <1>6, <1>7, <1>8, OthersKept DEF RunsOK

-----------------------------------------------------------------------------
(* The steps.                                                                  *)

LEMMA CollectKeeps ==
    ASSUME IInv, NEW w \in Workers, Collect(w)
    PROVE  IInv' /\ Grows
<1>1. IdentityOK' /\ Grows
  BY IdentityUnchanged DEF IInv, Collect
<1>2. PICK p \in SourcesOf[w] :
         batch' = [batch EXCEPT ![w] =
                     [l \in {k \in Listings : ProviderOf(k) = p} |-> kickoff[l]]]
  BY DEF Collect
<1>3. [l \in {k \in Listings : ProviderOf(k) = p} |-> kickoff[l]] \in Batches
  <2>1. {k \in Listings : ProviderOf(k) = p} \in SUBSET Listings
    OBVIOUS
  <2>2. kickoff \in [Listings -> Times]
    BY DEF IInv, RunsOK, RunsTyped
  <2>3. [l \in {k \in Listings : ProviderOf(k) = p} |-> kickoff[l]]
           \in [{k \in Listings : ProviderOf(k) = p} -> Times]
    BY <2>2
  <2> QED
    BY <2>1, <2>3 DEF Batches
<1>4. batch' \in [Workers -> Batches]
  BY <1>2, <1>3 DEF IInv, RunsOK, RunsTyped
<1>5. /\ target' \in [Workers -> [Listings -> EventIds \cup {None}]]
      /\ busy' \in [Workers -> BOOLEAN]
  BY DEF Collect, IInv, RunsOK, RunsTyped, Unresolved
<1>6. RunsTyped'
  BY <1>4, <1>5 DEF IInv, RunsOK, RunsTyped, Collect
<1>7. \A v \in Workers \ {w} : UNCHANGED <<batch[v], target[v], reading[v], busy[v]>>
  BY DEF Collect, IInv, RunsOK, RunsTyped
<1>8. reading'[w] = None /\ target'[w] = Unresolved
  BY DEF Collect, IInv, RunsOK, RunsTyped
<1>9. RemapFollows(w)'
  BY <1>8 DEF RemapFollows, Unresolved
<1>10. SnapshotsFollowMap'
  BY <1>1, SnapshotsStay DEF IInv, IdentityOK, Collect
<1> QED
  BY <1>1, <1>6, <1>7, <1>8, <1>9, <1>10, OthersKept DEF IInv, RunsOK

\* What resolve reads: the mapped event, or events that are stored.
LEMMA BeginResolveKeeps ==
    ASSUME IInv, NEW w \in Workers, BeginResolve(w)
    PROVE  IInv' /\ Grows
<1>1. IdentityOK' /\ Grows /\ UNCHANGED identityVars
  BY IdentityUnchanged DEF IInv, BeginResolve
<1>2. PICK l \in Pending(w) :
         reading' = [reading EXCEPT ![w] = Read(l, batch[w][l])]
  BY DEF BeginResolve
<1>3. UNCHANGED <<kickoff, batch, target, busy, snapshots, moves, crashes>> /\ busy[w]
  BY DEF BeginResolve
<1>4. l \in DOMAIN batch[w] /\ l \in Listings
  BY BatchTyped DEF Pending, IInv, RunsOK
<1>5. reading'[w] = Read(l, batch[w][l])
  BY <1>2 DEF IInv, RunsOK, RunsTyped
<1> DEFINE matched == IF sourceMap[l] = None THEN Match(l, batch[w][l])
                      ELSE {sourceMap[l]}
<1>6. /\ reading'[w].listing = l
      /\ reading'[w].mapped = (sourceMap[l] # None)
      /\ reading'[w].matched = matched
      /\ reading'[w].rows = [e \in matched |-> events[e]]
      /\ reading'[w].queued \in BOOLEAN
  BY <1>5 DEF Read
<1>7. matched \subseteq Stored
  BY <1>4 DEF Match, IInv, IdentityOK, TablesTyped, MapIsStored, Stored
<1>8. \A e \in matched : events[e] \in Rows /\ SourcesMapped(events[e], e)
  BY <1>7 DEF IInv, IdentityOK, TablesTyped, Stored
<1>9. \A e \in matched : /\ reading'[w].rows[e] \in Rows
                         /\ SourcesMapped(reading[w].rows[e], e)'
  <2>1. \A e \in matched : reading'[w].rows[e] = events[e]
    BY <1>6
  <2>2. sourceMap' = sourceMap
    BY <1>1 DEF identityVars
  <2> QED
    BY <2>1, <2>2, <1>8 DEF SourcesMapped
<1>10. Stored' = Stored
  BY <1>1 DEF identityVars, Stored
<1>11. reading'[w].mapped => /\ sourceMap'[reading'[w].listing] # None
                             /\ reading'[w].matched = {sourceMap'[reading'[w].listing]}
  BY <1>1, <1>6 DEF identityVars
<1>12. ReadingFollows(w)'
  BY <1>3, <1>4, <1>6, <1>7, <1>9, <1>10, <1>11 DEF ReadingFollows
<1>13. RunsTyped'
  BY <1>2, <1>3 DEF IInv, RunsOK, RunsTyped
<1>14. \A v \in Workers \ {w} : UNCHANGED <<batch[v], target[v], reading[v], busy[v]>>
  BY <1>2, <1>3 DEF IInv, RunsOK, RunsTyped
<1>15. RemapFollows(w)' /\ SnapshotsFollowMap'
  BY <1>1, <1>3, RemapStays, SnapshotsStay DEF IInv, IdentityOK, RunsOK
<1> QED
  BY <1>1, <1>3, <1>12, <1>13, <1>14, <1>15, OthersKept DEF IInv, RunsOK

LEMMA CommitRefreshKeeps ==
    ASSUME IInv, NEW w \in Workers, CommitRefresh(w)
    PROVE  IInv' /\ Grows
<1> DEFINE l == reading[w].listing
<1>1. PICK e \in reading[w].matched :
         /\ RefreshMapped(e, reading[w].rows[e], batch[w][l])
         /\ Remap(w, l, e)
  BY DEF CommitRefresh
<1>2. ReadingFollows(w) /\ reading[w].mapped
  BY DEF CommitRefresh, IInv, RunsOK
<1>3. l \in Listings /\ batch[w][l] \in Times
  BY <1>2, BatchTyped DEF ReadingFollows, IInv, RunsOK
<1>4. /\ e \in EventIds /\ events[e] # None
      /\ reading[w].rows[e] \in Rows
      /\ sourceMap[l] = e
  BY <1>2 DEF ReadingFollows, Stored
<1>5. IdentityOK' /\ Grows /\ UNCHANGED sourceMap
  BY <1>1, <1>3, <1>4, RefreshKeeps DEF IInv
<1>6. RunsOK'
  BY <1>1, <1>3, <1>4, <1>5, RemapKeeps DEF IInv
<1> QED
  BY <1>5, <1>6 DEF IInv

LEMMA CommitLinkKeeps ==
    ASSUME IInv, NEW w \in Workers, CommitLink(w)
    PROVE  IInv' /\ Grows
<1> DEFINE l == reading[w].listing
<1>1. PICK e \in EventIds : /\ reading[w].matched = {e}
                            /\ Link(l, e, reading[w].rows[e])
                            /\ UNCHANGED <<history, reviews, aliases>>
                            /\ Remap(w, l, e)
  BY DEF CommitLink
<1>2. ReadingFollows(w)
  BY DEF CommitLink, IInv, RunsOK
<1>3. l \in Listings
  BY <1>2, BatchTyped DEF ReadingFollows, IInv, RunsOK
<1>4. /\ events[e] # None
      /\ reading[w].rows[e] \in Rows
      /\ SourcesMapped(reading[w].rows[e], e)
  BY <1>1, <1>2 DEF ReadingFollows, Stored
<1>5. IdentityOK' /\ Grows /\ sourceMap'[l] = e
  BY <1>1, <1>3, <1>4, RunLinkKeeps DEF IInv
<1>6. RunsOK'
  BY <1>1, <1>3, <1>5, RemapKeeps DEF IInv
<1> QED
  BY <1>5, <1>6 DEF IInv

LEMMA CommitCreateKeeps ==
    ASSUME IInv, NEW w \in Workers, CommitCreate(w)
    PROVE  IInv' /\ Grows
<1> DEFINE l == reading[w].listing
<1>1. PICK e \in EventIds : Create(l, e, batch[w][l]) /\ Remap(w, l, e)
  BY DEF CommitCreate
<1>2. ReadingFollows(w)
  BY DEF CommitCreate, IInv, RunsOK
<1>3. l \in Listings /\ batch[w][l] \in Times
  BY <1>2, BatchTyped DEF ReadingFollows, IInv, RunsOK
<1>4. IdentityOK' /\ Grows /\ sourceMap'[l] = e
  BY <1>1, <1>3, CreateKeeps DEF IInv
<1>5. RunsOK'
  BY <1>1, <1>3, <1>4, RemapKeeps DEF IInv
<1> QED
  BY <1>4, <1>5 DEF IInv

\* The ambiguous event leaves the batch.
LEMMA CommitAmbiguityKeeps ==
    ASSUME IInv, NEW w \in Workers, CommitAmbiguity(w)
    PROVE  IInv' /\ Grows
<1> DEFINE l == reading[w].listing
           left == [k \in DOMAIN batch[w] \ {l} |-> batch[w][k]]
<1>1. ReadingFollows(w)
  BY DEF CommitAmbiguity, IInv, RunsOK
<1>2. l \in Listings
  BY <1>1, BatchTyped DEF ReadingFollows, IInv, RunsOK
<1>3. /\ reading[w].matched \in SUBSET EventIds
      /\ reading[w].queued \in BOOLEAN
  BY <1>1 DEF ReadingFollows, Stored
<1>4. RecordAmbiguity(l, reading[w].matched, reading[w].queued)
  BY DEF CommitAmbiguity
<1>5. IdentityOK' /\ Grows
  BY <1>2, <1>3, <1>4, AmbiguityKeeps DEF IInv
<1>6. left \in Batches
  <2>1. DOMAIN batch[w] \ {l} \in SUBSET Listings
    BY BatchTyped DEF IInv, RunsOK
  <2>2. left \in [DOMAIN batch[w] \ {l} -> Times]
    BY BatchTyped DEF IInv, RunsOK
  <2> HIDE DEF left
  <2> QED
    BY <2>1, <2>2 DEF Batches
<1>7. batch' = [batch EXCEPT ![w] = left]
  BY DEF CommitAmbiguity
<1>8. /\ reading' = [reading EXCEPT ![w] = None]
      /\ UNCHANGED <<kickoff, target, busy, snapshots, moves, crashes>>
  BY DEF CommitAmbiguity
<1>9. RunsTyped'
  <2> HIDE DEF left
  <2> QED
    BY <1>6, <1>7, <1>8 DEF IInv, RunsOK, RunsTyped
<1>10. \A v \in Workers \ {w} : UNCHANGED <<batch[v], target[v], reading[v], busy[v]>>
  BY <1>7, <1>8 DEF IInv, RunsOK, RunsTyped
<1>11. reading'[w] = None
  BY <1>8 DEF IInv, RunsOK, RunsTyped
<1>12. RemapFollows(w)' /\ SnapshotsFollowMap'
  BY <1>5, <1>8, RemapStays, SnapshotsStay DEF IInv, IdentityOK, RunsOK
<1> QED
  BY <1>5, <1>9, <1>10, <1>11, <1>12, OthersKept DEF IInv, RunsOK

\* A run that ends without storing anything.
LEMMA EndKeeps ==
    ASSUME IInv, NEW w \in Workers, Forget(w),
           UNCHANGED <<identityVars, kickoff, snapshots, moves>>,
           crashes' \in 0..MaxCrashes
    PROVE  IInv' /\ Grows
<1>1. IdentityOK' /\ Grows
  BY IdentityUnchanged DEF IInv
<1>2. SnapshotsFollowMap'
  BY <1>1, SnapshotsStay DEF IInv, IdentityOK
<1>3. RunsOK'
  BY <1>1, <1>2, ForgetKeeps DEF IInv, RunsOK, RunsTyped
<1> QED
  BY <1>1, <1>3 DEF IInv

\* The prices that are stored go to the ids the run resolved.
LEMMA PersistKeeps ==
    ASSUME IInv, NEW w \in Workers, PersistBatch(w)
    PROVE  IInv' /\ Grows
<1>1. IdentityOK' /\ Grows
  BY UpsertKeeps DEF IInv
<1>2. /\ Forget(w)
      /\ UNCHANGED <<sourceMap, kickoff, moves, crashes>>
      /\ snapshots' = snapshots \cup {<<l, target[w][l]>> : l \in DOMAIN batch[w]}
  BY DEF PersistBatch
<1>3. \A l \in DOMAIN batch[w] : /\ l \in Listings
                                 /\ target[w][l] \in EventIds
                                 /\ sourceMap[l] = target[w][l]
  <2>1. DOMAIN batch[w] \subseteq Listings
    BY BatchTyped DEF IInv, RunsOK
  <2>2. \A l \in DOMAIN batch[w] : target[w][l] # None
    BY DEF PersistBatch, Resolved, Pending
  <2>3. \A l \in Listings : target[w][l] \in EventIds \cup {None}
    BY DEF IInv, RunsOK, RunsTyped
  <2> QED
    BY <2>1, <2>2, <2>3 DEF IInv, RunsOK, RemapFollows
<1>4. snapshots' \subseteq Listings \X EventIds
  BY <1>2, <1>3 DEF IInv, RunsOK, RunsTyped
<1>5. SnapshotsFollowMap'
  BY <1>2, <1>3 DEF IInv, RunsOK, SnapshotsFollowMap
<1>6. crashes' \in 0..MaxCrashes
  BY <1>2 DEF IInv, RunsOK, RunsTyped
<1>7. RunsOK'
  BY <1>1, <1>2, <1>4, <1>5, <1>6, ForgetKeeps DEF IInv
<1> QED
  BY <1>1, <1>7 DEF IInv

LEMMA OutsideKeeps ==
    ASSUME IInv, IdentityOK', Grows, UNCHANGED <<runVars, snapshots, crashes>>,
           kickoff' \in [Listings -> Times], moves' \in 0..MaxMoves
    PROVE  IInv' /\ Grows
BY RunsUntouched DEF IInv, RunsOK, RunsTyped

LEMMA MoveKeeps ==
    ASSUME IInv, NEW l \in Listings, Move(l)
    PROVE  IInv' /\ Grows
<1>1. kickoff' \in [Listings -> Times]
  BY DEF Move, IInv, RunsOK, RunsTyped
<1>2. moves' \in 0..MaxMoves
  BY AcquisitionAssumption DEF Move, IInv, RunsOK, RunsTyped
<1>3. IdentityOK' /\ Grows
  BY IdentityUnchanged DEF Move, IInv
<1> QED
  BY <1>1, <1>2, <1>3, OutsideKeeps DEF Move

LEMMA OperatorKeeps ==
    ASSUME IInv,
           \/ \E l \in Listings, e \in EventIds : Decide(l, e)
           \/ \E a \in AliasFile : Import(a)
    PROVE  IInv' /\ Grows
<1>1. IdentityOK' /\ Grows
  BY ResolveKeeps, ImportKeeps DEF IInv, Decide, Import
<1>2. UNCHANGED OperatorVars
  BY DEF Decide, Import
<1> QED
  BY <1>1, <1>2, OutsideKeeps DEF OperatorVars, runVars, IInv, RunsOK, RunsTyped

\* Every step keeps the invariant and lets the map only grow.
LEMMA NextKeeps == IInv /\ [Next]_vars => IInv' /\ Grows
<1> SUFFICES ASSUME IInv, [Next]_vars PROVE IInv' /\ Grows
  OBVIOUS
<1>1. CASE UNCHANGED vars
  <2>1. IdentityOK' /\ Grows
    BY <1>1, IdentityUnchanged DEF IInv, vars, identityVars
  <2> QED
    BY <1>1, <2>1, OutsideKeeps DEF vars, runVars, IInv, RunsOK, RunsTyped
<1>2. ASSUME NEW w \in Workers, WorkerStep(w)
      PROVE  IInv' /\ Grows
  <2>1. CASE Collect(w)
    BY <2>1, CollectKeeps
  <2>2. CASE BeginResolve(w)
    BY <2>2, BeginResolveKeeps
  <2>3. CASE CommitRefresh(w)
    BY <2>3, CommitRefreshKeeps
  <2>4. CASE CommitLink(w)
    BY <2>4, CommitLinkKeeps
  <2>5. CASE CommitCreate(w)
    BY <2>5, CommitCreateKeeps
  <2>6. CASE CommitAmbiguity(w)
    BY <2>6, CommitAmbiguityKeeps
  <2>7. CASE CommitFails(w)
    BY <2>7, EndKeeps DEF CommitFails, IInv, RunsOK, RunsTyped
  <2>8. CASE PersistBatch(w)
    BY <2>8, PersistKeeps
  <2>9. CASE Discover(w)
    BY <2>9, EndKeeps DEF Discover, IInv, RunsOK, RunsTyped
  <2> QED
    BY <1>2, <2>1, <2>2, <2>3, <2>4, <2>5, <2>6, <2>7, <2>8, <2>9 DEF WorkerStep
<1>3. ASSUME NEW w \in Workers, Crash(w)
      PROVE  IInv' /\ Grows
  <2>1. crashes' \in 0..MaxCrashes
    BY <1>3, AcquisitionAssumption DEF Crash, IInv, RunsOK, RunsTyped
  <2> QED
    BY <1>3, <2>1, EndKeeps DEF Crash
<1>4. CASE Next
  BY <1>4, <1>2, <1>3, MoveKeeps, OperatorKeeps DEF Next
<1> QED
  BY <1>1, <1>4

LEMMA InitHolds == Init => IInv
<1> SUFFICES ASSUME Init PROVE IInv
  OBVIOUS
<1>1. TablesTyped
  BY DEF Init, IdentityInit, TablesTyped, NoReview, Reviews
<1>2. IdentityOK
  BY <1>1, IdentityAssumption
  DEF Init, IdentityInit, IdentityOK, MapIsStored, EveryEventIsListed, Stored,
      DecisionMapped, NoReview
<1>3. RunsTyped
  BY EmptyBatch, AcquisitionAssumption DEF Init, RunsTyped, Unresolved
<1>4. \A w \in Workers : RemapFollows(w)
  BY DEF Init, RemapFollows, Unresolved
<1>5. RunsOK
  BY <1>3, <1>4 DEF Init, RunsOK, SnapshotsFollowMap
<1> QED
  BY <1>2, <1>5 DEF IInv

-----------------------------------------------------------------------------
(* The theorems.                                                               *)

\* The inductive invariant holds of every behaviour.
THEOREM IdentityInvariance == Spec => []IInv
<1>1. IInv /\ [Next]_vars => IInv'
  BY NextKeeps
<1> QED
  BY InitHolds, <1>1, PTL DEF Spec

\* Every table and every run keeps values of its kind.
THEOREM IdentityTypes == Spec => []TypeOK
<1>1. IInv => TypeOK
  BY DEF IInv, IdentityOK, TablesTyped, RunsOK, RunsTyped, TypeOK
<1> QED
  BY IdentityInvariance, <1>1, PTL

\* _link and _create never repoint a listing, for any number of runs.
THEOREM IdentityIsStable == Spec => MappingNeverMoves
<1>1. IInv /\ [Next]_vars =>
        [\A l \in Listings : sourceMap[l] # None => sourceMap'[l] = sourceMap[l]]_vars
  BY NextKeeps DEF Grows
<1> QED
  BY IdentityInvariance, <1>1, PTL DEF Spec, MappingNeverMoves

\* No stored price names an event its listing is not mapped to.
THEOREM NoPriceOnAGuess == Spec => []SnapshotsFollowMap
<1>1. IInv => SnapshotsFollowMap
  BY DEF IInv, RunsOK
<1> QED
  BY IdentityInvariance, <1>1, PTL

\* The JSON copy never states a link the map does not hold.
THEOREM CopyIsSound == Spec => []SourceIdsAreMapped
<1>1. IInv => SourceIdsAreMapped
  BY DEF IInv, IdentityOK, SourcesMapped, SourceIdsAreMapped, Stored
<1> QED
  BY IdentityInvariance, <1>1, PTL

\* No event is left that no listing reaches.
THEOREM NoOrphanEvent == Spec => []EveryEventIsListed
<1>1. IInv => EveryEventIsListed
  BY DEF IInv, IdentityOK
<1> QED
  BY IdentityInvariance, <1>1, PTL

\* What the operator decided is what the map holds.
THEOREM TheOperatorIsObeyed == Spec => []DecisionStands
<1>1. IInv => DecisionStands
  BY DEF IInv, IdentityOK, DecisionMapped, DecisionStands
<1> QED
  BY IdentityInvariance, <1>1, PTL

-----------------------------------------------------------------------------
(* One collector per provider.                                                 *)

\* The hypothesis: no two workers collect from one provider.
OneCollector ==
    \A v, w \in Workers : v # w => SourcesOf[v] \cap SourcesOf[w] = {}

CollectsItsOwn(w) == \A l \in DOMAIN batch[w] : ProviderOf(l) \in SourcesOf[w]

\* Only the operator can map another listing of the provider to an event that
\* a transaction has matched and not yet linked.
MatchIsFresh(w) ==
    reading[w] # None /\ ~reading[w].mapped =>
        \A e \in reading[w].matched, k \in Listings :
            /\ k # reading[w].listing
            /\ ProviderOf(k) = ProviderOf(reading[w].listing)
            /\ sourceMap[k] = e
            => reviews[k].state = "resolved"

FreshInv ==
    /\ \A w \in Workers : CollectsItsOwn(w) /\ MatchIsFresh(w)
    /\ ProviderIsAuthoritative

\* A step that maps no listing; decisions stay.
MapsNothing ==
    /\ sourceMap' = sourceMap
    /\ \A k \in Listings : reviews[k].state = "resolved" => reviews'[k].state = "resolved"

\* A step that maps no listing, and reads nothing.
LEMMA FreshStays ==
    ASSUME FreshInv, MapsNothing,
           \A w \in Workers : /\ DOMAIN batch'[w] \subseteq DOMAIN batch[w]
                              /\ reading'[w] = None \/ UNCHANGED reading[w]
    PROVE  FreshInv'
<1>1. \A w \in Workers : CollectsItsOwn(w)' /\ MatchIsFresh(w)'
  BY DEF FreshInv, CollectsItsOwn, MatchIsFresh, MapsNothing
<1>2. ProviderIsAuthoritative'
  BY DEF FreshInv, ProviderIsAuthoritative, MapsNothing
<1> QED
  BY <1>1, <1>2 DEF FreshInv

\* A listing that a decision maps.
LEMMA DecideFresh ==
    ASSUME IInv, FreshInv, NEW l \in Listings, NEW e \in EventIds, Decide(l, e)
    PROVE  FreshInv'
<1>1. /\ sourceMap[l] = None /\ sourceMap' = [sourceMap EXCEPT ![l] = e]
      /\ reviews' = [reviews EXCEPT ![l].state = "resolved", ![l].chosen = e]
      /\ UNCHANGED <<batch, reading>> /\ TablesTyped
  BY DEF Decide, ResolveReview, Link, OperatorVars, runVars, IInv, IdentityOK
<1>2. /\ reviews'[l].state = "resolved"
      /\ \A k \in Listings \ {l} : reviews'[k] = reviews[k] /\ sourceMap'[k] = sourceMap[k]
  BY <1>1 DEF TablesTyped, Reviews
<1>3. \A k \in Listings : \/ reviews'[k].state = "resolved"
                          \/ reviews'[k] = reviews[k] /\ sourceMap'[k] = sourceMap[k]
  BY <1>2
<1>4. batch' = batch /\ reading' = reading
  BY <1>1
<1>5. \A w \in Workers : CollectsItsOwn(w)'
  BY <1>4 DEF FreshInv, CollectsItsOwn
<1>6. ASSUME NEW w \in Workers PROVE MatchIsFresh(w)'
  <2>1. MatchIsFresh(w)
    BY DEF FreshInv
  <2> QED
    BY ONLY <1>3, <1>4, <2>1 DEF MatchIsFresh
<1>7. ProviderIsAuthoritative'
  <2>1. ProviderIsAuthoritative
    BY DEF FreshInv
  <2> QED
    BY ONLY <1>3, <2>1 DEF ProviderIsAuthoritative
<1> QED
  BY <1>5, <1>6, <1>7 DEF FreshInv

\* A listing that a run maps to an event no other one of its provider has.
LEMMA LinkFresh ==
    ASSUME OneCollector, IInv, FreshInv, NEW w \in Workers, reading[w] # None,
           NEW e \in EventIds, sourceMap'[reading[w].listing] = e,
           UNCHANGED <<reviews, batch>>, reading' = [reading EXCEPT ![w] = None],
           \A k \in Listings \ {reading[w].listing} : sourceMap'[k] = sourceMap[k],
           \A k \in Listings \ {reading[w].listing} :
               ProviderOf(k) = ProviderOf(reading[w].listing) /\ sourceMap[k] = e
                   => reviews[k].state = "resolved"
    PROVE  FreshInv'
<1> DEFINE l == reading[w].listing
<1>1. l \in DOMAIN batch[w] /\ l \in Listings /\ ProviderOf(l) \in SourcesOf[w]
  BY BatchTyped DEF IInv, RunsOK, ReadingFollows, FreshInv, CollectsItsOwn
<1>2. reading'[w] = None /\ \A v \in Workers \ {w} : reading'[v] = reading[v]
  BY DEF IInv, RunsOK, RunsTyped
<1>3. ASSUME NEW v \in Workers PROVE MatchIsFresh(v)'
  <2>1. CASE v = w
    BY <1>2, <2>1 DEF MatchIsFresh
  <2>2. CASE v # w
    <3> SUFFICES ASSUME reading[v] # None, ~reading[v].mapped,
                        NEW d \in reading[v].matched, NEW k \in Listings,
                        k # reading[v].listing,
                        ProviderOf(k) = ProviderOf(reading[v].listing),
                        sourceMap'[k] = d
                 PROVE  reviews[k].state = "resolved"
      BY <1>2, <2>2 DEF MatchIsFresh
    <3>1. ProviderOf(reading[v].listing) \in SourcesOf[v]
      BY DEF IInv, RunsOK, ReadingFollows, FreshInv, CollectsItsOwn
    <3>2. k # l
      BY <1>1, <2>2, <3>1 DEF OneCollector
    <3> QED
      BY <3>2 DEF FreshInv, MatchIsFresh
  <2> QED
    BY <2>1, <2>2
<1>4. \A v \in Workers : CollectsItsOwn(v)'
  BY DEF FreshInv, CollectsItsOwn
<1>5. ProviderIsAuthoritative'
  BY <1>1 DEF FreshInv, ProviderIsAuthoritative
<1> QED
  BY <1>3, <1>4, <1>5 DEF FreshInv

LEMMA CommitLinkFresh ==
    ASSUME OneCollector, IInv, FreshInv, NEW w \in Workers, CommitLink(w)
    PROVE  FreshInv'
<1>1. PICK e \in EventIds : /\ reading[w].matched = {e}
                            /\ Link(reading[w].listing, e, reading[w].rows[e])
                            /\ UNCHANGED <<history, reviews, aliases>>
                            /\ Remap(w, reading[w].listing, e)
  BY DEF CommitLink
<1>2. reading[w] # None /\ ~reading[w].mapped
  BY DEF CommitLink
<1>3. reading[w].listing \in Listings
  BY <1>2, BatchTyped DEF IInv, RunsOK, ReadingFollows
<1>4. /\ sourceMap'[reading[w].listing] = e
      /\ \A k \in Listings \ {reading[w].listing} : sourceMap'[k] = sourceMap[k]
  BY <1>1, <1>3 DEF Link, IInv, IdentityOK, TablesTyped
<1>5. \A k \in Listings \ {reading[w].listing} :
          ProviderOf(k) = ProviderOf(reading[w].listing) /\ sourceMap[k] = e
              => reviews[k].state = "resolved"
  BY <1>1, <1>2 DEF FreshInv, MatchIsFresh
<1> QED
  BY <1>1, <1>2, <1>4, <1>5, LinkFresh DEF Remap

LEMMA CommitCreateFresh ==
    ASSUME OneCollector, IInv, FreshInv, NEW w \in Workers, CommitCreate(w)
    PROVE  FreshInv'
<1>1. PICK e \in EventIds : /\ Create(reading[w].listing, e, batch[w][reading[w].listing])
                            /\ Remap(w, reading[w].listing, e)
  BY DEF CommitCreate
<1>2. reading[w] # None
  BY DEF CommitCreate
<1>3. reading[w].listing \in Listings
  BY <1>2, BatchTyped DEF IInv, RunsOK, ReadingFollows
<1>4. /\ sourceMap'[reading[w].listing] = e /\ UNCHANGED reviews
      /\ \A k \in Listings \ {reading[w].listing} : sourceMap'[k] = sourceMap[k]
  BY <1>1, <1>3 DEF Create, IInv, IdentityOK, TablesTyped
<1>5. \A k \in Listings : sourceMap[k] # e
  BY <1>1, IdentityAssumption DEF Create, IInv, IdentityOK, MapIsStored
<1> QED
  BY <1>1, <1>2, <1>4, <1>5, LinkFresh DEF Remap

\* What resolve reads is no event of another listing of the provider.
LEMMA BeginResolveFresh ==
    ASSUME IInv, FreshInv, NEW w \in Workers, BeginResolve(w)
    PROVE  FreshInv'
<1>1. PICK l \in Pending(w) : reading' = [reading EXCEPT ![w] = Read(l, batch[w][l])]
  BY DEF BeginResolve
<1>2. UNCHANGED <<sourceMap, reviews, batch>>
  BY DEF BeginResolve, identityVars
<1>3. /\ reading'[w] = Read(l, batch[w][l])
      /\ \A v \in Workers \ {w} : reading'[v] = reading[v]
  BY <1>1 DEF IInv, RunsOK, RunsTyped
<1>4. /\ reading'[w].listing = l
      /\ reading'[w].mapped = (sourceMap[l] # None)
      /\ sourceMap[l] = None => reading'[w].matched = Match(l, batch[w][l])
  BY <1>3 DEF Read
<1>5. MatchIsFresh(w)'
  BY <1>2, <1>4 DEF MatchIsFresh, Match, AlreadyMapped
<1>6. \A v \in Workers \ {w} : MatchIsFresh(v)'
  BY <1>2, <1>3 DEF FreshInv, MatchIsFresh
<1>7. (\A v \in Workers : CollectsItsOwn(v)') /\ ProviderIsAuthoritative'
  BY <1>2 DEF FreshInv, CollectsItsOwn, ProviderIsAuthoritative
<1> QED
  BY <1>5, <1>6, <1>7 DEF FreshInv

LEMMA CollectFresh ==
    ASSUME IInv, FreshInv, NEW w \in Workers, Collect(w)
    PROVE  FreshInv'
<1>1. PICK p \in SourcesOf[w] :
         batch' = [batch EXCEPT ![w] =
                     [l \in {k \in Listings : ProviderOf(k) = p} |-> kickoff[l]]]
  BY DEF Collect
<1>2. UNCHANGED <<sourceMap, reviews, reading>>
  BY DEF Collect, identityVars
<1>3. /\ DOMAIN batch'[w] = {k \in Listings : ProviderOf(k) = p}
      /\ \A v \in Workers \ {w} : batch'[v] = batch[v]
  BY <1>1 DEF IInv, RunsOK, RunsTyped
<1>4. \A v \in Workers : CollectsItsOwn(v)'
  BY <1>3 DEF FreshInv, CollectsItsOwn
<1> QED
  BY <1>2, <1>4 DEF FreshInv, MatchIsFresh, ProviderIsAuthoritative

\* A run that ends, and an ambiguity that is queued.
LEMMA EndFresh ==
    ASSUME IInv, FreshInv, NEW w \in Workers, Forget(w), UNCHANGED <<sourceMap, reviews>>
    PROVE  FreshInv'
<1>1. \A v \in Workers : /\ DOMAIN batch'[v] \subseteq DOMAIN batch[v]
                         /\ reading'[v] = None \/ UNCHANGED reading[v]
  BY EmptyBatch DEF Forget, IInv, RunsOK, RunsTyped
<1> QED
  BY <1>1, FreshStays DEF MapsNothing

LEMMA CommitAmbiguityFresh ==
    ASSUME IInv, FreshInv, NEW w \in Workers, CommitAmbiguity(w)
    PROVE  FreshInv'
<1> DEFINE l == reading[w].listing
<1>1. /\ reading[w] # None /\ l \in Listings /\ reading[w].queued \in BOOLEAN
      /\ RecordAmbiguity(l, reading[w].matched, reading[w].queued)
      /\ batch' = [batch EXCEPT ![w] = [k \in DOMAIN batch[w] \ {l} |-> batch[w][k]]]
      /\ reading' = [reading EXCEPT ![w] = None]
  BY BatchTyped DEF CommitAmbiguity, IInv, RunsOK, ReadingFollows
<1> HIDE DEF l
<1>2. \A k \in Listings : reviews[k].state = "resolved" => reviews'[k].state = "resolved"
  <2>1. reviews \in [Listings -> Reviews]
    BY DEF IInv, IdentityOK, TablesTyped
  <2>2. reviews'[l] = [reviews[l] EXCEPT
                         !.state = IF reading[w].queued THEN @ ELSE "open",
                         !.candidates = reading[w].matched]
    BY <1>1, <2>1 DEF RecordAmbiguity
  <2>3. reviews[l].state = "resolved" => reviews'[l].state = "resolved"
    <3>1. CASE reading[w].queued
      BY <2>1, <2>2, <3>1, <1>1 DEF Reviews
    <3>2. CASE ~reading[w].queued
      BY <1>1, <3>2 DEF RecordAmbiguity
    <3> QED
      BY <3>1, <3>2
  <2>4. \A k \in Listings \ {l} : reviews'[k] = reviews[k]
    BY <1>1, <2>1 DEF RecordAmbiguity
  <2> QED
    BY <2>3, <2>4
<1>3. sourceMap' = sourceMap
  BY <1>1 DEF RecordAmbiguity
<1>4. \A v \in Workers : /\ DOMAIN batch'[v] \subseteq DOMAIN batch[v]
                         /\ reading'[v] = None \/ UNCHANGED reading[v]
  BY <1>1 DEF IInv, RunsOK, RunsTyped
<1> QED
  BY <1>2, <1>3, <1>4, FreshStays DEF MapsNothing

LEMMA NextFresh ==
    ASSUME OneCollector, IInv, FreshInv, [Next]_vars
    PROVE  FreshInv'
<1>1. ASSUME UNCHANGED <<sourceMap, reviews, batch, reading>>
      PROVE  FreshInv'
  BY <1>1, FreshStays DEF MapsNothing
<1>2. CASE UNCHANGED vars
  BY <1>1, <1>2 DEF vars
<1>3. ASSUME NEW w \in Workers, WorkerStep(w)
      PROVE  FreshInv'
  <2>1. CASE CommitRefresh(w)
    <3>1. /\ UNCHANGED <<sourceMap, reviews, batch>>
          /\ reading' = [reading EXCEPT ![w] = None]
      BY <2>1 DEF CommitRefresh, RefreshMapped, Remap
    <3>2. \A v \in Workers : /\ DOMAIN batch'[v] \subseteq DOMAIN batch[v]
                             /\ reading'[v] = None \/ UNCHANGED reading[v]
      BY <3>1 DEF IInv, RunsOK, RunsTyped
    <3> QED
      BY <3>1, <3>2, FreshStays DEF MapsNothing
  <2>2. CASE CommitFails(w) \/ PersistBatch(w) \/ Discover(w)
    BY <2>2, EndFresh DEF CommitFails, PersistBatch, Discover, identityVars
  <2> QED
    BY <1>3, <2>1, <2>2, CollectFresh, BeginResolveFresh, CommitLinkFresh,
       CommitCreateFresh, CommitAmbiguityFresh DEF WorkerStep
<1>4. ASSUME NEW w \in Workers, Crash(w)
      PROVE  FreshInv'
  BY <1>4, EndFresh DEF Crash, identityVars
<1>5. ASSUME NEW l \in Listings, Move(l)
      PROVE  FreshInv'
  BY <1>1, <1>5 DEF Move, identityVars, runVars
<1>6. ASSUME NEW a \in AliasFile, Import(a)
      PROVE  FreshInv'
  BY <1>1, <1>6 DEF Import, ImportAlias, OperatorVars, runVars
<1> QED
  BY <1>2, <1>3, <1>4, <1>5, <1>6, DecideFresh DEF Next

LEMMA InitFresh ==
    ASSUME Init
    PROVE  FreshInv
BY DEF Init, IdentityInit, FreshInv, CollectsItsOwn, MatchIsFresh, NoBatch,
       ProviderIsAuthoritative

\* As long as no two workers collect from one provider, two listings of a
\* provider are never brought together by matching, creating or refreshing
\* (_match, _link, _create): only a decision of the operator can do that.
THEOREM ProvidersAreAuthoritative ==
    ASSUME OneCollector
    PROVE  Spec => []ProviderIsAuthoritative
<1>1. FreshInv => ProviderIsAuthoritative
  BY DEF FreshInv
<1>2. Init => FreshInv
  BY InitFresh
<1>3. IInv /\ FreshInv /\ [Next]_vars => FreshInv'
  BY NextFresh
<1> QED
  BY IdentityInvariance, <1>1, <1>2, <1>3, PTL DEF Spec
======================================================================
