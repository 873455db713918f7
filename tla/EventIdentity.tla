---------------------------- MODULE EventIdentity ----------------------------
(* The stable identity of events (ingestion/identity.py) over the tables it    *)
(* shares with the repositories: events, event_source_map,                     *)
(* event_mapping_reviews, event_schedule_history and participant_aliases.      *)
(*                                                                             *)
(* A listing is one event of one provider's catalogue, known by its pair       *)
(* (provider, provider_event_id).  What a provider says of it and never        *)
(* changes is the constant Listed; its kick-off moves.  Stage and season are   *)
(* compared exactly as the competition is, which stands for the three.  Event  *)
(* status follows the kick-off everywhere and is left out with it.             *)
EXTENDS Integers, FiniteSets

CONSTANTS
    Listings,       \* (provider, provider_event_id) pairs
    Providers,
    Names,          \* spellings of a participant
    Participants,   \* what a spelling normalises to
    Normal,         \* normalize_participant
    Listed,         \* what the provider says of each listing
    EventIds,       \* opaque internal ids, drawn by new_internal_id
    Times,          \* kick-offs
    Tolerance,      \* CROSS_PROVIDER_TOLERANCE
    Silent,         \* a competition that is not stated
    None

\* The columns of an event row that matching reads, and the copy of the map.
Rows == [start : Times, competition : {Listed[l].competition : l \in Listings},
         key : Participants \X Participants,
         sources : [Providers -> Listings \cup {None}]]

ASSUME IdentityAssumption ==
    /\ None \notin EventIds /\ None \notin Listings /\ None \notin Rows
    /\ Times \subseteq Int /\ Tolerance \in Nat
    /\ Normal \in [Names -> Participants]
    /\ \A l \in Listings : /\ Listed[l].provider \in Providers
                           /\ {Listed[l].home, Listed[l].away} \subseteq Names

VARIABLES
    events,      \* id -> the event row, or None before it is created
    history,     \* id -> the kick-off of its latest schedule-history row
    sourceMap,   \* listing -> internal id, unique on (provider, event id)
    reviews,     \* listing -> its row of the review queue
    aliases      \* rows (source, alias, canonical)

identityVars == <<events, history, sourceMap, reviews, aliases>>

-----------------------------------------------------------------------------
ProviderOf(l) == Listed[l].provider

PairKey(l) == <<Normal[Listed[l].home], Normal[Listed[l].away]>>

\* Aliases of every source count; the provider's own only come first.
AliasKeys(name) ==
    {Normal[name]} \cup {a.canonical : a \in {b \in aliases : b.alias = name}}

CandidatePairKeys(l) == AliasKeys(Listed[l].home) \X AliasKeys(Listed[l].away)

\* A value present on one side only is silence, not disagreement.
AttributesConflict(stored, incoming) ==
    stored # Silent /\ incoming # Silent /\ stored # incoming

Stored == {e \in EventIds : events[e] # None}

AlreadyMapped(p) == {sourceMap[l] : l \in {k \in Listings : ProviderOf(k) = p}}

Near(s, t) == s - t <= Tolerance /\ t - s <= Tolerance

\* Mutated Match: the provider's own events are candidates too.
MatchItsOwn(l, start) ==
    {e \in Stored :
        /\ events[e].key \in CandidatePairKeys(l)
        /\ Near(events[e].start, start)
        /\ ~AttributesConflict(events[e].competition, Listed[l].competition)}

\* _match: a provider is authoritative about its own catalogue, so an event it
\* already listed under another id is never a candidate.
Match(l, start) ==
    {e \in Stored \ AlreadyMapped(ProviderOf(l)) :
        /\ events[e].key \in CandidatePairKeys(l)
        /\ Near(events[e].start, start)
        /\ ~AttributesConflict(events[e].competition, Listed[l].competition)}

OnlySource(l) == [p \in Providers |-> IF p = ProviderOf(l) THEN l ELSE None]

\* The row _create inserts and upsert writes: nothing of an older row is kept.
EventRow(l, start) ==
    [start |-> start, competition |-> Listed[l].competition,
     key |-> PairKey(l), sources |-> OnlySource(l)]

NoReview == [state |-> "none", candidates |-> {}, chosen |-> None]

-----------------------------------------------------------------------------
(* The writes of one transaction.  "row" is the event row as the transaction   *)
(* read it, before another one may have committed.                             *)

\* Mutated Link: a mapping that exists is overwritten.
LinkAgain(l, e, row) ==
    /\ sourceMap' = [sourceMap EXCEPT ![l] = e]
    /\ events' = [events EXCEPT
                    ![e].sources = [row.sources EXCEPT ![ProviderOf(l)] = l]]

\* _link writes the map and the JSON copy of it, the copy from the row it read.
Link(l, e, row) ==
    /\ sourceMap[l] = None                      \* the unique constraint
    /\ sourceMap' = [sourceMap EXCEPT ![l] = e]
    /\ events' = [events EXCEPT
                    ![e].sources = [row.sources EXCEPT ![ProviderOf(l)] = l]]

\* _refresh_mapped: a moved kick-off is recorded on the same event.
RefreshMapped(e, row, start) ==
    /\ IF row.start = start
       THEN UNCHANGED <<events, history>>
       ELSE /\ events' = [events EXCEPT ![e].start = start]
            /\ history' = [history EXCEPT ![e] = start]
    /\ UNCHANGED <<sourceMap, reviews, aliases>>

\* Mutated Create: the event is committed before its mapping is tried.
CreateFirst(l, e, start) ==
    /\ events[e] = None
    /\ events' = [events EXCEPT ![e] = EventRow(l, start)]
    /\ sourceMap' = [sourceMap EXCEPT ![l] = IF @ = None THEN e ELSE @]
    /\ history' = [history EXCEPT ![e] = start]
    /\ UNCHANGED <<reviews, aliases>>

\* _create: the event, its mapping and its first history row in one transaction.
Create(l, e, start) ==
    /\ sourceMap[l] = None                      \* the unique constraint
    /\ events[e] = None
    /\ events' = [events EXCEPT ![e] = EventRow(l, start)]
    /\ sourceMap' = [sourceMap EXCEPT ![l] = e]
    /\ history' = [history EXCEPT ![e] = start]
    /\ UNCHANGED <<reviews, aliases>>

\* Mutated RecordAmbiguity: a candidate is given the listing to begin with.
RecordGuess(l, candidates, queued) ==
    /\ queued \/ reviews[l].state = "none"
    /\ reviews' = [reviews EXCEPT
                     ![l].state = IF queued THEN @ ELSE "open",
                     ![l].candidates = candidates]
    /\ \E e \in candidates :
          events' = [events EXCEPT ![e].sources[ProviderOf(l)] = l]
    /\ UNCHANGED <<history, sourceMap, aliases>>

\* Mutated RecordAmbiguity: only a case that is queued already is written.
RecordQueued(l, candidates, queued) ==
    /\ reviews' = [reviews EXCEPT
                     ![l].candidates = IF queued THEN candidates ELSE @]
    /\ UNCHANGED <<events, history, sourceMap, aliases>>

\* Queue the case, or refresh the queued row, and write nothing else.  A row
\* this transaction did not see makes its INSERT fail.
RecordAmbiguity(l, candidates, queued) ==
    /\ queued \/ reviews[l].state = "none"      \* the unique constraint
    /\ reviews' = [reviews EXCEPT
                     ![l].state = IF queued THEN @ ELSE "open",
                     ![l].candidates = candidates]
    /\ UNCHANGED <<events, history, sourceMap, aliases>>

-----------------------------------------------------------------------------
(* The operator.                                                               *)

\* Mutated ResolveReview: the mapping that exists is not looked for.
ResolveUnchecked(l, e) ==
    /\ reviews[l].state = "open"
    /\ e \in reviews[l].candidates
    /\ sourceMap' = [sourceMap EXCEPT ![l] = IF @ = None THEN e ELSE @]
    /\ reviews' = [reviews EXCEPT ![l].state = "resolved", ![l].chosen = e]
    /\ UNCHANGED <<events, history, aliases>>

\* The choice is a candidate that matched, and the listing is still unmapped.
ResolveReview(l, e) ==
    /\ reviews[l].state = "open"
    /\ e \in reviews[l].candidates
    /\ events[e] # None
    /\ Link(l, e, events[e])
    /\ reviews' = [reviews EXCEPT ![l].state = "resolved", ![l].chosen = e]
    /\ UNCHANGED <<history, aliases>>

\* A line that contradicts a stored alias is quarantined, one that repeats it
\* counts as unchanged: only a new (source, alias) writes.
ImportAlias(source, name, participant) ==
    /\ \A a \in aliases : a.source # source \/ a.alias # name
    /\ aliases' = aliases \cup
          {[source |-> source, alias |-> name, canonical |-> participant]}
    /\ UNCHANGED <<events, history, sourceMap, reviews>>

-----------------------------------------------------------------------------
IdentityInit ==
    /\ events = [e \in EventIds |-> None]
    /\ history = [e \in EventIds |-> None]
    /\ sourceMap = [l \in Listings |-> None]
    /\ reviews = [l \in Listings |-> NoReview]
    /\ aliases = {}
=============================================================================
