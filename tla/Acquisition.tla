----------------------------- MODULE Acquisition -----------------------------
(* Acquisition runs (engine/acquisition.py) of several processes over the      *)
(* identity tables: collect a batch from one provider, resolve its events one  *)
(* transaction at a time, then persist the batch in one transaction.  A        *)
(* transaction reads first and writes at commit, so others may commit in       *)
(* between (READ COMMITTED, and SQLite, whose SELECT takes no transaction).    *)
EXTENDS EventIdentity

CONSTANTS
    Workers,
    SourcesOf,      \* worker -> the providers its runs collect from
    FirstKickoff,   \* listing -> the kick-off its provider first announces
    AliasFile,      \* alias lines an operator may import
    MaxMoves,       \* bound: kick-offs moved
    MaxCrashes      \* bound: processes lost

ASSUME AcquisitionAssumption ==
    /\ SourcesOf \in [Workers -> SUBSET Providers]
    /\ FirstKickoff \in [Listings -> Times]
    /\ MaxMoves \in Nat /\ MaxCrashes \in Nat
    /\ \A a \in AliasFile : a.alias \in Names /\ a.canonical \in Participants

VARIABLES
    kickoff,     \* listing -> the kick-off its provider announces now
    batch,       \* worker -> the events left in its batch: listing -> kick-off
    target,      \* worker -> remap: listing -> internal id, once resolved
    reading,     \* worker -> what its open transaction read, or None
    busy,        \* worker -> a run is under way
    snapshots,   \* stored prices, as pairs <<listing, internal id>>
    moves, crashes

runVars == <<batch, target, reading, busy>>
vars == <<events, history, sourceMap, reviews, aliases, kickoff, batch, target,
          reading, busy, snapshots, moves, crashes>>

NoBatch == [l \in {} |-> None]
Unresolved == [l \in Listings |-> None]

Init ==
    /\ IdentityInit
    /\ kickoff = FirstKickoff
    /\ batch = [w \in Workers |-> NoBatch]
    /\ target = [w \in Workers |-> Unresolved]
    /\ reading = [w \in Workers |-> None]
    /\ busy = [w \in Workers |-> FALSE]
    /\ snapshots = {}
    /\ moves = 0
    /\ crashes = 0

\* The provider announces another kick-off.
Move(l) ==
    /\ moves < MaxMoves
    /\ \E t \in Times \ {kickoff[l]} : kickoff' = [kickoff EXCEPT ![l] = t]
    /\ moves' = moves + 1
    /\ UNCHANGED <<identityVars, runVars, snapshots, crashes>>

-----------------------------------------------------------------------------
Collect(w) ==
    /\ ~busy[w]
    /\ \E p \in SourcesOf[w] :
          batch' = [batch EXCEPT ![w] =
                      [l \in {k \in Listings : ProviderOf(k) = p} |-> kickoff[l]]]
    /\ busy' = [busy EXCEPT ![w] = TRUE]
    /\ target' = [target EXCEPT ![w] = Unresolved]
    /\ UNCHANGED <<identityVars, kickoff, reading, snapshots, moves, crashes>>

Pending(w) == {l \in DOMAIN batch[w] : target[w][l] = None}

\* The SELECTs of resolve, and of the helpers it calls.
Read(l, start) ==
    LET mapped == sourceMap[l]
        matched == IF mapped = None THEN Match(l, start) ELSE {mapped}
    IN  [listing |-> l, mapped |-> mapped # None, matched |-> matched,
         rows |-> [e \in matched |-> events[e]],
         queued |-> reviews[l].state # "none"]

BeginResolve(w) ==
    /\ busy[w] /\ reading[w] = None
    /\ \E l \in Pending(w) :
          reading' = [reading EXCEPT ![w] = Read(l, batch[w][l])]
    /\ UNCHANGED <<identityVars, kickoff, batch, target, busy, snapshots, moves,
                   crashes>>

\* A usable resolution puts the event of the batch on its internal id.
Remap(w, l, e) ==
    /\ target' = [target EXCEPT ![w][l] = e]
    /\ reading' = [reading EXCEPT ![w] = None]
    /\ UNCHANGED <<kickoff, batch, busy, snapshots, moves, crashes>>

CommitRefresh(w) ==
    /\ reading[w] # None
    /\ reading[w].mapped
    /\ LET l == reading[w].listing
       IN  \E e \in reading[w].matched :
              /\ RefreshMapped(e, reading[w].rows[e], batch[w][l])
              /\ Remap(w, l, e)

CommitLink(w) ==
    /\ reading[w] # None
    /\ ~reading[w].mapped
    /\ \E e \in EventIds :
          /\ reading[w].matched = {e}
          /\ Link(reading[w].listing, e, reading[w].rows[e])
          /\ UNCHANGED <<history, reviews, aliases>>
          /\ Remap(w, reading[w].listing, e)

CommitCreate(w) ==
    /\ reading[w] # None
    /\ reading[w].matched = {}
    /\ LET l == reading[w].listing
       IN  \E e \in EventIds : Create(l, e, batch[w][l]) /\ Remap(w, l, e)

Ambiguous(r) == \E d, e \in r.matched : d # e

\* An ambiguous event leaves the batch, and its prices with it.
CommitAmbiguity(w) ==
    /\ reading[w] # None
    /\ Ambiguous(reading[w])
    /\ LET l == reading[w].listing
       IN  /\ RecordAmbiguity(l, reading[w].matched, reading[w].queued)
           /\ batch' = [batch EXCEPT ![w] =
                          [k \in DOMAIN batch[w] \ {l} |-> batch[w][k]]]
    /\ reading' = [reading EXCEPT ![w] = None]
    /\ UNCHANGED <<kickoff, target, busy, snapshots, moves, crashes>>

\* What the unique constraints refuse at commit.
Duplicate(r) ==
    IF Ambiguous(r)
    THEN ~r.queued /\ reviews[r.listing].state # "none"
    ELSE ~r.mapped /\ sourceMap[r.listing] # None

Forget(w) ==
    /\ batch' = [batch EXCEPT ![w] = NoBatch]
    /\ target' = [target EXCEPT ![w] = Unresolved]
    /\ reading' = [reading EXCEPT ![w] = None]
    /\ busy' = [busy EXCEPT ![w] = FALSE]

\* Mutated CommitFails: the error is swallowed, and the event of the batch
\* keeps the id this run had in mind.
CommitIgnored(w) ==
    /\ reading[w] # None
    /\ Duplicate(reading[w])
    /\ \E e \in EventIds :
          /\ reading[w].matched \in {{}, {e}}
          /\ Remap(w, reading[w].listing, e)
    /\ UNCHANGED identityVars

\* The IntegrityError is no ProviderError: it leaves run() and ends the run.
CommitFails(w) ==
    /\ reading[w] # None
    /\ Duplicate(reading[w])
    /\ Forget(w)
    /\ UNCHANGED <<identityVars, kickoff, snapshots, moves, crashes>>

Resolved(w) == busy[w] /\ reading[w] = None /\ Pending(w) = {}

\* upsert overwrites every column; of two events of the batch on one internal
\* id, the later one of the list wins.
Upserted(w, last) ==
    [e \in EventIds |->
        IF e \in DOMAIN last THEN EventRow(last[e], batch[w][last[e]]) ELSE events[e]]

PersistBatch(w) ==
    /\ Resolved(w)
    /\ LET ids == {target[w][l] : l \in DOMAIN batch[w]}
       IN  \E last \in [ids -> DOMAIN batch[w]] :
              /\ \A e \in ids : target[w][last[e]] = e
              /\ events' = Upserted(w, last)
    /\ snapshots' = snapshots \cup {<<l, target[w][l]>> : l \in DOMAIN batch[w]}
    /\ Forget(w)
    /\ UNCHANGED <<history, sourceMap, reviews, aliases, kickoff, moves, crashes>>

\* discover_events resolves the listed events to plan milestones, and stores
\* nothing of them.
Discover(w) ==
    /\ Resolved(w)
    /\ Forget(w)
    /\ UNCHANGED <<identityVars, kickoff, snapshots, moves, crashes>>

Crash(w) ==
    /\ busy[w]
    /\ crashes < MaxCrashes
    /\ crashes' = crashes + 1
    /\ Forget(w)
    /\ UNCHANGED <<identityVars, kickoff, snapshots, moves>>

-----------------------------------------------------------------------------
OperatorVars == <<kickoff, runVars, snapshots, moves, crashes>>

Decide(l, e) == ResolveReview(l, e) /\ UNCHANGED OperatorVars

Import(a) ==
    ImportAlias(a.source, a.alias, a.canonical) /\ UNCHANGED OperatorVars

WorkerStep(w) ==
    \/ Collect(w)
    \/ BeginResolve(w)
    \/ CommitRefresh(w)
    \/ CommitLink(w)
    \/ CommitCreate(w)
    \/ CommitAmbiguity(w)
    \/ CommitFails(w)
    \/ PersistBatch(w)
    \/ Discover(w)

Next ==
    \/ \E w \in Workers : WorkerStep(w) \/ Crash(w)
    \/ \E l \in Listings : Move(l)
    \/ \E l \in Listings, e \in EventIds : Decide(l, e)
    \/ \E a \in AliasFile : Import(a)

Spec == Init /\ [][Next]_vars

\* A worker that is alive carries its run on, and the scheduler starts the next.
FairSpec == Spec /\ \A w \in Workers : WF_vars(WorkerStep(w))

-----------------------------------------------------------------------------
(* Properties.                                                                 *)

Reviews == [state : {"none", "open", "resolved"}, candidates : SUBSET EventIds,
            chosen : EventIds \cup {None}]

Batches == UNION {[S -> Times] : S \in SUBSET Listings}

\* Every table and every worker holds values of its kind, and a run only
\* stores a batch whose events all have an internal id.
TypeOK ==
    /\ events \in [EventIds -> Rows \cup {None}]
    /\ history \in [EventIds -> Times \cup {None}]
    /\ sourceMap \in [Listings -> EventIds \cup {None}]
    /\ reviews \in [Listings -> Reviews]
    /\ \A a \in aliases : a.alias \in Names /\ a.canonical \in Participants
    /\ kickoff \in [Listings -> Times]
    /\ batch \in [Workers -> Batches]
    /\ target \in [Workers -> [Listings -> EventIds \cup {None}]]
    /\ busy \in [Workers -> BOOLEAN]
    /\ snapshots \subseteq Listings \X EventIds
    /\ moves \in 0..MaxMoves
    /\ crashes \in 0..MaxCrashes

\* Once a listing has an internal id it keeps it, whoever resolves it again,
\* however its kick-off moves and whatever aliases are imported.
MappingNeverMoves ==
    [][\A l \in Listings : sourceMap[l] # None => sourceMap'[l] = sourceMap[l]]_vars

\* No price is attached to a guess: a stored price of a listing names the event
\* the listing is mapped to, even when two runs resolved it at once.
SnapshotsFollowMap == \A s \in snapshots : sourceMap[s[1]] = s[2]

\* The copy of the map that a downgrade would carry never states a link the
\* map does not hold.
SourceIdsAreMapped ==
    \A e \in Stored, p \in Providers :
        LET l == events[e].sources[p] IN l # None => sourceMap[l] = e

\* An event row and its first mapping are born together: a run that loses the
\* race to create leaves no event that no listing reaches.
EveryEventIsListed == \A e \in Stored : \E l \in Listings : sourceMap[l] = e

\* A decision of the operator stands: the listing is mapped as decided.
DecisionStands ==
    \A l \in Listings :
        reviews[l].state = "resolved" => sourceMap[l] = reviews[l].chosen

\* Two listings of one provider are two fixtures, and never one event, unless
\* the operator decided so: resolve_review does not look for the other one.
ProviderIsAuthoritative ==
    \A k, l \in Listings :
        /\ k # l /\ ProviderOf(k) = ProviderOf(l)
        /\ sourceMap[k] # None /\ sourceMap[k] = sourceMap[l]
        => reviews[k].state = "resolved" \/ reviews[l].state = "resolved"

\* Every listing of a provider that is collected is eventually mapped or
\* queued for the operator.
EveryListingIsSettled ==
    \A l \in Listings : <>(sourceMap[l] # None \/ reviews[l].state # "none")
=============================================================================
