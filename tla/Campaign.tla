-------------------------------- MODULE Campaign -------------------------------
(***************************************************************************)
(* The activation commands discover, core and additional (activation.py)   *)
(* under the pre-registered campaign of Qualification: each audits the     *)
(* receipts, reads the intents, refuses what the campaign does not         *)
(* authorise, loads the receipt that authorises it, publishes its intent,  *)
(* makes its request and files its receipt.  Operators run commands at     *)
(* once and any of them may die between two steps; "receipts reconcile"    *)
(* drops the intents whose receipt is there.  What the reports then say is *)
(* the module ActivationReport.                                            *)
(*                                                                         *)
(* Publishing and removing an entry of the receipt directory are single    *)
(* steps here: AttemptTrail shows what they are made of and that they keep *)
(* what they promise.  "receipts quarantine", an operator setting evidence *)
(* aside by hand, is left to AttemptTrail.                                 *)
(***************************************************************************)
EXTENDS Qualification

CONSTANTS
    Operator,     \* the terminals commands run from
    Listing,      \* the events each competition may list
    History,      \* receipts of an earlier protocol already on disk
    TTL,          \* RECEIPT_TTL, in clock units
    Age,          \* the ages a quoted market may have, negative when it was
                  \* updated after the command took its clock
    MaxTime,      \* bound: the clock
    MaxAttempts   \* bound: attempts of a behaviour

VARIABLES
    receipts,    \* the receipts on disk
    intents,     \* the intents on disk, by the attempt they announce
    now,         \* the clock
    place,       \* per operator, where its command is
    saw,         \* per operator, the receipts its audit read
    cmd,         \* per operator, the attempt of its command
    attempts,    \* attempts so far; identifiers are drawn in order
    sent,        \* history: the requests that left, and what each was billed
    overlapped   \* history: two commands have been under way at once

vars == <<receipts, intents, now, place, saw, cmd, attempts, sent, overlapped>>

Id == 1..MaxAttempts
Places == {"idle", "audited", "cleared", "ready", "answered", "filed"}
EmptyMap == [m \in {} |-> m]

Receipt ==
    [id : Id \cup {NoReceipt} \cup {r.id : r \in History},
     command : Command, sport : Sport, tags : SUBSET Event,
     status : Status \cup {"PREPARED_NOT_EXECUTED"}, attempts : 0..2,
     reached : BOOLEAN, estimated : Nat, observed : Nat \cup {Unread}, accounted : Nat,
     states : UNION {[ms -> MarketState] : ms \in SUBSET ({"h2h"} \cup AdditionalMarkets)},
     book : Bookmaker,
     ages : UNION {[ms -> Age] : ms \in SUBSET ({"h2h"} \cup AdditionalMarkets)},
     selections : Nat, rejections : BOOLEAN, at : 0..MaxTime,
     parent : Id \cup {NoReceipt} \cup {r.id : r \in History}, current : BOOLEAN]

ASSUME CampaignAssumption ==
    /\ Listing \in [Sport -> SUBSET Event]
    /\ History \subseteq Receipt /\ IsFiniteSet(History)
    /\ \A r \in History : ~r.current /\ r.id \notin Id \cup {NoReceipt}
    /\ TTL \in Nat
    /\ Age \subseteq Int
    /\ MaxTime \in Nat
    /\ MaxAttempts \in Nat

(* Attempt: what a command knows of itself before the wire.                *)
Attempt(c, s, tags, parent) ==
    [id |-> attempts + 1, command |-> c, sport |-> s, tags |-> tags,
     status |-> "PREPARED_NOT_EXECUTED", attempts |-> 0, reached |-> FALSE,
     estimated |-> Ceiling(c), observed |-> Unread, accounted |-> 0,
     states |-> EmptyMap, book |-> IF c = "discover" THEN "NOT_ASKED" ELSE "NOT_RETURNED",
     ages |-> EmptyMap, selections |-> 0, rejections |-> FALSE,
     at |-> now, parent |-> parent, current |-> TRUE]
NoAttempt ==
    [id |-> NoReceipt, command |-> "discover", sport |-> CHOOSE s \in Sport : TRUE,
     tags |-> {}, status |-> "PREPARED_NOT_EXECUTED", attempts |-> 0, reached |-> FALSE,
     estimated |-> 0, observed |-> Unread, accounted |-> 0, states |-> EmptyMap,
     book |-> "NOT_ASKED", ages |-> EmptyMap, selections |-> 0, rejections |-> FALSE,
     at |-> 0, parent |-> NoReceipt, current |-> TRUE]

(* An intent carries the scope the receipt will have to match.             *)
IntentOf(a) ==
    [id |-> a.id, command |-> a.command, sport |-> a.sport, tags |-> a.tags,
     ceiling |-> Ceiling(a.command)]

Init ==
    /\ receipts = History
    /\ intents = {}
    /\ now = 0
    /\ place = [o \in Operator |-> "idle"]
    /\ saw = [o \in Operator |-> {}]
    /\ cmd = [o \in Operator |-> NoAttempt]
    /\ attempts = 0
    /\ sent = {}
    /\ overlapped = FALSE

Go(o, p) == place' = [place EXCEPT ![o] = p]
Outstanding == Cardinality(intents)

-------------------------------------------------------------------------------
(* The campaign guard, in the two readings it is made of.                  *)

Audit(o) ==
    /\ place[o] = "idle"
    /\ Go(o, "audited")
    /\ saw' = [saw EXCEPT ![o] = receipts]
    /\ overlapped' = (overlapped \/ \E q \in Operator \ {o} : place[q] # "idle")
    /\ UNCHANGED <<receipts, intents, now, cmd, attempts, sent>>

(* As if an event could be paid for again.                                 *)
AuthorisedAgain(rs, c, s, tags) ==
    /\ s \in Scopes(c)
    /\ Cardinality(Of(rs, c)) < Limit(c)
    /\ c = "discover" => \A r \in Of(rs, "discover") : r.sport # s
    /\ c = "core" => Cardinality(CoreOf(rs, s)) < CorePerFamily
    /\ c = "additional" => AdditionalOf(rs, s) = {}

(* What the counted campaign still authorises.                             *)
Authorised(rs, c, s, tags) ==
    /\ s \in Scopes(c)
    /\ Cardinality(Of(rs, c)) < Limit(c)
    /\ c = "discover" => \A r \in Of(rs, "discover") : r.sport # s
    /\ c = "core" => Cardinality(CoreOf(rs, s)) < CorePerFamily
    /\ c = "additional" => AdditionalOf(rs, s) = {}
    /\ tags \cap Used(rs, c) = {}

(* As if only the receipts were counted.                                   *)
PreflightWithoutIntents(o, c, s, tags) ==
    /\ place[o] = "audited"
    /\ ~Stopped(CampaignState(saw[o], 0))
    /\ Authorised(saw[o], c, s, tags)
    /\ Go(o, "cleared")
    /\ cmd' = [cmd EXCEPT ![o] = [NoAttempt EXCEPT !.command = c, !.sport = s, !.tags = tags]]
    /\ saw' = [saw EXCEPT ![o] = {}]
    /\ UNCHANGED <<receipts, intents, now, attempts, sent, overlapped>>

(* campaign_preflight: the intents are read after the audit.               *)
Preflight(o, c, s, tags) ==
    /\ place[o] = "audited"
    /\ ~Stopped(CampaignState(saw[o], Outstanding))
    /\ Authorised(saw[o], c, s, tags)
    /\ Go(o, "cleared")
    /\ cmd' = [cmd EXCEPT ![o] = [NoAttempt EXCEPT !.command = c, !.sport = s, !.tags = tags]]
    /\ saw' = [saw EXCEPT ![o] = {}]
    /\ UNCHANGED <<receipts, intents, now, attempts, sent, overlapped>>

-------------------------------------------------------------------------------
(* The receipt that authorises a paid step, named by the operator.         *)

LoadParent(id, c, status, s) ==
    {r \in receipts : /\ r.id = id /\ r.command = c /\ r.status = status
                      /\ r.sport = s /\ r.at + TTL > now}

(* The discovery approved this event, at nil cost.                         *)
CheckDiscovery(parent, tags) == tags \subseteq parent.tags /\ parent.observed = 0

(* One credit already worked on this very event.                           *)
CheckCore(parent, tags) ==
    /\ parent.tags = tags
    /\ parent.parent # NoReceipt
    /\ parent.selections >= 1
    /\ parent.observed # Unread /\ parent.observed <= Ceiling("core")
    /\ parent.accounted <= Ceiling("core")

(* As if a discovery authorised the five-credit step as well.              *)
AuthorisesLoosely(id, a) ==
    CASE a.command = "discover" -> id = NoReceipt
      [] OTHER -> \E p \in LoadParent(id, "discover", "DISCOVERY_VERIFIED", a.sport) :
                      CheckDiscovery(p, a.tags)

Authorises(id, a) ==
    CASE a.command = "discover" -> id = NoReceipt
      [] a.command = "core" ->
             \E p \in LoadParent(id, "discover", "DISCOVERY_VERIFIED", a.sport) :
                 CheckDiscovery(p, a.tags)
      [] a.command = "additional" ->
             \E p \in LoadParent(id, "core", "CORE_LIVE_VERIFIED", a.sport) :
                 CheckCore(p, a.tags)

(* The clock is taken, the parent checked, the intent made durable.        *)
Announce(o, parent) ==
    /\ place[o] = "cleared"
    /\ attempts < MaxAttempts
    /\ Authorises(parent, cmd[o])
    /\ LET a == Attempt(cmd[o].command, cmd[o].sport, cmd[o].tags, parent)
       IN  /\ cmd' = [cmd EXCEPT ![o] = a]
           /\ intents' = intents \cup {IntentOf(a)}
    /\ attempts' = attempts + 1
    /\ Go(o, "ready")
    /\ UNCHANGED <<receipts, now, saw, sent, overlapped>>

-------------------------------------------------------------------------------
(* The answers a step can meet, and the fields each leaves in the attempt. *)
(* "charge" is what the provider bills; a readable header says just that.  *)

Reply(c, status, n, reached, observed, charge) ==
    [status |-> status, attempts |-> n, reached |-> reached, observed |-> observed,
     charge |-> charge, listed |-> {}, states |-> EmptyMap,
     book |-> IF c = "discover" THEN "NOT_ASKED" ELSE "NOT_RETURNED",
     ages |-> EmptyMap, rejections |-> FALSE]

(* No usable answer to the n-th request: never served, perhaps served,     *)
(* refused the key, billed too much, or billed without saying how much.    *)
Failures(c, n, before) ==
    LET too == Ceiling(c) + 1
    IN  {Reply(c, "PROVIDER_UNAVAILABLE", n, FALSE, before, 0)}
        \cup {Reply(c, f.status, n, TRUE, before, f.charge) :
                  f \in [status : {"PROVIDER_UNAVAILABLE", "AUTH_FAILED"}, charge : {0, Ceiling(c)}]}
        \cup {Reply(c, "COST_MISMATCH", n, TRUE, too, too)}
        \cup {Reply(c, "COST_UNVERIFIED", n, TRUE, Unread, k) : k \in {0, Ceiling(c), too}}

(* run_discovery: two free requests, then the admissible events.           *)
DiscoveryReplies(s) ==
    Failures("discover", 1, Unread) \cup Failures("discover", 2, 0)
        \cup {Reply("discover", "COVERAGE_MISSING", n, TRUE, 0, 0) : n \in 1..2}
        \cup {[Reply("discover", "DISCOVERY_VERIFIED", 2, TRUE, 0, 0) EXCEPT !.listed = es] :
                  es \in (SUBSET Listing[s]) \ {{}}}

(* Absence, rejection and success are three answers, not one.              *)
AdditionalStatus(states) ==
    LET found == {states[m] : m \in DOMAIN states}
    IN  IF found \in {{"NOT_EVALUATED"}, {"NOT_RETURNED"}} THEN "COVERAGE_MISSING"
        ELSE IF "MAPPED" \notin found THEN "SCHEMA_MISMATCH"
        ELSE IF found = {"MAPPED"} THEN "ADDITIONAL_LIVE_VERIFIED"
        ELSE "ADDITIONAL_PARTIAL_COVERAGE"

ClassifiedStatus(c, states) ==
    IF c = "additional" THEN AdditionalStatus(states)
    ELSE IF \E m \in DOMAIN states : states[m] = "MAPPED" THEN "CORE_LIVE_VERIFIED"
    ELSE "SCHEMA_MISMATCH"

(* Markets the bookmaker quotes have the age of their stamp; one without a *)
(* usable stamp has none, and cannot be mapped.                            *)
Quoted(c) ==
    UNION {{[states |-> st, ages |-> ag] :
                ag \in UNION {[ms -> Age] :
                    ms \in {x \in SUBSET Requested(c) :
                                \A m \in Requested(c) :
                                    /\ st[m] = "MAPPED" => m \in x
                                    /\ st[m] = "NOT_RETURNED" => m \notin x}}} :
           st \in [Requested(c) -> {"MAPPED", "REJECTED", "NOT_RETURNED"}]}

(* run_core and run_additional, from the request to the receipt's fields.  *)
PaidReplies(c) ==
    Failures(c, 1, Unread)
        \cup {Reply(c, f.status, 1, TRUE, f.charge, f.charge) :
                  f \in [status : {"COVERAGE_MISSING", "SCHEMA_MISMATCH"}, charge : {0, Ceiling(c)}]}
        \cup {[Reply(c, "COVERAGE_MISSING", 1, TRUE, k, k) EXCEPT
                   !.states = [m \in Requested(c) |-> "NOT_EVALUATED"]] : k \in {0, Ceiling(c)}}
        \cup {[Reply(c, ClassifiedStatus(c, q.states), 1, TRUE, Ceiling(c), Ceiling(c)) EXCEPT
                   !.book = "OBSERVED", !.states = q.states, !.ages = q.ages,
                   !.rejections = \E m \in Requested(c) : q.states[m] = "REJECTED"] :
                  q \in Quoted(c)}

Replies(a) == IF a.command = "discover" THEN DiscoveryReplies(a.sport) ELSE PaidReplies(a.command)

Accounted(reply, estimated) ==
    IF ~reply.reached /\ reply.observed = Unread THEN 0
    ELSE IF reply.observed = Unread THEN estimated
    ELSE reply.observed

Fill(a, reply) ==
    [id |-> a.id, command |-> a.command, sport |-> a.sport, tags |-> a.tags \cup reply.listed,
     status |-> reply.status, attempts |-> reply.attempts, reached |-> reply.reached,
     estimated |-> a.estimated, observed |-> reply.observed,
     accounted |-> Accounted(reply, a.estimated), states |-> reply.states, book |-> reply.book,
     ages |-> reply.ages,
     selections |-> Cardinality({m \in DOMAIN reply.states : reply.states[m] = "MAPPED"}),
     rejections |-> reply.rejections, at |-> a.at, parent |-> a.parent, current |-> a.current]

(* The request leaves and is answered.                                     *)
Request(o, reply) ==
    /\ place[o] = "ready"
    /\ reply \in Replies(cmd[o])
    /\ cmd' = [cmd EXCEPT ![o] = Fill(cmd[o], reply)]
    /\ sent' = sent \cup {[id |-> cmd[o].id, command |-> cmd[o].command, charge |-> reply.charge]}
    /\ Go(o, "answered")
    /\ UNCHANGED <<receipts, intents, now, saw, attempts, overlapped>>

(* The shared budget refuses the call: the client raises BudgetExceeded    *)
(* and the step files what it would for a provider it could not reach.     *)
BudgetRefuses(o) ==
    /\ place[o] = "ready"
    /\ cmd[o].command \in PaidCommand
    /\ cmd' = [cmd EXCEPT ![o] =
                  Fill(cmd[o], Reply(cmd[o].command, "PROVIDER_UNAVAILABLE", 1, TRUE, Unread, 0))]
    /\ Go(o, "answered")
    /\ UNCHANGED <<receipts, intents, now, saw, attempts, sent, overlapped>>

-------------------------------------------------------------------------------
(* _persist_or_report: the receipt first, then the intent is forgotten.    *)

(* As if nothing were filed for a call that failed.                        *)
FileSuccessesOnly(o) ==
    /\ place[o] = "answered"
    /\ receipts' = IF cmd[o] \in Failed({cmd[o]}) THEN receipts ELSE receipts \cup {cmd[o]}
    /\ Go(o, "filed")
    /\ UNCHANGED <<intents, now, saw, cmd, attempts, sent, overlapped>>

File(o) ==
    /\ place[o] = "answered"
    /\ receipts' = receipts \cup {cmd[o]}
    /\ Go(o, "filed")
    /\ UNCHANGED <<intents, now, saw, cmd, attempts, sent, overlapped>>

Forget(o) ==
    /\ Go(o, "idle")
    /\ saw' = [saw EXCEPT ![o] = {}]
    /\ cmd' = [cmd EXCEPT ![o] = NoAttempt]

Resolve(o) ==
    /\ place[o] = "filed"
    /\ intents' = {i \in intents : i.id # cmd[o].id}
    /\ Forget(o)
    /\ UNCHANGED <<receipts, now, attempts, sent, overlapped>>

(* A command is refused, fails to persist, or is killed: whatever it had   *)
(* on disk stays there.                                                    *)
Stop(o) ==
    /\ place[o] # "idle"
    /\ Forget(o)
    /\ UNCHANGED <<receipts, intents, now, attempts, sent, overlapped>>

(* _matches_intent: identifier and material scope, of a readable receipt   *)
(* of this protocol.                                                       *)
Matches(intent, r) ==
    /\ r.id = intent.id /\ r.command = intent.command /\ r.sport = intent.sport
    /\ intent.tags # {} => intent.tags \cap r.tags # {}
    /\ r.accounted <= intent.ceiling
    /\ Classify(r) = "usable"

Reconcile ==
    /\ \E i \in intents, r \in receipts : Matches(i, r)
    /\ intents' = {i \in intents : ~\E r \in receipts : Matches(i, r)}
    /\ UNCHANGED <<receipts, now, place, saw, cmd, attempts, sent, overlapped>>

Tick ==
    /\ now < MaxTime
    /\ now' = now + 1
    /\ UNCHANGED <<receipts, intents, place, saw, cmd, attempts, sent, overlapped>>

Step(o) ==
    \/ Audit(o)
    \/ \E s \in Sport :
           \/ Preflight(o, "discover", s, {})
           \/ \E c \in PaidCommand, e \in Event : Preflight(o, c, s, {e})
    \/ \E parent \in {NoReceipt} \cup {r.id : r \in receipts} : Announce(o, parent)
    \/ \E reply \in Replies(cmd[o]) : Request(o, reply)
    \/ BudgetRefuses(o)
    \/ File(o)
    \/ Resolve(o)
    \/ Stop(o)

Next ==
    \/ \E o \in Operator : Step(o)
    \/ Reconcile
    \/ Tick

Spec == Init /\ [][Next]_vars
-------------------------------------------------------------------------------
(* Properties.                                                             *)

TypeOK ==
    /\ receipts \subseteq Receipt
    /\ intents \subseteq [id : Id, command : Command, sport : Sport,
                          tags : SUBSET Event, ceiling : Nat]
    /\ now \in 0..MaxTime
    /\ place \in [Operator -> Places]
    /\ saw \in [Operator -> SUBSET Receipt]
    /\ cmd \in [Operator -> Receipt]
    /\ attempts \in 0..MaxAttempts
    /\ sent \subseteq [id : Id, command : Command, charge : Nat]
    /\ overlapped \in BOOLEAN

WithinCeilings(requests) ==
    SumFunction([q \in requests |-> Min({q.charge, Ceiling(q.command)})])

(* Five credits are spent only on an event a free discovery had listed at  *)
(* nil cost and a one-credit call had mapped, each less than a TTL before. *)
ChainHolds ==
    \A a \in receipts \cup {cmd[o] : o \in {p \in Operator : place[p] \in {"ready", "answered", "filed"}}} :
        a.command = "additional" =>
            \E core, found \in receipts :
                /\ core.id = a.parent /\ core.status = "CORE_LIVE_VERIFIED"
                /\ core.sport = a.sport /\ core.tags = a.tags
                /\ found.id = core.parent /\ found.status = "DISCOVERY_VERIFIED"
                /\ found.sport = a.sport /\ a.tags \subseteq found.tags /\ found.observed = 0
                /\ a.at < core.at + TTL /\ core.at < found.at + TTL

(* The guard refuses exactly what the count would call a conflict: as long *)
(* as no two commands were under way at once, the corpus never contradicts *)
(* the manifest.                                                           *)
OneByOneNeverConflicts == ~overlapped => ~CampaignConflict(receipts)

(* As long as no two commands were under way at once, no more requests     *)
(* leave than were authorised, at most one is billed past its ceiling, and *)
(* the others stay within the budget of the campaign.                      *)
SpendIsBounded ==
    ~overlapped =>
        /\ \A c \in Command : Cardinality({q \in sent : q.command = c}) <= Limit(c)
        /\ Cardinality({q \in sent : q.charge > Ceiling(q.command)}) <= 1
        /\ WithinCeilings(sent) <= Budget
===============================================================================
