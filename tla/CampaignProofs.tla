----------------------------- MODULE CampaignProofs -----------------------------
(***************************************************************************)
(* Proofs about Campaign, for any number of operators, attempts and        *)
(* competitions: the chain of receipts behind a five-credit call, the      *)
(* honesty of the review gate and of the status report, and the limits and *)
(* the budget of the manifest.  A request, its intent and its receipt are  *)
(* tied by their identifier alone, so the inductive invariant says who     *)
(* owns an identifier and where it may be found, and what an attempt says  *)
(* of the request of its identifier, whatever the answer was.              *)
(***************************************************************************)
EXTENDS ActivationReport, FiniteSetTheorems, DataTheorems, TLAPS

AnyMarket == {"h2h"} \cup AdditionalMarkets
StateMaps == UNION {[ms -> MarketState] : ms \in SUBSET AnyMarket}
AgeMaps == UNION {[ms -> Age] : ms \in SUBSET AnyMarket}

(* What a command knows before its answer, and after it.                   *)
AnyReply ==
    [status : Status, attempts : 0..2, reached : BOOLEAN, observed : Nat \cup {Unread},
     charge : Nat, listed : SUBSET Event, states : StateMaps, book : Bookmaker,
     ages : AgeMaps, rejections : BOOLEAN]

(* What the answer to a paid request says of its bill.                     *)
SaysItsBill(reply) ==
    /\ reply.listed = {} /\ reply.attempts = 1
    /\ ~reply.reached => reply.observed = Unread /\ reply.charge = 0
    /\ reply.status \in CostEstablishing => reply.observed = reply.charge

-------------------------------------------------------------------------------
(* The inductive invariant.                                                *)

UnderWay(o) == place[o] \in {"ready", "answered", "filed"}
Known == receipts \cup {cmd[o] : o \in {p \in Operator : UnderWay(p)}}

(* A core attempt has the discovery that listed its event; an additional   *)
(* one has the core receipt, and the discovery behind it.                  *)
CoreChained(rs, a) ==
    a.command = "core" =>
        \E found \in rs :
            /\ found.id = a.parent /\ found.status = "DISCOVERY_VERIFIED"
            /\ found.sport = a.sport /\ a.tags \subseteq found.tags /\ found.observed = 0
            /\ a.at < found.at + TTL

AdditionalChained(rs, a) ==
    a.command = "additional" =>
        \E core, found \in rs :
            /\ core.id = a.parent /\ core.status = "CORE_LIVE_VERIFIED"
            /\ core.sport = a.sport /\ core.tags = a.tags
            /\ found.id = core.parent /\ found.status = "DISCOVERY_VERIFIED"
            /\ found.sport = a.sport /\ a.tags \subseteq found.tags /\ found.observed = 0
            /\ a.at < core.at + TTL /\ core.at < found.at + TTL

Chained == \A a \in Known : CoreChained(receipts, a) /\ AdditionalChained(receipts, a)

(* An identifier is drawn once: the attempt that has it is its command's   *)
(* alone until its receipt is there.                                       *)
Owned(o) ==
    UnderWay(o) =>
        /\ cmd[o].id \in 1..attempts /\ cmd[o].current
        /\ \A p \in Operator : p # o /\ UnderWay(p) => cmd[p].id # cmd[o].id
        /\ place[o] # "filed" => \A r \in receipts : r.id # cmd[o].id
        /\ place[o] = "filed" => cmd[o] \in receipts
        /\ place[o] = "ready" => /\ \A q \in sent : q.id # cmd[o].id
                                 /\ \E i \in intents : i.id = cmd[o].id

Drawn ==
    /\ \A r \in receipts : r.id \in Id => r.id \in 1..attempts /\ r.current
    /\ \A q \in sent : q.id \in 1..attempts

(* A request that left has its intent or its receipt.                      *)
Traced ==
    \A q \in sent : (\E i \in intents : i.id = q.id) \/ (\E r \in receipts : r.id = q.id)

(* What an attempt may say of a request of the same identifier.            *)
AccountsFor(a, q) ==
    /\ a.command = q.command
    /\ a.command \in PaidCommand =>
           /\ a.attempts = 1
           /\ ~a.reached => a.accounted = q.charge
           /\ a.status \in CostEstablishing => a.accounted = q.charge

Accounts == \A a \in Known : \A q \in sent : q.id = a.id => AccountsFor(a, q)

(* The corpus an installation starts with was filed along the same chain.  *)
HistoryIsChained ==
    \A a \in History : CoreChained(History, a) /\ AdditionalChained(History, a)

IInv ==
    /\ TypeOK
    /\ IsFiniteSet(intents)
    /\ HistoryIsChained => Chained
    /\ \A o \in Operator : Owned(o)
    /\ Drawn
    /\ Traced
    /\ Accounts

-------------------------------------------------------------------------------
(* The answers.                                                            *)

LEMMA Costs == \A c \in Command : Ceiling(c) \in Nat
<1>1. /\ Cardinality({}) = 0 /\ Cardinality({"h2h"}) = 1
  BY FS_EmptySet, FS_Singleton
<1>2. Cardinality(AdditionalMarkets) \in Nat
  BY QualificationAssumption, FS_CardinalityType
<1> QED BY <1>1, <1>2 DEF Ceiling, Requested, Command

LEMMA NoMarkets == EmptyMap \in StateMaps /\ EmptyMap \in AgeMaps
<1>1. /\ EmptyMap \in [{} -> MarketState] /\ EmptyMap \in [{} -> Age]
      /\ {} \in SUBSET AnyMarket
  BY DEF EmptyMap
<1> QED BY <1>1, Zenon DEF StateMaps, AgeMaps

LEMMA FailureFacts ==
    ASSUME NEW c \in Command, NEW n \in 1..2, NEW before \in {Unread, 0},
           NEW r \in Failures(c, n, before)
    PROVE  /\ r \in AnyReply /\ r.listed = {} /\ r.attempts = n
           /\ r.status \notin CostEstablishing
           /\ ~r.reached => r.observed = before /\ r.charge = 0
<1>1. /\ Ceiling(c) \in Nat /\ Ceiling(c) + 1 \in Nat
      /\ 0 \in Nat /\ before \in Nat \cup {Unread}
      /\ {"PROVIDER_UNAVAILABLE", "AUTH_FAILED", "COST_MISMATCH", "COST_UNVERIFIED"}
            \subseteq Status \ CostEstablishing
  BY Costs DEF Status, CostEstablishing, Mapping
<1>2. CASE r = Reply(c, "PROVIDER_UNAVAILABLE", n, FALSE, before, 0)
  BY <1>1, <1>2, NoMarkets DEF Reply, AnyReply, Bookmaker
<1>3. CASE \E f \in [status : {"PROVIDER_UNAVAILABLE", "AUTH_FAILED"}, charge : {0, Ceiling(c)}] :
               r = Reply(c, f.status, n, TRUE, before, f.charge)
  BY <1>1, <1>3, NoMarkets DEF Reply, AnyReply, Bookmaker
<1>4. CASE r = Reply(c, "COST_MISMATCH", n, TRUE, Ceiling(c) + 1, Ceiling(c) + 1)
  BY <1>1, <1>4, NoMarkets DEF Reply, AnyReply, Bookmaker
<1>5. CASE \E k \in {0, Ceiling(c), Ceiling(c) + 1} :
               r = Reply(c, "COST_UNVERIFIED", n, TRUE, Unread, k)
  BY <1>1, <1>5, NoMarkets DEF Reply, AnyReply, Bookmaker
<1> QED BY <1>2, <1>3, <1>4, <1>5, Zenon DEF Failures

LEMMA DiscoveryFacts ==
    ASSUME NEW s \in Sport, NEW r \in DiscoveryReplies(s)
    PROVE  r \in AnyReply
<1>0. "discover" \in Command /\ {"COVERAGE_MISSING", "DISCOVERY_VERIFIED"} \subseteq Status
  BY DEF Command, Status
<1>1. CASE r \in Failures("discover", 1, Unread) \cup Failures("discover", 2, 0)
  BY <1>0, <1>1, FailureFacts
<1>2. CASE \E n \in 1..2 : r = Reply("discover", "COVERAGE_MISSING", n, TRUE, 0, 0)
  BY <1>0, <1>2, NoMarkets DEF Reply, AnyReply, Bookmaker
<1>3. CASE \E es \in SUBSET Listing[s] :
               r = [Reply("discover", "DISCOVERY_VERIFIED", 2, TRUE, 0, 0) EXCEPT !.listed = es]
  <2>1. PICK es \in SUBSET Listing[s] :
               r = [Reply("discover", "DISCOVERY_VERIFIED", 2, TRUE, 0, 0) EXCEPT !.listed = es]
    BY <1>3
  <2>2. es \subseteq Event
    BY CampaignAssumption
  <2>3. r = [status |-> "DISCOVERY_VERIFIED", attempts |-> 2, reached |-> TRUE, observed |-> 0,
             charge |-> 0, listed |-> es, states |-> EmptyMap, book |-> "NOT_ASKED",
             ages |-> EmptyMap, rejections |-> FALSE]
    BY <2>1 DEF Reply
  <2> QED BY <1>0, <2>2, <2>3, NoMarkets DEF AnyReply, Bookmaker
<1> QED BY <1>1, <1>2, <1>3 DEF DiscoveryReplies

LEMMA QuotedFacts ==
    ASSUME NEW c \in PaidCommand, NEW q \in Quoted(c)
    PROVE  q.states \in StateMaps /\ q.ages \in AgeMaps
<1>1. Requested(c) \subseteq AnyMarket
  BY DEF Requested, PaidCommand, AnyMarket
<1>2. PICK st \in [Requested(c) -> {"MAPPED", "REJECTED", "NOT_RETURNED"}],
           ag \in UNION {[ms -> Age] : ms \in SUBSET Requested(c)} :
               q = [states |-> st, ages |-> ag]
  BY DEF Quoted
<1>3. st \in StateMaps
  BY <1>1, <1>2 DEF StateMaps, MarketState
<1>4. ag \in AgeMaps
  BY <1>1, <1>2 DEF AgeMaps
<1> QED BY <1>2, <1>3, <1>4

LEMMA PaidFacts ==
    ASSUME NEW c \in PaidCommand, NEW r \in PaidReplies(c)
    PROVE  r \in AnyReply /\ SaysItsBill(r)
<1>0. /\ c \in Command /\ c # "discover" /\ Ceiling(c) \in Nat
      /\ {"COVERAGE_MISSING", "SCHEMA_MISMATCH"} \subseteq Status
  BY Costs DEF PaidCommand, Command, Status
<1>1. CASE r \in Failures(c, 1, Unread)
  BY <1>0, <1>1, FailureFacts DEF SaysItsBill
<1>2. CASE \E f \in [status : {"COVERAGE_MISSING", "SCHEMA_MISMATCH"}, charge : {0, Ceiling(c)}] :
               r = Reply(c, f.status, 1, TRUE, f.charge, f.charge)
  BY <1>0, <1>2, NoMarkets DEF Reply, AnyReply, Bookmaker, SaysItsBill
<1>3. CASE \E k \in {0, Ceiling(c)} :
               r = [Reply(c, "COVERAGE_MISSING", 1, TRUE, k, k) EXCEPT
                      !.states = [m \in Requested(c) |-> "NOT_EVALUATED"]]
  <2>1. PICK k \in {0, Ceiling(c)} :
               r = [Reply(c, "COVERAGE_MISSING", 1, TRUE, k, k) EXCEPT
                      !.states = [m \in Requested(c) |-> "NOT_EVALUATED"]]
    BY <1>3
  <2>2. [m \in Requested(c) |-> "NOT_EVALUATED"] \in StateMaps
    <3>1. /\ [m \in Requested(c) |-> "NOT_EVALUATED"] \in [Requested(c) -> MarketState]
          /\ Requested(c) \in SUBSET AnyMarket
      BY DEF MarketState, Requested, PaidCommand, AnyMarket
    <3> QED BY <3>1, Zenon DEF StateMaps
  <2>3. r = [status |-> "COVERAGE_MISSING", attempts |-> 1, reached |-> TRUE, observed |-> k,
             charge |-> k, listed |-> {}, states |-> [m \in Requested(c) |-> "NOT_EVALUATED"],
             book |-> "NOT_RETURNED", ages |-> EmptyMap, rejections |-> FALSE]
    BY <1>0, <2>1 DEF Reply
  <2> QED BY <1>0, <2>2, <2>3, NoMarkets DEF AnyReply, Bookmaker, SaysItsBill
<1>4. CASE \E q \in Quoted(c) :
               r = [Reply(c, ClassifiedStatus(c, q.states), 1, TRUE, Ceiling(c), Ceiling(c)) EXCEPT
                      !.book = "OBSERVED", !.states = q.states, !.ages = q.ages,
                      !.rejections = \E m \in Requested(c) : q.states[m] = "REJECTED"]
  <2>1. PICK q \in Quoted(c) :
               r = [Reply(c, ClassifiedStatus(c, q.states), 1, TRUE, Ceiling(c), Ceiling(c)) EXCEPT
                      !.book = "OBSERVED", !.states = q.states, !.ages = q.ages,
                      !.rejections = \E m \in Requested(c) : q.states[m] = "REJECTED"]
    BY <1>4
  <2>2. ClassifiedStatus(c, q.states) \in Status
    BY DEF ClassifiedStatus, AdditionalStatus, Status
  <2>3. PICK some \in BOOLEAN : some = \E m \in Requested(c) : q.states[m] = "REJECTED"
    OBVIOUS
  <2>4. r = [Reply(c, ClassifiedStatus(c, q.states), 1, TRUE, Ceiling(c), Ceiling(c)) EXCEPT
                !.book = "OBSERVED", !.states = q.states, !.ages = q.ages, !.rejections = some]
    BY <2>1, <2>3
  <2> DEFINE status == ClassifiedStatus(c, q.states)
             cost == Ceiling(c)
  <2>5. status \in Status /\ cost \in Nat
    BY <1>0, <2>2
  <2>6. r = [Reply(c, status, 1, TRUE, cost, cost) EXCEPT
                !.book = "OBSERVED", !.states = q.states, !.ages = q.ages, !.rejections = some]
    BY <2>4
  <2> HIDE DEF status, cost
  <2>7. r = [status |-> status, attempts |-> 1, reached |-> TRUE, observed |-> cost,
             charge |-> cost, listed |-> {}, states |-> q.states, book |-> "OBSERVED",
             ages |-> q.ages, rejections |-> some]
    BY <2>6, Zenon DEF Reply
  <2> QED BY <2>3, <2>5, <2>7, QuotedFacts DEF AnyReply, SaysItsBill, Bookmaker
<1> QED BY <1>1, <1>2, <1>3, <1>4, Zenon DEF PaidReplies

(* An answer changes what the attempt learns, never what it is.            *)
LEMMA FillFacts ==
    ASSUME NEW a \in Receipt, NEW reply \in AnyReply
    PROVE  /\ Fill(a, reply) \in Receipt
           /\ Fill(a, reply).id = a.id /\ Fill(a, reply).command = a.command
           /\ Fill(a, reply).sport = a.sport /\ Fill(a, reply).parent = a.parent
           /\ Fill(a, reply).at = a.at /\ Fill(a, reply).current = a.current
           /\ Fill(a, reply).tags = a.tags \cup reply.listed
           /\ Fill(a, reply).status = reply.status
           /\ Fill(a, reply).attempts = reply.attempts
           /\ Fill(a, reply).reached = reply.reached
           /\ Fill(a, reply).observed = reply.observed
           /\ Fill(a, reply).accounted = Accounted(reply, a.estimated)
<1> DEFINE n == Cardinality({m \in DOMAIN reply.states : reply.states[m] = "MAPPED"})
           k == Accounted(reply, a.estimated)
<1>1. n \in Nat
  <2>1. IsFiniteSet(AnyMarket)
    BY QualificationAssumption, FS_Singleton, FS_Union DEF AnyMarket
  <2>2. {m \in DOMAIN reply.states : reply.states[m] = "MAPPED"} \subseteq AnyMarket
    BY DEF AnyReply, StateMaps
  <2> QED BY <2>1, <2>2, FS_Subset, FS_CardinalityType
<1>2. k \in Nat
  BY DEF Accounted, AnyReply, Receipt
<1>3. Fill(a, reply) =
          [id |-> a.id, command |-> a.command, sport |-> a.sport,
           tags |-> a.tags \cup reply.listed, status |-> reply.status,
           attempts |-> reply.attempts, reached |-> reply.reached, estimated |-> a.estimated,
           observed |-> reply.observed, accounted |-> k, states |-> reply.states,
           book |-> reply.book, ages |-> reply.ages, selections |-> n,
           rejections |-> reply.rejections, at |-> a.at, parent |-> a.parent,
           current |-> a.current]
  BY DEF Fill
<1> HIDE DEF n, k
<1>4. Fill(a, reply) \in Receipt
  BY <1>1, <1>2, <1>3 DEF Receipt, AnyReply, StateMaps, AgeMaps, AnyMarket
<1> QED BY <1>3, <1>4 DEF k

-------------------------------------------------------------------------------
(* Steps that leave the receipts and the requests as they are.             *)

(* The rest of the invariant does not see a command begin or end, nor an   *)
(* intent go whose receipt is there.                                       *)
LEMMA QuietStep ==
    ASSUME IInv, TypeOK', UNCHANGED <<receipts, sent, attempts>>,
           intents' \subseteq intents,
           \A i \in intents : i \in intents' \/ \E r \in receipts : r.id = i.id,
           \A o \in Operator : place'[o] \in {"ready", "answered", "filed"} =>
               place'[o] = place[o] /\ cmd'[o] = cmd[o]
    PROVE  IInv'
<1>1. Known' \subseteq Known
  BY DEF Known, UnderWay
<1>2. IsFiniteSet(intents')
  BY FS_Subset DEF IInv
<1>3. HistoryIsChained => Chained'
  BY <1>1 DEF IInv, Chained, CoreChained, AdditionalChained
<1>4. ASSUME NEW o \in Operator PROVE Owned(o)'
  <2> SUFFICES ASSUME UnderWay(o)'
               PROVE  /\ cmd'[o].id \in 1..attempts /\ cmd'[o].current
                      /\ \A p \in Operator : p # o /\ UnderWay(p)' => cmd'[p].id # cmd'[o].id
                      /\ place'[o] # "filed" => \A r \in receipts : r.id # cmd'[o].id
                      /\ place'[o] = "filed" => cmd'[o] \in receipts
                      /\ place'[o] = "ready" => /\ \A q \in sent : q.id # cmd'[o].id
                                               /\ \E i \in intents' : i.id = cmd'[o].id
    BY DEF Owned
  <2>1. \A p \in Operator : UnderWay(p)' => place'[p] = place[p] /\ cmd'[p] = cmd[p] /\ UnderWay(p)
    BY DEF UnderWay
  <2>2. Owned(o)
    BY DEF IInv
  <2>3. place[o] = "ready" => \E i \in intents' : i.id = cmd[o].id
    BY <2>1, <2>2 DEF Owned
  <2> QED BY <2>1, <2>2, <2>3 DEF Owned
<1>5. Drawn' /\ Traced'
  BY DEF IInv, Drawn, Traced
<1>6. Accounts'
  BY <1>1 DEF IInv, Accounts, AccountsFor
<1> QED BY <1>2, <1>3, <1>4, <1>5, <1>6 DEF IInv

LEMMA NoCommand == NoAttempt \in Receipt
<1>1. (CHOOSE s \in Sport : TRUE) \in Sport
  BY QualificationAssumption DEF Sport
<1>2. 0 \in 0..MaxTime
  BY CampaignAssumption
<1> QED BY <1>1, <1>2, NoMarkets
        DEF NoAttempt, Receipt, StateMaps, AgeMaps, AnyMarket, Command, Bookmaker, Unread

LEMMA AuditStep ==
    ASSUME IInv, NEW o \in Operator, Audit(o)
    PROVE  IInv'
<1>1. TypeOK'
  BY DEF IInv, TypeOK, Audit, Go, Places
<1> QED BY <1>1, QuietStep DEF Audit, Go, IInv, TypeOK

LEMMA PreflightStep ==
    ASSUME IInv, NEW o \in Operator, NEW c \in Command, NEW s \in Sport,
           NEW tags \in SUBSET Event, Preflight(o, c, s, tags)
    PROVE  IInv'
<1> DEFINE asked == [NoAttempt EXCEPT !.command = c, !.sport = s, !.tags = tags]
<1>1. asked \in Receipt
  BY NoCommand DEF Receipt
<1> HIDE DEF asked
<1>2. /\ place' = [place EXCEPT ![o] = "cleared"] /\ cmd' = [cmd EXCEPT ![o] = asked]
      /\ saw' = [saw EXCEPT ![o] = {}]
      /\ UNCHANGED <<receipts, intents, now, attempts, sent, overlapped>>
  BY DEF Preflight, Go, asked
<1>3. TypeOK'
  BY <1>1, <1>2 DEF IInv, TypeOK, Places
<1> QED BY <1>2, <1>3, QuietStep DEF IInv, TypeOK

(* A command that ends.                                                    *)
LEMMA ForgetStep ==
    ASSUME IInv, NEW o \in Operator, Forget(o), UNCHANGED <<receipts, now, attempts, sent, overlapped>>,
           intents' \subseteq intents,
           \A i \in intents : i \in intents' \/ \E r \in receipts : r.id = i.id
    PROVE  IInv'
<1>1. TypeOK'
  BY NoCommand DEF IInv, TypeOK, Forget, Go, Places
<1> QED BY <1>1, QuietStep DEF Forget, Go, IInv, TypeOK

LEMMA ResolveStep ==
    ASSUME IInv, NEW o \in Operator, Resolve(o)
    PROVE  IInv'
<1>1. cmd[o] \in receipts
  BY DEF IInv, Owned, UnderWay, Resolve
<1> QED BY <1>1, ForgetStep DEF Resolve

LEMMA StopStep ==
    ASSUME IInv, NEW o \in Operator, Stop(o)
    PROVE  IInv'
BY ForgetStep DEF Stop

LEMMA ReconcileStep ==
    ASSUME IInv, Reconcile
    PROVE  IInv'
<1>1. TypeOK'
  BY DEF IInv, TypeOK, Reconcile
<1>2. \A i \in intents : i \in intents' \/ \E r \in receipts : r.id = i.id
  BY DEF Reconcile, Matches
<1> QED BY <1>1, <1>2, QuietStep DEF Reconcile

LEMMA TickStep ==
    ASSUME IInv, Tick
    PROVE  IInv'
<1>1. TypeOK'
  BY CampaignAssumption DEF IInv, TypeOK, Tick
<1> QED BY <1>1, QuietStep DEF Tick

-------------------------------------------------------------------------------
(* The three steps that add to what is known.                              *)

(* A parent that authorises a paid attempt chains it.                      *)
LEMMA ParentChains ==
    ASSUME IInv, HistoryIsChained, NEW parent, NEW a \in Receipt, NEW asked \in Receipt,
           Authorises(parent, asked), a.command = asked.command,
           a.sport = asked.sport, a.tags = asked.tags, a.parent = parent, a.at = now
    PROVE  CoreChained(receipts, a) /\ AdditionalChained(receipts, a)
<1>1. /\ \A r \in receipts : r.at \in Int /\ r \in Known
      /\ TTL \in Int /\ now \in Int
  BY CampaignAssumption DEF IInv, TypeOK, Receipt, Known
<1>2. CASE asked.command = "discover"
  BY <1>2 DEF CoreChained, AdditionalChained
<1>3. CASE asked.command = "core"
  <2>1. PICK p \in LoadParent(parent, "discover", "DISCOVERY_VERIFIED", asked.sport) :
            CheckDiscovery(p, asked.tags)
    BY <1>3 DEF Authorises
  <2> QED BY <1>1, <1>3, <2>1 DEF LoadParent, CheckDiscovery, CoreChained, AdditionalChained
<1>4. CASE asked.command = "additional"
  <2>1. PICK core \in LoadParent(parent, "core", "CORE_LIVE_VERIFIED", asked.sport) :
            CheckCore(core, asked.tags)
    BY <1>4 DEF Authorises
  <2>2. /\ core \in receipts /\ core.id = parent /\ core.command = "core"
        /\ core.status = "CORE_LIVE_VERIFIED" /\ core.sport = asked.sport
        /\ core.at + TTL > now /\ core.tags = asked.tags
    BY <2>1 DEF LoadParent, CheckCore
  <2>3. CoreChained(receipts, core)
    BY <1>1, <2>2 DEF IInv, Chained
  <2>4. PICK found \in receipts :
            /\ found.id = core.parent /\ found.status = "DISCOVERY_VERIFIED"
            /\ found.sport = core.sport /\ core.tags \subseteq found.tags /\ found.observed = 0
            /\ core.at < found.at + TTL
    BY <2>2, <2>3 DEF CoreChained
  <2>5. a.at < core.at + TTL
    BY <1>1, <2>2
  <2> QED BY <1>4, <2>2, <2>4, <2>5 DEF CoreChained, AdditionalChained
<1> QED BY <1>2, <1>3, <1>4 DEF Receipt, Command

LEMMA AnnounceStep ==
    ASSUME IInv, NEW o \in Operator, NEW parent \in {NoReceipt} \cup {r.id : r \in receipts},
           Announce(o, parent)
    PROVE  IInv'
<1> DEFINE a == Attempt(cmd[o].command, cmd[o].sport, cmd[o].tags, parent)
<1>1. /\ TypeOK /\ cmd[o] \in Receipt /\ place[o] = "cleared" /\ attempts < MaxAttempts
      /\ attempts \in Nat /\ MaxAttempts \in Nat /\ attempts' = attempts + 1
      /\ place' = [place EXCEPT ![o] = "ready"] /\ cmd' = [cmd EXCEPT ![o] = a]
      /\ intents' = intents \cup {IntentOf(a)}
      /\ UNCHANGED <<receipts, now, saw, sent, overlapped>>
  BY CampaignAssumption DEF IInv, TypeOK, Announce, Go
<1>2. /\ a.id = attempts + 1 /\ a.command = cmd[o].command /\ a.sport = cmd[o].sport
      /\ a.tags = cmd[o].tags /\ a.parent = parent /\ a.at = now /\ a.current = TRUE
      /\ IntentOf(a).id = attempts + 1 /\ a.command \in Command
  BY <1>1 DEF Attempt, IntentOf, Receipt
<1>3. a \in Receipt
  <2>1. Ceiling(cmd[o].command) \in Nat /\ attempts + 1 \in Id
    BY <1>1, Costs DEF Receipt, Id
  <2>2. parent \in Id \cup {NoReceipt} \cup {r.id : r \in History}
    BY <1>1 DEF TypeOK, Receipt
  <2> QED BY <1>1, <2>1, <2>2, NoMarkets
          DEF Attempt, Receipt, StateMaps, AgeMaps, AnyMarket, TypeOK, Bookmaker
<1>4. IntentOf(a) \in [id : Id, command : Command, sport : Sport, tags : SUBSET Event, ceiling : Nat]
  <2>1. a.id \in Id
    BY <1>1, <1>2 DEF Id
  <2> QED BY <1>1, <1>2, <2>1, Costs DEF IntentOf, Receipt
<1>5. HistoryIsChained => CoreChained(receipts, a) /\ AdditionalChained(receipts, a)
  <2>1. Authorises(parent, cmd[o])
    BY DEF Announce
  <2> HIDE DEF a
  <2> QED BY <1>1, <1>2, <1>3, <2>1, ParentChains
<1> HIDE DEF a
<1>6. TypeOK'
  BY <1>1, <1>3, <1>4 DEF TypeOK, Places
<1>7. IsFiniteSet(intents')
  BY <1>1, FS_AddElement DEF IInv
<1>8. cmd'[o] = a /\ Known' \subseteq Known \cup {a}
  BY <1>1 DEF TypeOK, Known, UnderWay
<1>9. HistoryIsChained => Chained'
  BY <1>1, <1>5, <1>8 DEF IInv, Chained, CoreChained, AdditionalChained
<1>10. /\ \A r \in receipts : r.id # attempts + 1
       /\ \A q \in sent : q.id # attempts + 1
       /\ \A p \in Operator : UnderWay(p) => cmd[p].id # attempts + 1
  <2>1. attempts + 1 \in Id /\ attempts + 1 \notin 1..attempts
    BY <1>1 DEF Id
  <2> QED BY <2>1 DEF IInv, Drawn, Owned
<1>11. ASSUME NEW p \in Operator PROVE Owned(p)'
  <2>1. CASE p = o
    BY <1>1, <1>2, <1>8, <1>10, <2>1 DEF Owned, UnderWay, TypeOK
  <2>2. CASE p # o
    <3>1. Owned(p) /\ place'[p] = place[p] /\ cmd'[p] = cmd[p]
      BY <1>1, <2>2 DEF IInv, TypeOK
    <3> QED BY <1>1, <1>2, <1>8, <1>10, <2>2, <3>1 DEF Owned, UnderWay, TypeOK
  <2> QED BY <2>1, <2>2
<1>12. Drawn' /\ Traced'
  BY <1>1 DEF IInv, Drawn, Traced
<1>13. Accounts'
  BY <1>1, <1>2, <1>8, <1>10 DEF IInv, Accounts, AccountsFor
<1> QED BY <1>6, <1>7, <1>9, <1>11, <1>12, <1>13 DEF IInv

(* Whatever the answer, the attempt accounts for its own request.          *)
LEMMA AnswerStep ==
    ASSUME IInv, NEW o \in Operator, NEW reply \in AnyReply, place[o] = "ready",
           cmd[o].command \in PaidCommand => SaysItsBill(reply),
           cmd' = [cmd EXCEPT ![o] = Fill(cmd[o], reply)],
           place' = [place EXCEPT ![o] = "answered"],
           \/ sent' = sent
           \/ sent' = sent \cup
                  {[id |-> cmd[o].id, command |-> cmd[o].command, charge |-> reply.charge]},
           UNCHANGED <<receipts, intents, now, saw, attempts, overlapped>>
    PROVE  IInv'
<1> DEFINE f == Fill(cmd[o], reply)
           q0 == [id |-> cmd[o].id, command |-> cmd[o].command, charge |-> reply.charge]
<1>1. /\ TypeOK /\ Owned(o) /\ UnderWay(o) /\ cmd[o] \in Receipt /\ cmd[o] \in Known
      /\ attempts \in Nat /\ attempts <= MaxAttempts /\ MaxAttempts \in Nat
  BY CampaignAssumption DEF IInv, TypeOK, UnderWay, Known
<1>2. /\ f \in Receipt /\ f.id = cmd[o].id /\ f.command = cmd[o].command
      /\ f.sport = cmd[o].sport /\ f.parent = cmd[o].parent /\ f.at = cmd[o].at
      /\ f.current = cmd[o].current
      /\ f.command \in PaidCommand => f.tags = cmd[o].tags
  BY <1>1, FillFacts DEF SaysItsBill
<1>3. AccountsFor(f, q0)
  <2>1. CASE cmd[o].command \notin PaidCommand
    BY <1>2, <2>1 DEF AccountsFor
  <2>2. CASE cmd[o].command \in PaidCommand
    <3>1. /\ f.attempts = reply.attempts /\ f.reached = reply.reached
          /\ f.status = reply.status /\ f.accounted = Accounted(reply, cmd[o].estimated)
      BY <1>1, FillFacts
    <3>2. reply.charge \in Nat /\ reply.reached \in BOOLEAN
      BY DEF AnyReply
    <3> QED BY <1>2, <2>2, <3>1, <3>2 DEF SaysItsBill, Accounted, AccountsFor, Unread
  <2> QED BY <2>1, <2>2
<1>4. q0 \in [id : Id, command : Command, charge : Nat] /\ q0.id = cmd[o].id
  BY <1>1 DEF Owned, Id, Receipt, AnyReply
<1> HIDE DEF f, q0
<1>5. cmd' = [cmd EXCEPT ![o] = f] /\ (sent' = sent \/ sent' = sent \cup {q0})
  BY DEF f, q0
<1>6. TypeOK'
  BY <1>1, <1>2, <1>4, <1>5 DEF TypeOK, Places
<1>7. cmd'[o] = f /\ Known' \subseteq Known \cup {f}
  BY <1>1, <1>5 DEF TypeOK, Known, UnderWay
<1>8. HistoryIsChained => CoreChained(receipts, f) /\ AdditionalChained(receipts, f)
  BY <1>1, <1>2 DEF IInv, Chained, CoreChained, AdditionalChained, PaidCommand
<1>9. HistoryIsChained => Chained'
  BY <1>7, <1>8 DEF IInv, Chained, CoreChained, AdditionalChained
<1>10. ASSUME NEW p \in Operator PROVE Owned(p)'
  <2>1. /\ Owned(p) /\ (p # o => place'[p] = place[p] /\ cmd'[p] = cmd[p])
        /\ place'[o] = "answered" /\ UnderWay(p)' = UnderWay(p)
    BY <1>1 DEF IInv, TypeOK, UnderWay
  <2>2. \A r \in Operator : UnderWay(r)' => UnderWay(r) /\ cmd'[r].id = cmd[r].id
    BY <1>1, <1>2, <1>5 DEF TypeOK, UnderWay
  <2>3. CASE p = o
    BY <1>1, <1>2, <1>7, <2>1, <2>2, <2>3 DEF Owned
  <2>4. CASE p # o
    BY <1>1, <1>4, <1>5, <2>1, <2>2, <2>4 DEF Owned
  <2> QED BY <2>3, <2>4
<1>11. Drawn'
  BY <1>1, <1>4, <1>5 DEF IInv, Drawn, Owned
<1>12. Traced'
  BY <1>1, <1>4, <1>5 DEF IInv, Traced, Owned
<1>13. Accounts'
  <2> SUFFICES ASSUME NEW a \in Known', NEW q \in sent', q.id = a.id
               PROVE  AccountsFor(a, q)
    BY DEF Accounts, AccountsFor
  <2>1. CASE a = f /\ q \in sent
    BY <1>1, <1>2, <2>1 DEF Owned
  <2>2. CASE a = f /\ q = q0
    BY <1>3, <2>2
  <2>3. CASE a # f /\ q \in sent
    BY <1>7, <2>3 DEF IInv, Accounts
  <2>4. CASE a # f /\ q = q0
    <3>1. a \in receipts \/ \E p \in Operator : p # o /\ UnderWay(p) /\ a = cmd[p]
      BY <1>1, <1>5, <1>7, <2>4 DEF Known, UnderWay, TypeOK
    <3> QED BY <1>1, <1>4, <2>4, <3>1 DEF Owned
  <2> QED BY <1>5, <2>1, <2>2, <2>3, <2>4
<1> QED BY <1>6, <1>9, <1>10, <1>11, <1>12, <1>13 DEF IInv

LEMMA RequestStep ==
    ASSUME IInv, NEW o \in Operator, NEW reply \in Replies(cmd[o]), Request(o, reply)
    PROVE  IInv'
<1>1. cmd[o] \in Receipt
  BY DEF IInv, TypeOK
<1>2. reply \in AnyReply /\ (cmd[o].command \in PaidCommand => SaysItsBill(reply))
  <2>1. CASE cmd[o].command = "discover"
    BY <1>1, <2>1, DiscoveryFacts DEF Replies, Receipt, PaidCommand
  <2>2. CASE cmd[o].command \in PaidCommand
    BY <2>2, PaidFacts DEF Replies, PaidCommand
  <2> QED BY <1>1, <2>1, <2>2 DEF Receipt, Command, PaidCommand
<1> QED BY <1>2, AnswerStep DEF Request, Go

LEMMA BudgetRefusesStep ==
    ASSUME IInv, NEW o \in Operator, BudgetRefuses(o)
    PROVE  IInv'
<1> DEFINE reply == Reply(cmd[o].command, "PROVIDER_UNAVAILABLE", 1, TRUE, Unread, 0)
<1>1. reply \in AnyReply /\ SaysItsBill(reply)
  BY NoMarkets DEF BudgetRefuses, Reply, AnyReply, Status, Bookmaker, SaysItsBill,
                   CostEstablishing, Mapping
<1>2. cmd' = [cmd EXCEPT ![o] = Fill(cmd[o], reply)]
  BY DEF BudgetRefuses
<1> HIDE DEF reply
<1> QED BY <1>1, <1>2, AnswerStep DEF BudgetRefuses, Go

LEMMA FileStep ==
    ASSUME IInv, NEW o \in Operator, File(o)
    PROVE  IInv'
<1>1. /\ TypeOK /\ Owned(o) /\ UnderWay(o) /\ cmd[o] \in Receipt /\ cmd[o] \in Known
      /\ place[o] = "answered" /\ place' = [place EXCEPT ![o] = "filed"]
      /\ receipts' = receipts \cup {cmd[o]}
      /\ UNCHANGED <<intents, now, saw, cmd, attempts, sent, overlapped>>
  BY DEF IInv, TypeOK, File, Go, UnderWay, Known
<1>2. TypeOK'
  BY <1>1 DEF TypeOK, Places
<1>3. Known' \subseteq Known /\ receipts \subseteq receipts'
  BY <1>1 DEF TypeOK, Known, UnderWay
<1>4. HistoryIsChained => Chained'
  BY <1>1, <1>3 DEF IInv, Chained, CoreChained, AdditionalChained
<1>5. ASSUME NEW p \in Operator PROVE Owned(p)'
  <2>1. Owned(p) /\ UnderWay(p)' = UnderWay(p) /\ (p # o => place'[p] = place[p])
    BY <1>1 DEF IInv, TypeOK, UnderWay
  <2>2. \A r \in Operator : UnderWay(r)' = UnderWay(r)
    BY <1>1 DEF TypeOK, UnderWay
  <2>3. CASE p = o
    BY <1>1, <2>1, <2>2, <2>3 DEF Owned, TypeOK
  <2>4. CASE p # o
    BY <1>1, <2>1, <2>2, <2>4 DEF Owned
  <2> QED BY <2>3, <2>4
<1>6. Drawn' /\ Traced'
  BY <1>1 DEF IInv, Drawn, Traced, Owned
<1>7. Accounts'
  BY <1>1, <1>3 DEF IInv, Accounts, AccountsFor
<1> QED BY <1>1, <1>2, <1>4, <1>5, <1>6, <1>7 DEF IInv

-------------------------------------------------------------------------------
(* The invariant, and what follows from it.                                *)

LEMMA Initially ==
    ASSUME Init
    PROVE  IInv
<1>1. TypeOK
  <2>1. 0 \in 0..MaxTime /\ 0 \in 0..MaxAttempts /\ History \subseteq Receipt
    BY CampaignAssumption
  <2> QED BY <2>1, NoCommand DEF Init, TypeOK, Places
<1>2. IsFiniteSet(intents)
  BY FS_EmptySet DEF Init
<1>3. Known = History
  BY DEF Init, Known, UnderWay
<1>4. HistoryIsChained => Chained
  BY <1>3 DEF Init, Chained, HistoryIsChained
<1>5. \A o \in Operator : Owned(o)
  BY DEF Init, Owned, UnderWay
<1>6. Drawn /\ Traced /\ Accounts
  BY CampaignAssumption DEF Init, Drawn, Traced, Accounts
<1> QED BY <1>1, <1>2, <1>4, <1>5, <1>6 DEF IInv

LEMMA Inductive ==
    ASSUME IInv, [Next]_vars
    PROVE  IInv'
<1>1. CASE UNCHANGED vars
  BY <1>1 DEF vars, IInv, TypeOK, Chained, CoreChained, AdditionalChained, Known, UnderWay,
       Owned, Drawn, Traced, Accounts, AccountsFor
<1>2. ASSUME NEW o \in Operator, Step(o)
      PROVE  IInv'
  <2>1. ASSUME NEW s \in Sport, Preflight(o, "discover", s, {})
        PROVE  IInv'
    BY <2>1, PreflightStep DEF Command
  <2>2. ASSUME NEW s \in Sport, NEW c \in PaidCommand, NEW e \in Event,
               Preflight(o, c, s, {e})
        PROVE  IInv'
    <3>1. c \in Command /\ {e} \in SUBSET Event
      BY DEF Command, PaidCommand
    <3> QED BY <2>2, <3>1, PreflightStep
  <2> QED BY <1>2, <2>1, <2>2, AuditStep, AnnounceStep, RequestStep, BudgetRefusesStep,
             FileStep, ResolveStep, StopStep DEF Step
<1> QED BY <1>1, <1>2, ReconcileStep, TickStep DEF Next

LEMMA ChainShown ==
    ASSUME IInv, HistoryIsChained
    PROVE  ChainHolds
<1>1. ASSUME NEW a \in receipts \cup
                 {cmd[o] : o \in {p \in Operator : place[p] \in {"ready", "answered", "filed"}}}
      PROVE  AdditionalChained(receipts, a)
  BY DEF IInv, Chained, Known, UnderWay
<1> QED BY <1>1 DEF ChainHolds, AdditionalChained

(* The invariant holds in every state.                                     *)
THEOREM CampaignInvariance == Spec => []IInv
BY Initially, Inductive, PTL DEF Spec

(* The receipts, the intents and the commands keep their types, and every  *)
(* receipt the fields the readings of Qualification look at.               *)
THEOREM CampaignTypes == Spec => []TypeOK
<1>1. IInv => TypeOK
  BY DEF IInv
<1> QED BY <1>1, CampaignInvariance, PTL

(* Five credits are spent only on an event a free discovery had listed at  *)
(* nil cost and a one-credit call had mapped, each less than a TTL before  *)
(* the next, however many operators race (load_parent, _check_discovery,   *)
(* _check_core), if the receipts already on disk were chained alike.       *)
THEOREM FiveCreditsAreChained ==
    ASSUME HistoryIsChained
    PROVE  Spec => []ChainHolds
<1>1. IInv => ChainHolds
  BY ChainShown
<1> QED BY <1>1, CampaignInvariance, PTL

-------------------------------------------------------------------------------
(***************************************************************************)
(* Commands run one by one stay inside the manifest, for any competitions, *)
(* limits and answers: the guard of a command refuses exactly what the     *)
(* count of the receipts would later call a conflict.  The guard reads the *)
(* receipts long before the command files its own, so the invariant        *)
(* carries what it read to the moment of filing.                           *)
(***************************************************************************)

(* What the guard found is still so: nothing failed, and the campaign      *)
(* authorises this attempt.  The events a discovery lists are not tested.  *)
Fits(rs, a) ==
    /\ Failed(rs) = {}
    /\ Authorised(rs, a.command, a.sport, IF a.command = "discover" THEN {} ELSE a.tags)

Latest(rs, a) == \A r \in Mine(rs) : r.at <= a.at

Alone == \A o, p \in Operator : o # p => place[o] = "idle" \/ place[p] = "idle"

Carries(o) ==
    /\ place[o] = "audited" => saw[o] = receipts
    /\ place[o] \in {"cleared", "ready", "answered"} => Fits(receipts, cmd[o])
    /\ place[o] \in {"ready", "answered"} => Latest(receipts, cmd[o])

ManifestInv ==
    /\ IsFiniteSet(receipts)
    /\ \A r \in Mine(receipts) : r.at <= now
    /\ \A o \in Operator : cmd[o].at <= now
    /\ ~overlapped =>
           /\ ~CampaignConflict(receipts)
           /\ Alone
           /\ \A o \in Operator : Carries(o)

-------------------------------------------------------------------------------
(* One receipt more.                                                       *)

LEMMA Limits ==
    /\ CorePerFamily \in Nat
    /\ \A c \in Command : Limit(c) \in Nat
<1>1. IsFiniteSet(Sport) /\ IsFiniteSet(Soccer)
  BY QualificationAssumption, FS_Subset DEF Sport
<1>2. IsFiniteSet(Family)
  <2>1. IsFiniteSet({Soccer}) /\ IsFiniteSet({Tennis})
    BY FS_Singleton
  <2>2. IsFiniteSet({Soccer} \cup {Tennis})
    BY <2>1, FS_Union
  <2>3. Family \subseteq {Soccer} \cup {Tennis}
    BY DEF Family
  <2> QED BY <2>2, <2>3, FS_Subset
<1>3. Cardinality(Sport) \in Nat /\ Cardinality(Soccer) \in Nat /\ Cardinality(Family) \in Nat
  BY <1>1, <1>2, FS_CardinalityType
<1> QED BY <1>3, QualificationAssumption DEF Limit, Command

(* A finite set of fewer than n elements, and one more.                    *)
LEMMA OneMore ==
    ASSUME NEW S, IsFiniteSet(S), NEW x, NEW T \in SUBSET (S \cup {x}), NEW n \in Nat,
           Cardinality(S) < n
    PROVE  Cardinality(T) <= n
<1>1. /\ IsFiniteSet(S \cup {x}) /\ Cardinality(S) \in Nat
      /\ Cardinality(S \cup {x}) <= Cardinality(S) + 1
  BY FS_AddElement, FS_CardinalityType
<1>2. /\ Cardinality(T) <= Cardinality(S \cup {x})
      /\ Cardinality(T) \in Nat /\ Cardinality(S \cup {x}) \in Nat
  BY <1>1, FS_Subset, FS_CardinalityType
<1> QED BY <1>1, <1>2

LEMMA FilingFits ==
    ASSUME NEW rs, IsFiniteSet(rs), \A r \in rs : r.at \in Int,
           NEW a, a.command \in Command, a.current, a.at \in Int,
           ~CampaignConflict(rs), Fits(rs, a), Latest(rs, a)
    PROVE  ~CampaignConflict(rs \cup {a})
<1> DEFINE new == rs \cup {a}
           tags == IF a.command = "discover" THEN {} ELSE a.tags
<1>1. /\ Mine(new) = Mine(rs) \cup {a}
      /\ \A c : Of(new, c) \subseteq Of(rs, c) \cup {a}
      /\ \A c : Of(rs, c) \subseteq Of(new, c)
      /\ \A c : c # a.command => Of(new, c) = Of(rs, c)
      /\ \A c : \A r \in Of(new, c) : r \in Of(rs, c) \/ (r = a /\ c = a.command)
      /\ \A c : IsFiniteSet(Of(rs, c))
  <2>1. \A c : Of(rs, c) \subseteq rs
    BY DEF Of, Mine
  <2>2. \A c : IsFiniteSet(Of(rs, c))
    BY <2>1, FS_Subset
  <2> QED BY <2>2 DEF Of, Mine
<1>2. Failed(rs) = {} /\ Authorised(rs, a.command, a.sport, tags)
  BY DEF Fits
<1> HIDE DEF new
<1>3. \A r \in Mine(new) : r.sport \in Scopes(r.command)
  BY <1>1, <1>2 DEF CampaignConflict, Authorised
<1>4. \A r, q \in Of(new, "discover") : r # q => r.sport # q.sport
  BY <1>1, <1>2 DEF CampaignConflict, Authorised
<1>5. \A r \in Of(new, "core") : Cardinality(CoreOf(new, r.sport)) <= CorePerFamily
  <2> SUFFICES ASSUME NEW r \in Of(new, "core")
               PROVE  Cardinality(CoreOf(new, r.sport)) <= CorePerFamily
    OBVIOUS
  <2>1. CASE a.command = "core" /\ FamilyOf(r.sport) = FamilyOf(a.sport)
    <3>1. CoreOf(new, r.sport) \subseteq CoreOf(rs, a.sport) \cup {a}
      BY <1>1, <2>1 DEF CoreOf
    <3>2. CoreOf(rs, a.sport) \subseteq Of(rs, "core")
      BY DEF CoreOf
    <3>3. IsFiniteSet(CoreOf(rs, a.sport)) /\ Cardinality(CoreOf(rs, a.sport)) < CorePerFamily
      BY <1>1, <1>2, <2>1, <3>2, FS_Subset DEF Authorised
    <3> QED BY <3>1, <3>3, OneMore, Limits
  <2>2. CASE ~(a.command = "core" /\ FamilyOf(r.sport) = FamilyOf(a.sport))
    <3>1. r \in Of(rs, "core")
      BY <1>1, <2>2
    <3>2. CoreOf(new, r.sport) \subseteq CoreOf(rs, r.sport)
      <4> SUFFICES ASSUME NEW x \in CoreOf(new, r.sport) PROVE x \in CoreOf(rs, r.sport)
        OBVIOUS
      <4>1. x \in Of(new, "core") /\ x # a
        BY <2>2, <1>1 DEF CoreOf, Of
      <4> QED BY <1>1, <4>1 DEF CoreOf
    <3>3. CoreOf(rs, r.sport) \subseteq CoreOf(new, r.sport)
      BY <1>1 DEF CoreOf
    <3>4. r \in Of(rs, "core") /\ CoreOf(new, r.sport) = CoreOf(rs, r.sport)
      BY <3>1, <3>2, <3>3
    <3>5. CoreOf(rs, r.sport) \subseteq Of(rs, "core")
      BY DEF CoreOf
    <3>6. Cardinality(CoreOf(rs, r.sport)) \in Nat
      BY <1>1, <3>5, FS_Subset, FS_CardinalityType
    <3> QED BY <3>4, <3>6, Limits DEF CampaignConflict
  <2> QED BY <2>1, <2>2
<1>6. \A r \in Of(new, "additional") : Cardinality(AdditionalOf(new, r.sport)) <= 1
  <2> SUFFICES ASSUME NEW r \in Of(new, "additional")
               PROVE  Cardinality(AdditionalOf(new, r.sport)) <= 1
    OBVIOUS
  <2>1. CASE a.command = "additional" /\ r.sport = a.sport
    <3>1. AdditionalOf(new, r.sport) \subseteq AdditionalOf(rs, a.sport) \cup {a}
      BY <1>1, <2>1 DEF AdditionalOf
    <3>2. AdditionalOf(rs, a.sport) = {}
      BY <1>2, <2>1 DEF Authorised
    <3> QED BY <3>1, <3>2, OneMore, FS_EmptySet
  <2>2. CASE ~(a.command = "additional" /\ r.sport = a.sport)
    <3>1. r \in Of(rs, "additional")
      BY <1>1, <2>2
    <3>2. AdditionalOf(new, r.sport) \subseteq AdditionalOf(rs, r.sport)
      <4> SUFFICES ASSUME NEW x \in AdditionalOf(new, r.sport) PROVE x \in AdditionalOf(rs, r.sport)
        OBVIOUS
      <4>1. x \in Of(new, "additional") /\ x # a
        BY <2>2, <1>1 DEF AdditionalOf, Of
      <4> QED BY <1>1, <4>1 DEF AdditionalOf
    <3>3. AdditionalOf(rs, r.sport) \subseteq AdditionalOf(new, r.sport)
      BY <1>1 DEF AdditionalOf
    <3>4. r \in Of(rs, "additional") /\ AdditionalOf(new, r.sport) = AdditionalOf(rs, r.sport)
      BY <3>1, <3>2, <3>3
    <3>5. AdditionalOf(rs, r.sport) \subseteq Of(rs, "additional")
      BY DEF AdditionalOf
    <3>6. Cardinality(AdditionalOf(rs, r.sport)) \in Nat
      BY <1>1, <3>5, FS_Subset, FS_CardinalityType
    <3> QED BY <3>4, <3>6 DEF CampaignConflict
  <2> QED BY <2>1, <2>2
<1>7. \A r, q \in Mine(new) :
          r # q /\ r.command = q.command /\ r.command \in PaidCommand => r.tags \cap q.tags = {}
  <2>1. a.command \in PaidCommand =>
            \A r \in Mine(rs) : r.command = a.command => a.tags \cap r.tags = {}
    BY <1>2 DEF Authorised, Used, Of, PaidCommand
  <2> QED BY <1>1, <2>1 DEF CampaignConflict
<1>8. \A f \in Failed(new), r \in Mine(new) : ~(r.at > f.at)
  <2>1. \A f \in Failed(new) : f = a
    BY <1>1, <1>2 DEF Failed
  <2>2. \A r \in Mine(new) : r.at \in Int /\ r.at <= a.at
    BY <1>1 DEF Latest, Mine
  <2> QED BY <2>1, <2>2
<1>9. \A c \in Command : Cardinality(Of(new, c)) <= Limit(c)
  <2> SUFFICES ASSUME NEW c \in Command PROVE Cardinality(Of(new, c)) <= Limit(c)
    OBVIOUS
  <2>1. CASE c = a.command
    BY <1>1, <1>2, <2>1, OneMore, Limits DEF Authorised
  <2>2. CASE c # a.command
    <3>1. Cardinality(Of(rs, c)) \in Nat
      BY <1>1, FS_CardinalityType
    <3> QED BY <1>1, <2>2, <3>1, Limits DEF CampaignConflict
  <2> QED BY <2>1, <2>2
<1>10. \A c : Of(new, c) \in SUBSET (Of(rs, c) \cup {a})
  BY <1>1
<1>11. \A s : Cardinality(CoreOf(new, s)) \in Nat /\ Cardinality(AdditionalOf(new, s)) \in Nat
  <2>1. IsFiniteSet(new)
    BY FS_AddElement DEF new
  <2>2. \A s : CoreOf(new, s) \subseteq new /\ AdditionalOf(new, s) \subseteq new
    BY DEF CoreOf, AdditionalOf, Of, Mine
  <2> QED BY <2>1, <2>2, FS_Subset, FS_CardinalityType
<1>12. \A c : Cardinality(Of(new, c)) \in Nat
  <2>1. \A c : IsFiniteSet(Of(rs, c) \cup {a})
    BY <1>1, FS_AddElement
  <2> QED BY <1>10, <2>1, FS_Subset, FS_CardinalityType
<1>13. ~CampaignConflict(new)
  <2>1. ~\E r \in Of(new, "core") : Cardinality(CoreOf(new, r.sport)) > CorePerFamily
    BY <1>5, <1>11, Limits
  <2>2. ~\E r \in Of(new, "additional") : Cardinality(AdditionalOf(new, r.sport)) > 1
    BY <1>6, <1>11
  <2>3. ~\E c \in Command : Cardinality(Of(new, c)) > Limit(c)
    BY <1>9, <1>12, Limits
  <2> QED BY <1>3, <1>4, <1>7, <1>8, <2>1, <2>2, <2>3 DEF CampaignConflict
<1> QED BY <1>13 DEF new

-------------------------------------------------------------------------------
(* One command under way: the others are idle, and stay so.                *)

LEMMA OthersIdle ==
    ASSUME ManifestInv, ~overlapped, NEW o \in Operator, place[o] # "idle"
    PROVE  \A p \in Operator : p # o => place[p] = "idle"
BY DEF ManifestInv, Alone

LEMMA StillAlone ==
    ASSUME TypeOK, NEW o \in Operator, \A p \in Operator : p # o => place[p] = "idle",
           NEW q, place' = [place EXCEPT ![o] = q], Carries(o)'
    PROVE  Alone' /\ \A p \in Operator : Carries(p)'
<1>1. \A p \in Operator : p # o => place'[p] = "idle"
  BY DEF TypeOK
<1>2. \A p \in Operator : p # o => Carries(p)'
  BY <1>1 DEF Carries
<1> QED BY <1>1, <1>2 DEF Alone

(* A command that moves leaves the receipts and the clock alone.           *)
LEMMA MoveKeeps ==
    ASSUME ManifestInv, TypeOK, NEW o \in Operator, NEW q,
           place' = [place EXCEPT ![o] = q], UNCHANGED <<receipts, now>>,
           NEW b, cmd' = [cmd EXCEPT ![o] = b], b.at <= now,
           ~overlapped' => /\ ~overlapped /\ Carries(o)'
                           /\ \A p \in Operator : p # o => place[p] = "idle"
    PROVE  ManifestInv'
<1>1. /\ IsFiniteSet(receipts') /\ \A r \in Mine(receipts') : r.at <= now'
      /\ \A p \in Operator : cmd'[p].at <= now'
  BY DEF ManifestInv, TypeOK
<1>2. ASSUME ~overlapped'
      PROVE  ~CampaignConflict(receipts') /\ Alone' /\ \A p \in Operator : Carries(p)'
  <2>1. ~CampaignConflict(receipts')
    BY <1>2 DEF ManifestInv
  <2> QED BY <1>2, <2>1, StillAlone
<1> QED BY <1>1, <1>2 DEF ManifestInv

LEMMA AuditKeeps ==
    ASSUME IInv, ManifestInv, NEW o \in Operator, Audit(o)
    PROVE  ManifestInv'
<1>1. TypeOK /\ place' = [place EXCEPT ![o] = "audited"] /\ UNCHANGED <<receipts, now>>
  BY DEF IInv, Audit, Go
<1>2. ~overlapped' => ~overlapped /\ \A p \in Operator : p # o => place[p] = "idle"
  BY DEF Audit
<1>3. Carries(o)'
  BY <1>1 DEF Audit, TypeOK, Carries
<1>4. cmd' = [cmd EXCEPT ![o] = cmd[o]] /\ cmd[o].at <= now
  BY <1>1 DEF Audit, TypeOK, ManifestInv
<1> QED BY <1>1, <1>2, <1>3, <1>4, MoveKeeps

(* The guard: what it read is still there.                                 *)
LEMMA PreflightKeeps ==
    ASSUME IInv, ManifestInv, NEW o \in Operator, NEW c \in Command, NEW s \in Sport,
           NEW tags \in SUBSET Event, c = "discover" => tags = {}, Preflight(o, c, s, tags)
    PROVE  ManifestInv'
<1> DEFINE asked == [NoAttempt EXCEPT !.command = c, !.sport = s, !.tags = tags]
<1>1. asked.command = c /\ asked.sport = s /\ asked.tags = tags /\ asked.at = 0
  BY DEF NoAttempt
<1> HIDE DEF asked
<1>2. /\ place' = [place EXCEPT ![o] = "cleared"] /\ cmd' = [cmd EXCEPT ![o] = asked]
      /\ UNCHANGED <<receipts, now, overlapped>> /\ place[o] = "audited"
      /\ TypeOK /\ 0 <= now
  BY DEF Preflight, Go, asked, IInv, TypeOK
<1>3. place'[o] = "cleared" /\ cmd'[o] = asked
  BY <1>2 DEF TypeOK
<1>4. ASSUME ~overlapped PROVE Fits(receipts, asked)
  <2>1. saw[o] = receipts
    BY <1>2, <1>4 DEF ManifestInv, Carries
  <2>2. Failed(receipts) = {}
    BY <2>1 DEF Preflight, Stopped, CampaignState
  <2>3. Authorised(receipts, c, s, tags)
    BY <2>1 DEF Preflight
  <2> QED BY <1>1, <2>2, <2>3 DEF Fits
<1>5. ~overlapped => Carries(o)'
  BY <1>2, <1>3, <1>4 DEF Carries
<1> QED BY <1>1, <1>2, <1>5, OthersIdle, MoveKeeps

LEMMA AnnounceKeeps ==
    ASSUME IInv, ManifestInv, NEW o \in Operator,
           NEW parent \in {NoReceipt} \cup {r.id : r \in receipts}, Announce(o, parent)
    PROVE  ManifestInv'
<1> DEFINE a == Attempt(cmd[o].command, cmd[o].sport, cmd[o].tags, parent)
<1>1. /\ a.command = cmd[o].command /\ a.sport = cmd[o].sport
      /\ a.tags = cmd[o].tags /\ a.at = now
  BY DEF Attempt
<1>2. cmd' = [cmd EXCEPT ![o] = a]
  BY DEF Announce
<1> HIDE DEF a
<1>3. /\ place' = [place EXCEPT ![o] = "ready"]
      /\ UNCHANGED <<receipts, now, overlapped>> /\ place[o] = "cleared"
      /\ TypeOK /\ now \in Int
  BY DEF Announce, Go, IInv, TypeOK
<1>4. place'[o] = "ready" /\ cmd'[o] = a
  BY <1>2, <1>3 DEF TypeOK
<1>5. ~overlapped => Fits(receipts, a)
  BY <1>1, <1>3 DEF ManifestInv, Carries, Fits
<1>6. Latest(receipts, a)
  BY <1>1 DEF ManifestInv, Latest
<1>7. ~overlapped => Carries(o)'
  BY <1>3, <1>4, <1>5, <1>6 DEF Carries
<1>8. a.at <= now
  BY <1>1, <1>3
<1>9. ~overlapped => \A p \in Operator : p # o => place[p] = "idle"
  BY <1>3, OthersIdle
<1> QED BY <1>2, <1>3, <1>7, <1>8, <1>9, MoveKeeps

(* An answer adds no event to a paid attempt, and none is tested of a      *)
(* discovery.                                                              *)
LEMMA AnswerKeeps ==
    ASSUME IInv, ManifestInv, NEW o \in Operator, NEW reply \in AnyReply, place[o] = "ready",
           cmd[o].command \in PaidCommand => SaysItsBill(reply),
           cmd' = [cmd EXCEPT ![o] = Fill(cmd[o], reply)],
           place' = [place EXCEPT ![o] = "answered"],
           UNCHANGED <<receipts, now, overlapped>>
    PROVE  ManifestInv'
<1> DEFINE f == Fill(cmd[o], reply)
<1>1. TypeOK /\ cmd[o] \in Receipt
  BY DEF IInv, TypeOK
<1>2. /\ f.command = cmd[o].command /\ f.sport = cmd[o].sport /\ f.at = cmd[o].at
      /\ f.tags = cmd[o].tags \cup reply.listed /\ cmd[o].command \in Command
  BY <1>1, FillFacts DEF Receipt
<1>3. cmd' = [cmd EXCEPT ![o] = f] /\ cmd[o].at <= now
  BY DEF ManifestInv
<1> HIDE DEF f
<1>4. cmd[o].command = "discover" \/ f.tags = cmd[o].tags
  BY <1>2 DEF SaysItsBill, Command, PaidCommand
<1>5. place'[o] = "answered" /\ cmd'[o] = f
  BY <1>1, <1>3 DEF TypeOK
<1>6. ~overlapped => Fits(receipts, f) /\ Latest(receipts, f)
  <2>1. ~overlapped => Fits(receipts, cmd[o]) /\ Latest(receipts, cmd[o])
    BY DEF ManifestInv, Carries
  <2> QED BY <1>2, <1>4, <2>1 DEF Fits, Latest
<1>7. ~overlapped => Carries(o)'
  BY <1>5, <1>6 DEF Carries
<1> QED BY <1>1, <1>2, <1>3, <1>7, OthersIdle, MoveKeeps

LEMMA RequestKeeps ==
    ASSUME IInv, ManifestInv, NEW o \in Operator, NEW reply \in Replies(cmd[o]),
           Request(o, reply)
    PROVE  ManifestInv'
<1>1. cmd[o] \in Receipt
  BY DEF IInv, TypeOK
<1>2. reply \in AnyReply /\ (cmd[o].command \in PaidCommand => SaysItsBill(reply))
  <2>1. CASE cmd[o].command = "discover"
    BY <1>1, <2>1, DiscoveryFacts DEF Replies, Receipt, PaidCommand
  <2>2. CASE cmd[o].command \in PaidCommand
    BY <2>2, PaidFacts DEF Replies, PaidCommand
  <2> QED BY <1>1, <2>1, <2>2 DEF Receipt, Command, PaidCommand
<1> QED BY <1>2, AnswerKeeps DEF Request, Go

LEMMA BudgetRefusesKeeps ==
    ASSUME IInv, ManifestInv, NEW o \in Operator, BudgetRefuses(o)
    PROVE  ManifestInv'
<1> DEFINE reply == Reply(cmd[o].command, "PROVIDER_UNAVAILABLE", 1, TRUE, Unread, 0)
<1>1. reply \in AnyReply /\ SaysItsBill(reply)
  BY NoMarkets DEF BudgetRefuses, Reply, AnyReply, Status, Bookmaker, SaysItsBill,
                   CostEstablishing, Mapping
<1>2. cmd' = [cmd EXCEPT ![o] = Fill(cmd[o], reply)]
  BY DEF BudgetRefuses
<1> HIDE DEF reply
<1> QED BY <1>1, <1>2, AnswerKeeps DEF BudgetRefuses, Go

(* The only step that adds a receipt.                                      *)
LEMMA FileKeeps ==
    ASSUME IInv, ManifestInv, NEW o \in Operator, File(o)
    PROVE  ManifestInv'
<1>1. /\ TypeOK /\ Owned(o) /\ UnderWay(o) /\ cmd[o] \in Receipt /\ cmd[o].current
      /\ place[o] = "answered" /\ place' = [place EXCEPT ![o] = "filed"]
      /\ receipts' = receipts \cup {cmd[o]}
      /\ UNCHANGED <<now, cmd, overlapped>>
  BY DEF IInv, TypeOK, File, Go, UnderWay, Owned
<1>2. IsFiniteSet(receipts')
  BY <1>1, FS_AddElement DEF ManifestInv
<1>3. /\ \A r \in Mine(receipts') : r.at <= now'
      /\ \A p \in Operator : cmd'[p].at <= now'
  BY <1>1 DEF ManifestInv, Mine
<1>4. ASSUME ~overlapped'
      PROVE  ~CampaignConflict(receipts') /\ Alone' /\ \A p \in Operator : Carries(p)'
  <2>1. Carries(o)'
    BY <1>1 DEF TypeOK, Carries
  <2>2. Alone' /\ \A p \in Operator : Carries(p)'
    BY <1>1, <1>4, <2>1, OthersIdle, StillAlone
  <2>3. /\ IsFiniteSet(receipts) /\ ~CampaignConflict(receipts)
        /\ Fits(receipts, cmd[o]) /\ Latest(receipts, cmd[o])
    BY <1>1, <1>4 DEF ManifestInv, Carries
  <2>4. \A r \in receipts : r.at \in Int
    BY <1>1 DEF TypeOK, Receipt
  <2>5. cmd[o].command \in Command /\ cmd[o].at \in Int
    BY <1>1 DEF Receipt
  <2>6. ~CampaignConflict(receipts')
    BY <1>1, <2>3, <2>4, <2>5, FilingFits
  <2> QED BY <2>2, <2>6
<1> QED BY <1>2, <1>3, <1>4 DEF ManifestInv

LEMMA ForgetKeeps ==
    ASSUME IInv, ManifestInv, NEW o \in Operator, place[o] # "idle", Forget(o),
           UNCHANGED <<receipts, now, overlapped>>
    PROVE  ManifestInv'
<1>1. TypeOK /\ place' = [place EXCEPT ![o] = "idle"] /\ Carries(o)'
  BY DEF IInv, TypeOK, Forget, Go, Carries
<1>2. cmd' = [cmd EXCEPT ![o] = NoAttempt] /\ NoAttempt.at <= now
  BY DEF IInv, TypeOK, Forget, NoAttempt
<1> QED BY <1>1, <1>2, OthersIdle, MoveKeeps

LEMMA TickKeeps ==
    ASSUME IInv, ManifestInv, Tick
    PROVE  ManifestInv'
<1>1. /\ now \in Int /\ now' = now + 1 /\ \A r \in receipts : r.at \in Int
      /\ \A o \in Operator : cmd[o].at \in Int
      /\ UNCHANGED <<receipts, place, saw, cmd, overlapped>>
  BY DEF IInv, TypeOK, Receipt, Tick
<1>2. /\ \A r \in Mine(receipts') : r.at <= now'
      /\ \A o \in Operator : cmd'[o].at <= now'
  BY <1>1 DEF ManifestInv, Mine
<1> QED BY <1>1, <1>2 DEF ManifestInv, Alone, Carries

-------------------------------------------------------------------------------

(* No receipt of this protocol to begin with.                              *)
LEMMA StartsWithin ==
    ASSUME Init
    PROVE  ManifestInv
<1>1. receipts = History /\ IsFiniteSet(History) /\ Mine(receipts) = {}
  BY CampaignAssumption DEF Init, Mine
<1>2. /\ Failed(receipts) = {} /\ \A c : Of(receipts, c) = {}
  BY <1>1 DEF Failed, Of
<1>3. \A c \in Command : Cardinality(Of(receipts, c)) <= Limit(c)
  BY <1>2, FS_EmptySet, Limits
<1>4. ~\E c \in Command : Cardinality(Of(receipts, c)) > Limit(c)
  <2>1. \A c \in Command : Cardinality(Of(receipts, c)) = 0
    BY <1>2, FS_EmptySet
  <2> QED BY <2>1, Limits
<1>5. ~CampaignConflict(receipts)
  BY <1>1, <1>2, <1>4 DEF CampaignConflict
<1>6. Alone /\ \A o \in Operator : Carries(o) /\ cmd[o].at <= now
  BY DEF Init, Alone, Carries, NoAttempt
<1> QED BY <1>1, <1>5, <1>6 DEF ManifestInv

LEMMA StaysWithin ==
    ASSUME IInv, ManifestInv, [Next]_vars
    PROVE  ManifestInv'
<1>1. CASE UNCHANGED vars
  BY <1>1 DEF vars, ManifestInv, Alone, Carries
<1>2. CASE Reconcile
  BY <1>2 DEF Reconcile, ManifestInv, Alone, Carries
<1>3. ASSUME NEW o \in Operator, Step(o)
      PROVE  ManifestInv'
  <2>1. ASSUME NEW s \in Sport, Preflight(o, "discover", s, {})
        PROVE  ManifestInv'
    BY <2>1, PreflightKeeps DEF Command
  <2>2. ASSUME NEW s \in Sport, NEW c \in PaidCommand, NEW e \in Event,
               Preflight(o, c, s, {e})
        PROVE  ManifestInv'
    <3>1. c \in Command /\ c # "discover" /\ {e} \in SUBSET Event
      BY DEF Command, PaidCommand
    <3> QED BY <2>2, <3>1, PreflightKeeps
  <2>3. ASSUME Resolve(o) \/ Stop(o)
        PROVE  ManifestInv'
    BY <2>3, ForgetKeeps DEF Resolve, Stop
  <2> QED BY <1>3, <2>1, <2>2, <2>3, AuditKeeps, AnnounceKeeps, RequestKeeps,
             BudgetRefusesKeeps, FileKeeps DEF Step
<1> QED BY <1>1, <1>2, <1>3, TickKeeps DEF Next

(* As long as no two commands were under way at once, the corpus never     *)
(* contradicts the manifest: campaign_preflight refuses, from the receipts *)
(* it audited, exactly what campaign_conflicts would later report, whatever *)
(* was answered, however late, and whatever died on the way.               *)
THEOREM CommandsOneByOneNeverConflict == Spec => []OneByOneNeverConflicts
<1>1. ManifestInv => OneByOneNeverConflicts
  BY DEF ManifestInv, OneByOneNeverConflicts
<1> QED BY <1>1, StartsWithin, StaysWithin, CampaignInvariance, PTL DEF Spec

-------------------------------------------------------------------------------
(***************************************************************************)
(* What "activation status" says, for any receipts and requests: an        *)
(* attempt tells its request's bill, or at least its ceiling, and one      *)
(* billed past its ceiling is filed as a cost failure that no reading can  *)
(* reject.                                                                 *)
(***************************************************************************)

CostFailure == {"COST_MISMATCH", "COST_UNVERIFIED"}

(* What every answer says of its bill, if the ceiling is the estimate.     *)
Bills(c, reply) ==
    /\ reply.attempts >= 1
    /\ \/ reply.charge <= Accounted(reply, Ceiling(c))
       \/ Ceiling(c) <= Accounted(reply, Ceiling(c))
    /\ reply.charge > Ceiling(c) =>
           /\ reply.status \in CostFailure /\ reply.reached
           /\ reply.states = EmptyMap /\ reply.ages = EmptyMap

Tells(a, q) ==
    /\ a.attempts >= 1
    /\ q.charge <= a.accounted \/ Ceiling(q.command) <= a.accounted
    /\ q.charge > Ceiling(q.command) =>
           /\ a.status \in CostFailure
           /\ q.command \in PaidCommand => a.reached /\ ~Rejected(a)

(* A paid command names its event before it asks anything, and estimates   *)
(* its ceiling.                                                            *)
Prepared(o) ==
    /\ place[o] = "cleared" \/ UnderWay(o) =>
           (cmd[o].command \in PaidCommand => cmd[o].tags # {})
    /\ UnderWay(o) => cmd[o].estimated = Ceiling(cmd[o].command)

Told ==
    /\ IsFiniteSet(sent)
    /\ \A q, r \in sent : q.id = r.id => q = r
    /\ \A o \in Operator : Prepared(o)
    /\ \A a \in Known : \A q \in sent : q.id = a.id => Tells(a, q)

LEMMA FailuresBill ==
    ASSUME NEW c \in Command, NEW n \in 1..2, NEW before \in {Unread, 0},
           before = Unread \/ Ceiling(c) = 0, NEW r \in Failures(c, n, before)
    PROVE  Bills(c, r)
<1>1. Ceiling(c) \in Nat
  BY Costs
<1>2. CASE r = Reply(c, "PROVIDER_UNAVAILABLE", n, FALSE, before, 0)
  BY <1>1, <1>2 DEF Reply, Bills, Accounted, Unread
<1>3. CASE \E f \in [status : {"PROVIDER_UNAVAILABLE", "AUTH_FAILED"}, charge : {0, Ceiling(c)}] :
               r = Reply(c, f.status, n, TRUE, before, f.charge)
  BY <1>1, <1>3 DEF Reply, Bills, Accounted, Unread
<1>4. CASE r = Reply(c, "COST_MISMATCH", n, TRUE, Ceiling(c) + 1, Ceiling(c) + 1)
  BY <1>1, <1>4 DEF Reply, Bills, Accounted, Unread, CostFailure
<1>5. CASE \E k \in {0, Ceiling(c), Ceiling(c) + 1} :
               r = Reply(c, "COST_UNVERIFIED", n, TRUE, Unread, k)
  BY <1>1, <1>5 DEF Reply, Bills, Accounted, Unread, CostFailure
<1> QED BY <1>2, <1>3, <1>4, <1>5, Zenon DEF Failures

LEMMA DiscoveryBills ==
    ASSUME NEW s \in Sport, NEW r \in DiscoveryReplies(s)
    PROVE  Bills("discover", r)
<1>0. "discover" \in Command /\ Ceiling("discover") = 0
  BY FS_EmptySet DEF Command, Ceiling, Requested
<1>1. CASE r \in Failures("discover", 1, Unread) \cup Failures("discover", 2, 0)
  BY <1>0, <1>1, FailuresBill
<1>2. CASE \E n \in 1..2 : r = Reply("discover", "COVERAGE_MISSING", n, TRUE, 0, 0)
  BY <1>0, <1>2 DEF Reply, Bills, Accounted, Unread
<1>3. CASE \E es \in SUBSET Listing[s] :
               r = [Reply("discover", "DISCOVERY_VERIFIED", 2, TRUE, 0, 0) EXCEPT !.listed = es]
  <2>1. /\ r.attempts = 2 /\ r.charge = 0 /\ r.reached = TRUE /\ r.observed = 0
    BY <1>3 DEF Reply
  <2> QED BY <1>0, <2>1 DEF Bills, Accounted, Unread
<1> QED BY <1>1, <1>2, <1>3 DEF DiscoveryReplies

LEMMA PaidBills ==
    ASSUME NEW c \in PaidCommand, NEW r \in PaidReplies(c)
    PROVE  Bills(c, r)
<1>0. c \in Command /\ Ceiling(c) \in Nat
  BY Costs DEF PaidCommand, Command
<1>1. CASE r \in Failures(c, 1, Unread)
  BY <1>0, <1>1, FailuresBill
<1>2. CASE /\ r.attempts = 1 /\ r.charge \in Nat /\ r.charge <= Ceiling(c)
           /\ r.observed = r.charge /\ r.reached = TRUE
  BY <1>0, <1>2 DEF Bills, Accounted, Unread
<1>3. CASE \E f \in [status : {"COVERAGE_MISSING", "SCHEMA_MISMATCH"}, charge : {0, Ceiling(c)}] :
               r = Reply(c, f.status, 1, TRUE, f.charge, f.charge)
  BY <1>0, <1>2, <1>3 DEF Reply
<1>4. CASE \E k \in {0, Ceiling(c)} :
               r = [Reply(c, "COVERAGE_MISSING", 1, TRUE, k, k) EXCEPT
                      !.states = [m \in Requested(c) |-> "NOT_EVALUATED"]]
  BY <1>0, <1>2, <1>4 DEF Reply
<1>5. CASE \E q \in Quoted(c) :
               r = [Reply(c, ClassifiedStatus(c, q.states), 1, TRUE, Ceiling(c), Ceiling(c)) EXCEPT
                      !.book = "OBSERVED", !.states = q.states, !.ages = q.ages,
                      !.rejections = \E m \in Requested(c) : q.states[m] = "REJECTED"]
  <2>1. PICK q \in Quoted(c), some \in BOOLEAN :
               r = [Reply(c, ClassifiedStatus(c, q.states), 1, TRUE, Ceiling(c), Ceiling(c)) EXCEPT
                      !.book = "OBSERVED", !.states = q.states, !.ages = q.ages,
                      !.rejections = some]
    BY <1>5
  <2> DEFINE status == ClassifiedStatus(c, q.states)
  <2> HIDE DEF status
  <2>2. r = [Reply(c, status, 1, TRUE, Ceiling(c), Ceiling(c)) EXCEPT
                      !.book = "OBSERVED", !.states = q.states, !.ages = q.ages,
                      !.rejections = some]
    BY <2>1 DEF status
  <2> DEFINE cost == Ceiling(c)
  <2> HIDE DEF cost
  <2>3. r = [Reply(c, status, 1, TRUE, cost, cost) EXCEPT
                      !.book = "OBSERVED", !.states = q.states, !.ages = q.ages,
                      !.rejections = some]
    BY <2>2 DEF cost
  <2>4. r = [status |-> status, attempts |-> 1, reached |-> TRUE, observed |-> cost,
             charge |-> cost, listed |-> {}, states |-> q.states, book |-> "OBSERVED",
             ages |-> q.ages, rejections |-> some]
    BY <2>3, Zenon DEF Reply
  <2>5. /\ r.attempts = 1 /\ r.charge = cost /\ r.observed = cost /\ r.reached = TRUE
    BY <2>4
  <2>6. cost \in Nat /\ cost = Ceiling(c)
    BY <1>0 DEF cost
  <2>7. /\ r.attempts = 1 /\ r.charge \in Nat /\ r.charge <= Ceiling(c)
        /\ r.observed = r.charge /\ r.reached = TRUE
    BY <2>5, <2>6
  <2> QED BY <1>2, <2>7
<1> QED BY <1>1, <1>3, <1>4, <1>5, Zenon DEF PaidReplies

LEMMA ReplyBills ==
    ASSUME NEW a \in Receipt, NEW reply \in Replies(a)
    PROVE  /\ reply \in AnyReply /\ Bills(a.command, reply)
           /\ a.command \in PaidCommand => SaysItsBill(reply)
<1>1. CASE a.command = "discover"
  BY <1>1, DiscoveryFacts, DiscoveryBills DEF Replies, Receipt, PaidCommand
<1>2. CASE a.command \in PaidCommand
  BY <1>2, PaidFacts, PaidBills DEF Replies, PaidCommand
<1> QED BY <1>1, <1>2 DEF Receipt, Command, PaidCommand

(* A cost failure that names its event is never rejected.                  *)
LEMMA CostFailureStands ==
    ASSUME NEW a \in Receipt, a.command \in PaidCommand, a.status \in CostFailure,
           a.attempts >= 1, a.reached, a.tags # {}, a.states = EmptyMap, a.ages = EmptyMap,
           a.selections = 0, a.observed # Unread => a.accounted = a.observed
    PROVE  ~Rejected(a)
<1>1. DOMAIN EmptyMap = {} /\ Mapped(a) = {}
  BY DEF EmptyMap, Mapped, In
<1>2. "UNCLASSIFIED" \in Phases(a.command, a.status)
  BY DEF Phases, PaidCommand, CostFailure
<1>3. /\ a.command \in Command /\ a.estimated \in Nat /\ a.accounted \in Nat
      /\ a.observed \in Nat \cup {Unread} /\ a.attempts \in 0..2
  BY DEF Receipt
<1>4. CommonContract(a)
  BY <1>3 DEF CommonContract, Counted, Unread
<1>5. PhaseContract(a, "UNCLASSIFIED")
  BY <1>1 DEF PhaseContract, NoMarketClassified
<1>6. WellFormed(a)
  BY <1>2, <1>4, <1>5 DEF WellFormed
<1>7. a.status \notin Live
  BY DEF Live, Mapping, CostFailure
<1>8. ProviderWasReached(a)
  BY <1>3 DEF ProviderWasReached, AttemptState
<1>9. ~Contradictory(a)
  BY <1>1, <1>3, <1>7, <1>8 DEF Contradictory
<1> QED BY <1>2, <1>6, <1>9 DEF Rejected

LEMMA AnswerTells ==
    ASSUME NEW a \in Receipt, NEW reply \in AnyReply, Bills(a.command, reply),
           a.command \in PaidCommand => a.tags # {}, a.estimated = Ceiling(a.command)
    PROVE  Tells(Fill(a, reply), [id |-> a.id, command |-> a.command, charge |-> reply.charge])
<1> DEFINE f == Fill(a, reply)
           q == [id |-> a.id, command |-> a.command, charge |-> reply.charge]
<1>1. /\ f \in Receipt /\ f.command = a.command /\ f.tags = a.tags \cup reply.listed
      /\ f.status = reply.status /\ f.attempts = reply.attempts /\ f.reached = reply.reached
      /\ f.observed = reply.observed /\ f.accounted = Accounted(reply, Ceiling(a.command))
  BY FillFacts
<1>2. f.states = reply.states /\ f.ages = reply.ages
  BY DEF Fill
<1>3. f.selections = Cardinality({m \in DOMAIN reply.states : reply.states[m] = "MAPPED"})
  BY DEF Fill
<1>4. q.command = a.command /\ q.charge = reply.charge
  OBVIOUS
<1> HIDE DEF f, q
<1>5. ASSUME q.charge > Ceiling(q.command), q.command \in PaidCommand
      PROVE  f.reached /\ ~Rejected(f)
  <2>1. /\ f.status \in CostFailure /\ f.reached
        /\ f.states = EmptyMap /\ f.ages = EmptyMap
    BY <1>1, <1>2, <1>4, <1>5 DEF Bills
  <2>2. f.selections = 0
    <3>1. {m \in DOMAIN reply.states : reply.states[m] = "MAPPED"} = {}
      BY <1>2, <2>1 DEF EmptyMap
    <3> QED BY <1>3, <3>1, FS_EmptySet
  <2>3. f.observed # Unread => f.accounted = f.observed
    BY <1>1 DEF Accounted
  <2>4. f.tags # {} /\ f.attempts >= 1 /\ f.command \in PaidCommand
    BY <1>1, <1>4, <1>5 DEF Bills
  <2> QED BY <1>1, <2>1, <2>2, <2>3, <2>4, CostFailureStands
<1>6. Tells(f, q)
  BY <1>1, <1>4, <1>5 DEF Tells, Bills
<1> QED BY <1>6 DEF f, q

-------------------------------------------------------------------------------

(* A step that sends nothing.                                              *)
LEMMA SilentTells ==
    ASSUME Told, sent' = sent, \A o \in Operator : Prepared(o)',
           \A a \in Known' : a \in Known \/ \A q \in sent : q.id # a.id
    PROVE  Told'
BY DEF Told, Tells

(* A command that begins, ends or stands still.                            *)
LEMMA QuietTells ==
    ASSUME IInv, Told, UNCHANGED <<receipts, sent>>,
           \A o \in Operator : place'[o] \in {"cleared", "ready", "answered", "filed"} =>
               place'[o] = place[o] /\ cmd'[o] = cmd[o]
    PROVE  Told'
<1>1. Known' \subseteq Known
  BY DEF Known, UnderWay
<1>2. \A o \in Operator : Prepared(o)'
  BY DEF Told, Prepared, UnderWay
<1> QED BY <1>1, <1>2, SilentTells

LEMMA PreflightTells ==
    ASSUME IInv, Told, NEW o \in Operator, NEW c, NEW s, NEW tags,
           c \in PaidCommand => tags # {}, Preflight(o, c, s, tags)
    PROVE  Told'
<1> DEFINE asked == [NoAttempt EXCEPT !.command = c, !.sport = s, !.tags = tags]
<1>1. asked.command = c /\ asked.tags = tags
  BY DEF NoAttempt
<1> HIDE DEF asked
<1>2. /\ place' = [place EXCEPT ![o] = "cleared"] /\ cmd' = [cmd EXCEPT ![o] = asked]
      /\ UNCHANGED <<receipts, sent>> /\ TypeOK
  BY DEF Preflight, Go, asked, IInv
<1>3. \A p \in Operator : Prepared(p)'
  BY <1>1, <1>2 DEF Told, Prepared, UnderWay, TypeOK
<1>4. Known' \subseteq Known
  BY <1>2 DEF Known, UnderWay, TypeOK
<1> QED BY <1>2, <1>3, <1>4, SilentTells

LEMMA AnnounceTells ==
    ASSUME IInv, Told, NEW o \in Operator, NEW parent, Announce(o, parent)
    PROVE  Told'
<1> DEFINE a == Attempt(cmd[o].command, cmd[o].sport, cmd[o].tags, parent)
<1>1. /\ a.id = attempts + 1 /\ a.command = cmd[o].command /\ a.tags = cmd[o].tags
      /\ a.estimated = Ceiling(cmd[o].command)
  BY DEF Attempt
<1> HIDE DEF a
<1>2. /\ place' = [place EXCEPT ![o] = "ready"] /\ cmd' = [cmd EXCEPT ![o] = a]
      /\ UNCHANGED <<receipts, sent>> /\ TypeOK /\ place[o] = "cleared"
  BY DEF Announce, Go, a, IInv
<1>3. \A p \in Operator : Prepared(p)'
  BY <1>1, <1>2 DEF Told, Prepared, UnderWay, TypeOK
<1>4. Known' \subseteq Known \cup {a}
  BY <1>2 DEF Known, UnderWay, TypeOK
<1>5. \A q \in sent : q.id # a.id
  <2>1. attempts \in Nat
    BY <1>2, CampaignAssumption DEF TypeOK
  <2> QED BY <1>1, <2>1 DEF IInv, Drawn
<1> QED BY <1>2, <1>3, <1>4, <1>5, SilentTells

LEMMA FileTells ==
    ASSUME IInv, Told, NEW o \in Operator, File(o)
    PROVE  Told'
<1>1. /\ place' = [place EXCEPT ![o] = "filed"] /\ receipts' = receipts \cup {cmd[o]}
      /\ UNCHANGED <<cmd, sent>> /\ TypeOK /\ place[o] = "answered" /\ UnderWay(o)
  BY DEF File, Go, IInv, UnderWay
<1>2. \A p \in Operator : Prepared(p)'
  BY <1>1 DEF Told, Prepared, UnderWay, TypeOK
<1>3. Known' \subseteq Known
  BY <1>1 DEF Known, UnderWay, TypeOK
<1> QED BY <1>1, <1>2, <1>3, SilentTells

(* What an answered command keeps.                                         *)
LEMMA AnsweredPrepared ==
    ASSUME IInv, Told, NEW o \in Operator, NEW reply \in AnyReply, place[o] = "ready",
           cmd' = [cmd EXCEPT ![o] = Fill(cmd[o], reply)],
           place' = [place EXCEPT ![o] = "answered"], receipts' = receipts
    PROVE  /\ \A p \in Operator : Prepared(p)'
           /\ \A a \in Known' : (a = Fill(cmd[o], reply) /\ cmd[o].id = a.id)
                                  \/ (a \in Known /\ a.id # cmd[o].id)
<1> DEFINE f == Fill(cmd[o], reply)
<1>1. TypeOK /\ cmd[o] \in Receipt /\ Owned(o) /\ UnderWay(o)
  BY DEF IInv, TypeOK, UnderWay
<1>2. /\ f.id = cmd[o].id /\ f.command = cmd[o].command /\ f.tags = cmd[o].tags \cup reply.listed
      /\ f.estimated = cmd[o].estimated
  BY <1>1, FillFacts DEF Fill
<1> HIDE DEF f
<1>3. cmd' = [cmd EXCEPT ![o] = f]
  BY DEF f
<1>4. \A p \in Operator : Prepared(p)'
  BY <1>1, <1>2, <1>3 DEF Told, Prepared, UnderWay, TypeOK
<1>5. ASSUME NEW a \in Known', a # f
      PROVE  a \in Known /\ a.id # cmd[o].id
  <2>1. a \in receipts \/ \E p \in Operator : p # o /\ UnderWay(p) /\ a = cmd[p]
    BY <1>1, <1>3, <1>5 DEF Known, UnderWay, TypeOK
  <2> QED BY <1>1, <2>1 DEF Owned, Known
<1>6. \A a \in Known' : (a = f /\ cmd[o].id = a.id) \/ (a \in Known /\ a.id # cmd[o].id)
  BY <1>2, <1>5
<1> QED BY <1>4, <1>6 DEF f

LEMMA BudgetRefusesTells ==
    ASSUME IInv, Told, NEW o \in Operator, BudgetRefuses(o)
    PROVE  Told'
<1> DEFINE reply == Reply(cmd[o].command, "PROVIDER_UNAVAILABLE", 1, TRUE, Unread, 0)
<1>1. reply \in AnyReply
  BY NoMarkets DEF BudgetRefuses, Reply, AnyReply, Status, Bookmaker
<1>2. /\ cmd' = [cmd EXCEPT ![o] = Fill(cmd[o], reply)]
      /\ place[o] = "ready" /\ place' = [place EXCEPT ![o] = "answered"]
      /\ UNCHANGED <<receipts, sent>>
  BY DEF BudgetRefuses, Go
<1> HIDE DEF reply
<1>3. /\ \A p \in Operator : Prepared(p)'
      /\ \A a \in Known' : a.id = cmd[o].id \/ a \in Known
  BY <1>1, <1>2, AnsweredPrepared
<1>4. \A q \in sent : q.id # cmd[o].id
  BY <1>2 DEF IInv, Owned, UnderWay
<1> QED BY <1>2, <1>3, <1>4, SilentTells

LEMMA RequestTells ==
    ASSUME IInv, Told, NEW o \in Operator, NEW reply \in Replies(cmd[o]), Request(o, reply)
    PROVE  Told'
<1> DEFINE f == Fill(cmd[o], reply)
           q0 == [id |-> cmd[o].id, command |-> cmd[o].command, charge |-> reply.charge]
<1>1. TypeOK /\ cmd[o] \in Receipt /\ Owned(o) /\ UnderWay(o) /\ Prepared(o)
  BY DEF IInv, TypeOK, UnderWay, Request, Told
<1>2. reply \in AnyReply /\ Bills(cmd[o].command, reply)
  BY <1>1, ReplyBills
<1>3. Tells(f, q0)
  BY <1>1, <1>2, AnswerTells DEF Prepared
<1>4. /\ cmd' = [cmd EXCEPT ![o] = f] /\ sent' = sent \cup {q0}
      /\ place[o] = "ready" /\ place' = [place EXCEPT ![o] = "answered"]
      /\ UNCHANGED <<receipts>>
  BY DEF Request, Go
<1>5. /\ \A p \in Operator : Prepared(p)'
      /\ \A a \in Known' : a = f \/ (a \in Known /\ a.id # cmd[o].id)
  BY <1>2, <1>4, AnsweredPrepared
<1>6. f.id = cmd[o].id
  BY <1>1, <1>2, FillFacts
<1>7. q0.id = cmd[o].id
  OBVIOUS
<1> HIDE DEF f, q0
<1>8. \A q \in sent : q.id # cmd[o].id
  BY <1>1, <1>4 DEF Owned
<1>9. IsFiniteSet(sent')
  BY <1>4, FS_AddElement DEF Told
<1>10. \A q, r \in sent' : q.id = r.id => q = r
  BY <1>4, <1>7, <1>8 DEF Told
<1>11. ASSUME NEW a \in Known', NEW q \in sent', q.id = a.id
       PROVE  Tells(a, q)
  <2>1. CASE q = q0
    BY <1>3, <1>5, <1>7, <1>11, <2>1
  <2>2. CASE q \in sent
    BY <1>5, <1>6, <1>8, <1>11, <2>2 DEF Told
  <2> QED BY <1>4, <2>1, <2>2
<1> QED BY <1>5, <1>9, <1>10, <1>11 DEF Told, Tells

-------------------------------------------------------------------------------

LEMMA StartsTold ==
    ASSUME Init
    PROVE  Told
<1>1. IsFiniteSet(sent) /\ sent = {}
  BY FS_EmptySet DEF Init
<1>2. \A o \in Operator : Prepared(o)
  BY DEF Init, Prepared, UnderWay
<1> QED BY <1>1, <1>2 DEF Told

LEMMA StaysTold ==
    ASSUME IInv, Told, [Next]_vars
    PROVE  Told'
<1>1. CASE UNCHANGED vars
  BY <1>1, QuietTells DEF vars
<1>2. CASE Reconcile \/ Tick
  BY <1>2, QuietTells DEF Reconcile, Tick
<1>3. ASSUME NEW o \in Operator, Step(o)
      PROVE  Told'
  <2>1. ASSUME Audit(o) \/ Resolve(o) \/ Stop(o)
        PROVE  Told'
    BY <2>1, QuietTells DEF Audit, Resolve, Stop, Forget, Go, IInv, TypeOK
  <2>2. ASSUME NEW s \in Sport, Preflight(o, "discover", s, {})
        PROVE  Told'
    BY <2>2, PreflightTells DEF PaidCommand
  <2>3. ASSUME NEW s \in Sport, NEW c \in PaidCommand, NEW e \in Event,
               Preflight(o, c, s, {e})
        PROVE  Told'
    BY <2>3, PreflightTells
  <2> QED BY <1>3, <2>1, <2>2, <2>3, AnnounceTells, RequestTells, BudgetRefusesTells,
             FileTells DEF Step
<1> QED BY <1>1, <1>2, <1>3 DEF Next

-------------------------------------------------------------------------------
(* What the report then says.                                              *)

(* With no intent left, every request has a receipt that tells its bill.   *)
LEMMA EachTold ==
    ASSUME IInv, Told, NEW q \in sent, \E r \in receipts : r.id = q.id
    PROVE  \E r \in receipts : /\ r.id = q.id /\ r \in Receipt /\ r.current
                             /\ AccountsFor(r, q) /\ Tells(r, q)
<1>1. PICK r \in receipts : r.id = q.id
  OBVIOUS
<1>2. r \in Receipt /\ r.current /\ r \in Known
  BY <1>1 DEF IInv, TypeOK, Drawn, Known
<1> QED BY <1>1, <1>2 DEF IInv, Accounts, Told

Charge == [q \in sent |-> Min({q.charge, Ceiling(q.command)})]

LEMMA ChargeFacts ==
    ASSUME TypeOK, NEW q \in sent
    PROVE  /\ Charge[q] \in Nat /\ Charge[q] <= q.charge /\ Charge[q] <= Ceiling(q.command)
<1> DEFINE a == q.charge
           b == Ceiling(q.command)
           m == Min({a, b})
<1>1. a \in Nat /\ b \in Nat
  BY Costs DEF TypeOK
<1> HIDE DEF a, b
<1>2. \E x \in {a, b} : \A y \in {a, b} : x <= y
  BY <1>1
<1>3. m \in {a, b} /\ m <= a /\ m <= b
  BY <1>2 DEF Min
<1>4. Charge[q] = m
  BY DEF Charge, a, b
<1> HIDE DEF m
<1> QED BY <1>1, <1>3, <1>4 DEF a, b

LEMMA AlwaysTold == Spec => []Told
BY StartsTold, StaysTold, CampaignInvariance, PTL DEF Spec

LEMMA AlwaysWithin == Spec => []ManifestInv
BY StartsWithin, StaysWithin, CampaignInvariance, PTL DEF Spec

-------------------------------------------------------------------------------
(***************************************************************************)
(* What commands run one by one can spend: before each leaves, every       *)
(* request that left has a receipt the guard counted, none of them a       *)
(* failure, so a request billed past its ceiling is the last one.          *)
(***************************************************************************)

AskedBy(qs, c) == {q \in qs : q.command = c}
Over(qs) == {q \in qs : q.charge > Ceiling(q.command)}
Receipted(o) ==
    place[o] \in {"cleared", "ready"} => \A q \in sent : \E r \in receipts : r.id = q.id

SpendInv ==
    ~overlapped =>
        /\ \A o \in Operator : Receipted(o)
        /\ \A c \in Command : Cardinality(AskedBy(sent, c)) <= Limit(c)
        /\ Cardinality(Over(sent)) <= 1

(* The guard refuses while an intent is outstanding.                       *)
LEMMA ClearedReceipted ==
    ASSUME IInv, NEW o, NEW c, NEW s, NEW tags, Preflight(o, c, s, tags), NEW q \in sent
    PROVE  \E r \in receipts : r.id = q.id
<1>1. ~(Outstanding > 0)
  BY DEF Preflight, Stopped, CampaignState
<1>2. intents = {}
  <2>1. Cardinality(intents) \in Nat /\ (Cardinality(intents) = 0 <=> intents = {})
    BY FS_CardinalityType, FS_EmptySet DEF IInv
  <2> QED BY <1>1, <2>1 DEF Outstanding
<1> QED BY <1>2 DEF IInv, Traced

LEMMA SilentSpends ==
    ASSUME SpendInv, sent' = sent, receipts \subseteq receipts', ~overlapped' => ~overlapped,
           ~overlapped' => \A o \in Operator :
               \/ place'[o] \notin {"cleared", "ready"}
               \/ place[o] \in {"cleared", "ready"}
               \/ \A q \in sent : \E r \in receipts : r.id = q.id
    PROVE  SpendInv'
<1> SUFFICES ASSUME ~overlapped'
             PROVE  /\ \A o \in Operator : Receipted(o)'
                    /\ \A c \in Command : Cardinality(AskedBy(sent', c)) <= Limit(c)
                    /\ Cardinality(Over(sent')) <= 1
  BY DEF SpendInv, AskedBy, Over
<1>1. \A o \in Operator : Receipted(o)'
  BY DEF SpendInv, Receipted
<1> QED BY <1>1 DEF SpendInv

(* What was sent by one command has as many receipts of that command.      *)
LEMMA ReceiptsCount ==
    ASSUME IInv, Told, IsFiniteSet(receipts), NEW c \in Command,
           \A q \in sent : \E r \in receipts : r.id = q.id
    PROVE  /\ IsFiniteSet(AskedBy(sent, c)) /\ IsFiniteSet(Of(receipts, c))
           /\ Cardinality(AskedBy(sent, c)) <= Cardinality(Of(receipts, c))
<1> DEFINE S == AskedBy(sent, c)
           T == Of(receipts, c)
           j == [q \in S |-> CHOOSE r \in T : r.id = q.id]
<1>1. S \subseteq sent /\ T \subseteq receipts
  BY DEF AskedBy, Of, Mine
<1>2. IsFiniteSet(S) /\ IsFiniteSet(T)
  BY <1>1, FS_Subset DEF Told
<1>3. \A q \in S : \E r \in T : r.id = q.id
  <2> SUFFICES ASSUME NEW q \in S PROVE \E r \in T : r.id = q.id
    OBVIOUS
  <2>1. q \in sent /\ q.command = c
    BY DEF AskedBy
  <2>2. PICK r \in receipts : r.id = q.id /\ r.current /\ AccountsFor(r, q)
    BY <2>1, EachTold
  <2> QED BY <2>1, <2>2 DEF AccountsFor, Of, Mine
<1>4. \A q, r \in S : q.id = r.id => q = r
  BY <1>1 DEF Told
<1> HIDE DEF S, T
<1>5. \A q \in S : j[q] \in T /\ j[q].id = q.id
  BY <1>3
<1>6. j \in [S -> T]
  BY <1>5
<1> HIDE DEF j
<1>7. IsInjective(j)
  <2>1. DOMAIN j = S
    BY <1>6
  <2> QED BY <1>4, <1>5, <2>1 DEF IsInjective
<1>8. j \in Injection(S, T)
  BY <1>6, <1>7 DEF Injection
<1>9. Cardinality(S) <= Cardinality(T)
  BY <1>2, <1>8, FS_Injection
<1> QED BY <1>2, <1>9 DEF S, T

LEMMA RequestSpends ==
    ASSUME IInv, ManifestInv, Told, SpendInv, NEW o \in Operator,
           NEW reply \in Replies(cmd[o]), Request(o, reply)
    PROVE  SpendInv'
<1> DEFINE c0 == cmd[o].command
           q0 == [id |-> cmd[o].id, command |-> c0, charge |-> reply.charge]
<1>1. /\ sent' = sent \cup {q0} /\ place[o] = "ready"
      /\ place' = [place EXCEPT ![o] = "answered"] /\ UNCHANGED <<receipts, overlapped>>
      /\ TypeOK
  BY DEF Request, Go, IInv
<1>2. q0.command = c0 /\ c0 \in Command
  BY <1>1 DEF TypeOK, Receipt
<1> HIDE DEF q0, c0
<1> SUFFICES ASSUME ~overlapped
             PROVE  /\ \A p \in Operator : Receipted(p)'
                    /\ \A c \in Command : Cardinality(AskedBy(sent', c)) <= Limit(c)
                    /\ Cardinality(Over(sent')) <= 1
  BY <1>1 DEF SpendInv, AskedBy, Over
<1>3. \A q \in sent : \E r \in receipts : r.id = q.id
  BY <1>1 DEF SpendInv, Receipted
<1>4. IsFiniteSet(receipts) /\ Failed(receipts) = {} /\ Cardinality(Of(receipts, c0)) < Limit(c0)
  BY <1>1 DEF ManifestInv, Carries, Fits, Authorised, c0
<1>5. \A p \in Operator : Receipted(p)'
  <2>1. \A p \in Operator : p # o => place[p] = "idle"
    BY <1>1, OthersIdle
  <2> QED BY <1>1, <2>1 DEF TypeOK, Receipted
<1>6. ASSUME NEW c \in Command PROVE Cardinality(AskedBy(sent', c)) <= Limit(c)
  <2>1. /\ IsFiniteSet(AskedBy(sent, c)) /\ IsFiniteSet(Of(receipts, c))
        /\ Cardinality(AskedBy(sent, c)) <= Cardinality(Of(receipts, c))
    BY <1>3, <1>4, ReceiptsCount
  <2>2. CASE c = c0
    <3>1. AskedBy(sent', c) \in SUBSET (AskedBy(sent, c) \cup {q0})
      BY <1>1 DEF AskedBy
    <3>2. /\ Cardinality(AskedBy(sent, c)) \in Nat /\ Cardinality(Of(receipts, c)) \in Nat
          /\ Limit(c) \in Nat
      BY <2>1, FS_CardinalityType, Limits
    <3>3. Cardinality(AskedBy(sent, c)) < Limit(c)
      BY <1>4, <2>1, <2>2, <3>2
    <3> QED BY <2>1, <3>1, <3>2, <3>3, OneMore
  <2>3. CASE c # c0
    <3>1. AskedBy(sent', c) = AskedBy(sent, c)
      BY <1>1, <1>2, <2>3 DEF AskedBy
    <3> QED BY <3>1 DEF SpendInv
  <2> QED BY <2>2, <2>3
<1>7. Over(sent) = {}
  <2> SUFFICES ASSUME NEW q \in sent, q.charge > Ceiling(q.command) PROVE FALSE
    BY DEF Over
  <2>1. PICK r \in receipts : r \in Receipt /\ r.current /\ Tells(r, q)
    BY <1>3, EachTold
  <2>2. r.status \in CostFailure /\ r.command \in Command
    BY <2>1 DEF Tells, Receipt
  <2>3. r.status \notin Success(r.command)
    BY <2>2 DEF Success, Mapping, CostFailure, Command
  <2> QED BY <1>4, <2>1, <2>3 DEF Failed, Mine
<1>8. Cardinality(Over(sent')) <= 1
  <2>1. Over(sent') \in SUBSET ({} \cup {q0})
    BY <1>1, <1>7 DEF Over
  <2>2. IsFiniteSet({}) /\ Cardinality({}) = 0
    BY FS_EmptySet
  <2> QED BY <2>1, <2>2, OneMore
<1> QED BY <1>5, <1>6, <1>8

LEMMA StartsSpending ==
    ASSUME Init
    PROVE  SpendInv
<1>1. /\ \A c : AskedBy(sent, c) = {} /\ Over(sent) = {}
      /\ \A o \in Operator : Receipted(o)
  BY DEF Init, AskedBy, Over, Receipted
<1>2. \A c \in Command : Cardinality(AskedBy(sent, c)) = 0 /\ Limit(c) \in Nat
  BY <1>1, FS_EmptySet, Limits
<1>3. Cardinality(Over(sent)) = 0
  BY <1>1, FS_EmptySet
<1> QED BY <1>1, <1>2, <1>3 DEF SpendInv

LEMMA StaysSpending ==
    ASSUME IInv, ManifestInv, Told, SpendInv, [Next]_vars
    PROVE  SpendInv'
<1>1. CASE UNCHANGED vars \/ Reconcile \/ Tick
  BY <1>1, SilentSpends DEF vars, Reconcile, Tick
<1>2. ASSUME NEW o \in Operator, Step(o)
      PROVE  SpendInv'
  <2>0. TypeOK
    BY DEF IInv
  <2>1. ASSUME Audit(o) \/ Resolve(o) \/ Stop(o) \/ File(o) \/ BudgetRefuses(o)
        PROVE  SpendInv'
    BY <2>0, <2>1, SilentSpends
       DEF Audit, Resolve, Stop, Forget, File, BudgetRefuses, Go, TypeOK
  <2>2. ASSUME NEW c, NEW s, NEW tags, Preflight(o, c, s, tags)
        PROVE  SpendInv'
    <3>1. \A q \in sent : \E r \in receipts : r.id = q.id
      BY <2>2, ClearedReceipted
    <3>2. UNCHANGED <<sent, receipts, overlapped>>
      BY <2>2 DEF Preflight
    <3> QED BY <3>1, <3>2, SilentSpends
  <2>3. ASSUME NEW parent, Announce(o, parent)
        PROVE  SpendInv'
    BY <2>0, <2>3, SilentSpends DEF Announce, Go, TypeOK
  <2> QED BY <1>2, <2>1, <2>2, <2>3, RequestSpends DEF Step
<1> QED BY <1>1, <1>2 DEF Next

(* Each request counts for no more than its ceiling, and each ceiling for  *)
(* no more than the limit of its command.                                  *)
LEMMA BudgetSuffices ==
    ASSUME TypeOK, IsFiniteSet(sent),
           \A c \in Command : Cardinality(AskedBy(sent, c)) <= Limit(c)
    PROVE  WithinCeilings(sent) <= Budget
<1> DEFINE A(c) == AskedBy(sent, c)
<1>1. \A q \in sent : Charge[q] \in Nat /\ Charge[q] <= Ceiling(q.command)
  BY ChargeFacts
<1>2. \A c : IsFiniteSet(A(c)) /\ A(c) \subseteq sent
  <2>1. \A c : A(c) \subseteq sent
    BY DEF AskedBy
  <2> QED BY <2>1, FS_Subset
<1>3. ASSUME NEW c \in Command
      PROVE  /\ Total(Charge, A(c)) \in Int
             /\ Total(Charge, A(c)) <= Ceiling(c) * Cardinality(A(c))
  <2> DEFINE k == Ceiling(c)
             most == [q \in sent |-> k]
  <2>1. k \in Nat
    BY Costs
  <2>2. \A q \in A(c) : Charge[q] \in Int /\ most[q] \in Int /\ Charge[q] <= most[q] /\ most[q] = k
    BY <1>1, <2>1 DEF AskedBy
  <2>3. PICK S : S = A(c)
    OBVIOUS
  <2>4. IsFiniteSet(S)
    BY <1>2, <2>3
  <2>5. \A q \in S : Charge[q] \in Int /\ most[q] \in Int /\ Charge[q] <= most[q] /\ most[q] = k
    BY <2>2, <2>3
  <2> HIDE DEF most, k
  <2>6. Total(Charge, S) <= Total(most, S)
    BY ONLY <2>4, <2>5, SumAtMost
  <2>7. Total(most, S) = k * Cardinality(S)
    <3>1. k \in Int
      BY <2>1
    <3> QED BY ONLY <2>4, <2>5, <3>1, SumConstant
  <2>8. Total(Charge, S) \in Int
    BY ONLY <2>4, <2>5, SumRemove
  <2> QED BY <2>3, <2>6, <2>7, <2>8 DEF k
<1>4. sent = A("discover") \cup (A("core") \cup A("additional"))
  BY DEF AskedBy, TypeOK, Command
<1>5. /\ A("core") \cap A("additional") = {}
      /\ A("discover") \cap (A("core") \cup A("additional")) = {}
  BY DEF AskedBy
<1>6. \A c : \A q \in A(c) : Charge[q] \in Int
  BY <1>1, <1>2
<1> HIDE DEF A
<1>7. Total(Charge, A("core") \cup A("additional"))
          = Total(Charge, A("core")) + Total(Charge, A("additional"))
  <2>1. \A q \in A("core") \cup A("additional") : Charge[q] \in Int
    BY <1>6
  <2> QED BY <1>2, <1>5, <2>1, SumUnion
<1>8. Total(Charge, sent) = Total(Charge, A("discover")) + Total(Charge, A("core") \cup A("additional"))
  <2>1. \A q \in A("discover") \cup (A("core") \cup A("additional")) : Charge[q] \in Int
    BY <1>6
  <2>2. IsFiniteSet(A("core") \cup A("additional"))
    BY <1>2, FS_Union
  <2>3. Total(Charge, A("discover") \cup (A("core") \cup A("additional")))
            = Total(Charge, A("discover")) + Total(Charge, A("core") \cup A("additional"))
    BY <1>2, <1>5, <2>1, <2>2, SumUnion
  <2> QED BY <1>4, <2>3
<1>9. /\ Ceiling("discover") = 0 /\ Ceiling("core") = 1
      /\ Ceiling("additional") = Cardinality(AdditionalMarkets)
  BY FS_EmptySet, FS_Singleton DEF Ceiling, Requested
<1>10. /\ Limit("core") = CorePerFamily * Cardinality(Family)
       /\ Limit("additional") = Cardinality(Soccer)
  BY DEF Limit
<1>11. /\ Cardinality(A("discover")) \in Nat
       /\ Cardinality(A("core")) \in Nat /\ Cardinality(A("core")) <= Limit("core")
       /\ Cardinality(A("additional")) \in Nat
       /\ Cardinality(A("additional")) <= Limit("additional")
       /\ Limit("core") \in Nat /\ Limit("additional") \in Nat
  <2>1. \A c : Cardinality(A(c)) \in Nat
    BY <1>2, FS_CardinalityType
  <2> QED BY <2>1, Limits DEF A, Command
<1>12. Cardinality(AdditionalMarkets) \in Nat
  BY QualificationAssumption, FS_CardinalityType
<1>13. \A m, a, b \in Nat : a <= b => m * a <= m * b /\ m * a \in Nat /\ m * b \in Nat
  OBVIOUS
<1>14. /\ Cardinality(AdditionalMarkets) * Cardinality(A("additional"))
              <= Cardinality(AdditionalMarkets) * Cardinality(Soccer)
       /\ Cardinality(AdditionalMarkets) * Cardinality(A("additional")) \in Nat
       /\ Cardinality(AdditionalMarkets) * Cardinality(Soccer) \in Nat
  BY <1>10, <1>11, <1>12, <1>13
<1>15. Total(Charge, A("discover")) \in Int /\ Total(Charge, A("discover")) <= 0
  BY <1>3, <1>9, <1>11 DEF Command
<1>16. Total(Charge, A("core")) \in Int /\ Total(Charge, A("core")) <= Limit("core")
  BY <1>3, <1>9, <1>11 DEF Command
<1>17. /\ Total(Charge, A("additional")) \in Int
       /\ Total(Charge, A("additional"))
              <= Cardinality(AdditionalMarkets) * Cardinality(A("additional"))
  BY <1>3, <1>9 DEF Command
<1>18. WithinCeilings(sent) = Total(Charge, sent)
  BY DEF WithinCeilings, SumFunction, Total, Charge
<1>19. Budget = Limit("core") + Cardinality(AdditionalMarkets) * Cardinality(Soccer)
  BY <1>10 DEF Budget
<1> QED BY <1>7, <1>8, <1>11, <1>14, <1>15, <1>16, <1>17, <1>18, <1>19

(* As long as no two commands were under way at once, no more requests     *)
(* leave than the manifest authorises, at most one is billed past its      *)
(* ceiling, and the rest stays within the budget: campaign_preflight       *)
(* counts a receipt or meets an intent for every request that left, and    *)
(* stops for good at the first cost failure.                               *)
THEOREM TheSpendIsBounded == Spec => []SpendIsBounded
<1>1. IInv /\ Told /\ SpendInv => SpendIsBounded
  <2> SUFFICES ASSUME IInv, Told, SpendInv PROVE SpendIsBounded
    OBVIOUS
  <2> QED BY BudgetSuffices DEF SpendIsBounded, SpendInv, AskedBy, Over, IInv, Told
<1>2. Spec => []SpendInv
  BY StartsSpending, StaysSpending, CampaignInvariance, AlwaysWithin, AlwaysTold, PTL DEF Spec
<1> QED BY <1>1, <1>2, CampaignInvariance, AlwaysTold, PTL

-------------------------------------------------------------------------------
(***************************************************************************)
(* What a report says of the requests that were settled when it began, for *)
(* any number of them.  It reads the receipts first and the intents last,  *)
(* so the invariant carries a request from one reading to the other: its   *)
(* receipt was read, or it never has one and its intent stays.             *)
(***************************************************************************)

ReportInv ==
    /\ report.receipts \subseteq receipts /\ report.left \subseteq sent
    /\ \A q \in Settled :
           \/ \E r \in report.receipts : r.id = q.id
           \/ /\ \E i \in intents : i.id = q.id
              /\ \A r \in receipts : r.id # q.id
              /\ \A o \in Operator : UnderWay(o) => cmd[o].id # q.id

(* A report that stands still while the commands go on.                    *)
LEMMA ReportStands ==
    ASSUME ReportInv, report' = report, receipts \subseteq receipts', sent \subseteq sent',
           \A i \in intents : i \in intents' \/ \E r \in receipts : r.id = i.id,
           \A r \in receipts' : r \in receipts \/ \E o \in Operator : UnderWay(o) /\ cmd[o].id = r.id,
           \A o \in Operator : UnderWay(o)' =>
               \/ UnderWay(o) /\ cmd'[o].id = cmd[o].id
               \/ \A q \in sent : q.id # cmd'[o].id
    PROVE  ReportInv'
<1>1. Settled' = Settled /\ Settled \subseteq sent
  BY DEF Settled, ReportInv
<1>2. ASSUME NEW q \in Settled
      PROVE  \/ \E r \in report.receipts : r.id = q.id
             \/ /\ \E i \in intents' : i.id = q.id
                /\ \A r \in receipts' : r.id # q.id
                /\ \A o \in Operator : UnderWay(o)' => cmd'[o].id # q.id
  <2> SUFFICES ASSUME ~\E r \in report.receipts : r.id = q.id
               PROVE  /\ \E i \in intents' : i.id = q.id
                      /\ \A r \in receipts' : r.id # q.id
                      /\ \A o \in Operator : UnderWay(o)' => cmd'[o].id # q.id
    OBVIOUS
  <2>1. /\ \E i \in intents : i.id = q.id
        /\ \A r \in receipts : r.id # q.id
        /\ \A o \in Operator : UnderWay(o) => cmd[o].id # q.id
    BY DEF ReportInv
  <2>2. \E i \in intents' : i.id = q.id
    BY <2>1
  <2>3. \A r \in receipts' : r.id # q.id
    BY <2>1
  <2>4. \A o \in Operator : UnderWay(o)' => cmd'[o].id # q.id
    BY <1>1, <2>1
  <2> QED BY <2>2, <2>3, <2>4
<1>3. report.receipts \subseteq receipts' /\ report.left \subseteq sent'
  BY DEF ReportInv
<1> QED BY <1>1, <1>2, <1>3 DEF ReportInv

(* A request is settled when the receipts are read: nobody can file its    *)
(* receipt any more.                                                       *)
LEMMA AuditReports ==
    ASSUME IInv, AuditReceipts
    PROVE  ReportInv'
<1>1. /\ report'.receipts = receipts /\ report'.left = sent /\ report'.filing = Filing
      /\ UNCHANGED <<receipts, intents, place, cmd, sent>>
  BY DEF AuditReceipts, vars
<1>2. ASSUME NEW q \in sent \ Filing
      PROVE  \/ \E r \in receipts : r.id = q.id
             \/ /\ \E i \in intents : i.id = q.id
                /\ \A r \in receipts : r.id # q.id
                /\ \A o \in Operator : UnderWay(o) => cmd[o].id # q.id
  <2> SUFFICES ASSUME \A r \in receipts : r.id # q.id
               PROVE  /\ \E i \in intents : i.id = q.id
                      /\ \A o \in Operator : UnderWay(o) => cmd[o].id # q.id
    OBVIOUS
  <2>1. \E i \in intents : i.id = q.id
    BY DEF IInv, Traced
  <2>2. ASSUME NEW o \in Operator, UnderWay(o), cmd[o].id = q.id PROVE FALSE
    <3>1. place[o] # "answered"
      BY <2>2 DEF Filing
    <3>2. Owned(o)
      BY DEF IInv
    <3> QED BY <2>2, <3>1, <3>2 DEF Owned, UnderWay
  <2> QED BY <2>1, <2>2
<1>3. Settled' = sent \ Filing
  BY <1>1 DEF Settled
<1> QED BY <1>1, <1>2, <1>3 DEF ReportInv, UnderWay

(* What each step of the commands leaves of a report.                      *)
LEMMA StepReports ==
    ASSUME IInv, ReportInv, NEW o \in Operator, Step(o), report' = report
    PROVE  ReportInv'
<1>0. TypeOK
  BY DEF IInv
<1>1. ASSUME Audit(o) \/ Stop(o)
      PROVE  ReportInv'
  BY <1>0, <1>1, ReportStands DEF Audit, Stop, Forget, Go, UnderWay, TypeOK
<1>2. ASSUME NEW c, NEW s, NEW tags, Preflight(o, c, s, tags)
      PROVE  ReportInv'
  <2>1. /\ place' = [place EXCEPT ![o] = "cleared"]
        /\ \A p \in Operator : p # o => cmd'[p] = cmd[p]
        /\ UNCHANGED <<receipts, intents, sent>>
    BY <1>0, <1>2 DEF Preflight, Go, TypeOK
  <2> QED BY <1>0, <2>1, ReportStands DEF UnderWay, TypeOK
<1>3. ASSUME NEW parent, Announce(o, parent)
      PROVE  ReportInv'
  <2> DEFINE a == Attempt(cmd[o].command, cmd[o].sport, cmd[o].tags, parent)
  <2>1. a.id = attempts + 1
    BY DEF Attempt
  <2>2. /\ place' = [place EXCEPT ![o] = "ready"] /\ cmd' = [cmd EXCEPT ![o] = a]
        /\ intents \subseteq intents' /\ UNCHANGED <<receipts, sent>>
    BY <1>3 DEF Announce, Go
  <2> HIDE DEF a
  <2>3. \A q \in sent : q.id # a.id
    <3>1. attempts \in Nat
      BY <1>0, CampaignAssumption DEF TypeOK
    <3> QED BY <2>1, <3>1 DEF IInv, Drawn
  <2>4. \A p \in Operator : UnderWay(p)' =>
               \/ UnderWay(p) /\ cmd'[p].id = cmd[p].id
               \/ \A q \in sent : q.id # cmd'[p].id
    BY <1>0, <2>2, <2>3 DEF UnderWay, TypeOK
  <2> QED BY <2>2, <2>4, ReportStands
<1>4. ASSUME NEW reply, \/ Request(o, reply)
                        \/ /\ BudgetRefuses(o)
                           /\ reply = Reply(cmd[o].command, "PROVIDER_UNAVAILABLE", 1, TRUE, Unread, 0)
      PROVE  ReportInv'
  <2> DEFINE f == Fill(cmd[o], reply)
  <2>1. f.id = cmd[o].id
    BY DEF Fill
  <2>2. /\ place[o] = "ready" /\ place' = [place EXCEPT ![o] = "answered"]
        /\ cmd' = [cmd EXCEPT ![o] = f] /\ sent \subseteq sent' /\ UNCHANGED <<receipts, intents>>
    BY <1>4 DEF Request, BudgetRefuses, Go
  <2> HIDE DEF f
  <2>3. \A p \in Operator : UnderWay(p)' => UnderWay(p) /\ cmd'[p].id = cmd[p].id
    BY <1>0, <2>1, <2>2 DEF UnderWay, TypeOK
  <2> QED BY <2>2, <2>3, ReportStands
<1>5. ASSUME File(o)
      PROVE  ReportInv'
  <2>1. /\ place[o] = "answered" /\ place' = [place EXCEPT ![o] = "filed"]
        /\ receipts' = receipts \cup {cmd[o]} /\ UNCHANGED <<intents, cmd, sent>>
    BY <1>5 DEF File, Go
  <2>2. UnderWay(o) /\ \A p \in Operator : UnderWay(p)' => UnderWay(p) /\ cmd'[p].id = cmd[p].id
    BY <1>0, <2>1 DEF UnderWay, TypeOK
  <2> QED BY <2>1, <2>2, ReportStands
<1>6. ASSUME Resolve(o)
      PROVE  ReportInv'
  <2>1. cmd[o] \in receipts
    BY <1>6 DEF IInv, Owned, UnderWay, Resolve
  <2>2. /\ UNCHANGED <<receipts, sent>> /\ place' = [place EXCEPT ![o] = "idle"]
        /\ \A i \in intents : i \in intents' \/ \E r \in receipts : r.id = i.id
        /\ \A p \in Operator : p # o => cmd'[p] = cmd[p]
    BY <1>0, <1>6, <2>1 DEF Resolve, Forget, Go, TypeOK
  <2>3. \A p \in Operator : UnderWay(p)' => UnderWay(p) /\ cmd'[p].id = cmd[p].id
    BY <1>0, <2>2 DEF UnderWay, TypeOK
  <2> QED BY <2>2, <2>3, ReportStands
<1> QED BY <1>1, <1>2, <1>3, <1>4, <1>5, <1>6 DEF Step

LEMMA Reports ==
    ASSUME IInv, ReportInv, [ReportNext]_reportVars
    PROVE  ReportInv'
<1>1. CASE UNCHANGED reportVars
  BY <1>1, ReportStands DEF reportVars, vars, UnderWay
<1>2. CASE Next /\ UNCHANGED report
  <2>1. ASSUME Reconcile PROVE ReportInv'
    <3>1. \A i \in intents : i \in intents' \/ \E r \in receipts : r.id = i.id
      BY <2>1 DEF Reconcile, Matches
    <3> QED BY <1>2, <2>1, <3>1, ReportStands DEF Reconcile, UnderWay
  <2>2. ASSUME Tick PROVE ReportInv'
    BY <1>2, <2>2, ReportStands DEF Tick, UnderWay
  <2> QED BY <1>2, <2>1, <2>2, StepReports DEF Next
<1>3. CASE BuildActivationState
  BY <1>3 DEF BuildActivationState, ReportInv, NoReport, Settled
<1> QED BY <1>1, <1>2, <1>3, AuditReports DEF ReportNext

(* A report moves nothing of the campaign.                                 *)
LEMMA ReportsOnly == ReportSpec => Spec
<1>1. ReportInit => Init
  BY DEF ReportInit
<1>2. [ReportNext]_reportVars => [Next]_vars
  BY DEF ReportNext, reportVars, AuditReceipts, BuildActivationState
<1> QED BY <1>1, <1>2, PTL DEF ReportSpec, Spec

LEMMA AlwaysReports == ReportSpec => []ReportInv
<1>1. ReportInit => ReportInv
  BY DEF ReportInit, NoReport, ReportInv, Settled
<1> QED BY <1>1, Reports, ReportsOnly, CampaignInvariance, PTL DEF ReportSpec

(* With no intent left, each settled request has a receipt in the report   *)
(* that tells its bill.                                                    *)
LEMMA EachSettled ==
    ASSUME IInv, ReportInv, intents = {}, NEW q \in Settled
    PROVE  /\ q \in sent
           /\ \E r \in report.receipts : /\ r.id = q.id /\ r \in receipts /\ r \in Receipt
                                         /\ r.current /\ AccountsFor(r, q)
                                         /\ Told => Tells(r, q)
<1>1. q \in sent
  BY DEF ReportInv, Settled
<1>2. PICK r \in report.receipts : r.id = q.id
  BY DEF ReportInv
<1>3. r \in receipts /\ r \in Known /\ r \in Receipt
  BY <1>2 DEF ReportInv, Known, IInv, TypeOK
<1>4. r.current
  BY <1>1, <1>2, <1>3 DEF IInv, TypeOK, Drawn
<1> QED BY <1>1, <1>2, <1>3, <1>4 DEF IInv, Accounts, Told

(* An open gate counts a receipt of every paid request, at its price.      *)
LEMMA OpenGate ==
    ASSUME IInv, ReportInv
    PROVE  GateIsHonest
<1> SUFFICES ASSUME GateIsOpen(report.receipts, Outstanding), NEW q \in Settled,
                    q.command \in PaidCommand
             PROVE  \E r \in report.receipts : r.id = q.id /\ r.accounted = q.charge
  BY DEF GateIsHonest, PaidOf
<1>1. intents = {}
  BY FS_EmptySet DEF IInv, GateIsOpen, Outstanding
<1>2. PICK r \in report.receipts : r.id = q.id /\ r.current /\ AccountsFor(r, q)
  BY <1>1, EachSettled
<1>3. Classify(r) = "usable"
  BY <1>2 DEF GateIsOpen, Classify
<1>4. r \in Semantic(report.receipts)
  BY <1>2, <1>3 DEF Classify, Semantic, Rejected
<1>5. CostCategory(r) \notin {"nonconforming", "unestablished"}
  BY <1>2, <1>4 DEF GateIsOpen, CostPassed
<1>6. ~r.reached \/ r.status \in CostEstablishing
  BY <1>2, <1>5 DEF CostCategory, AttemptState, AccountsFor, CostConforming
<1> QED BY <1>2, <1>6 DEF AccountsFor

(* Receipts that tell the bills of some requests cover them, each up to    *)
(* its ceiling.                                                            *)
LEMMA ReceiptsCoverRequests ==
    ASSUME TypeOK, Told, NEW rs, rs \subseteq receipts, IsFiniteSet(rs),
           NEW qs, qs \subseteq sent,
           \A q \in qs : \E r \in rs : r.id = q.id /\ Tells(r, q)
    PROVE  CreditsTotal(rs) + RejectedCredits(rs) >= WithinCeilings(qs)
<1> DEFINE paid == [r \in rs |-> r.accounted]
           heard == Semantic(rs)
           refused == {r \in rs : Rejected(r)}
           bill == [q \in qs |-> Min({q.charge, Ceiling(q.command)})]
<1>1. IsFiniteSet(qs) /\ \A r \in rs : r.accounted \in Nat
  BY FS_Subset DEF TypeOK, Receipt, Told
<1>2. /\ IsFiniteSet(heard) /\ IsFiniteSet(refused)
      /\ heard \cup refused = rs /\ heard \cap refused = {}
      /\ heard \subseteq rs /\ refused \subseteq rs
  <2>1. /\ heard \cup refused = rs /\ heard \cap refused = {}
        /\ heard \subseteq rs /\ refused \subseteq rs
    BY DEF Semantic
  <2> QED BY <2>1, FS_Subset
<1>3. ASSUME NEW S \in SUBSET rs
      PROVE  Credits(S) = Total(paid, S)
  <2> DEFINE own == [r \in S |-> r.accounted]
  <2>1. IsFiniteSet(S) /\ \A r \in S : own[r] \in Int /\ own[r] = paid[r]
    BY <1>1, FS_Subset
  <2>2. Credits(S) = Total(own, S)
    BY DEF Credits, SumFunction, Total
  <2> HIDE DEF own, paid
  <2> QED BY <2>1, <2>2, SumSame
<1>4. \A r \in rs : paid[r] \in Nat
  BY <1>1
<1>5. CreditsTotal(rs) = Total(paid, heard) /\ RejectedCredits(rs) = Total(paid, refused)
  BY <1>2, <1>3 DEF CreditsTotal, RejectedCredits
<1>6. WithinCeilings(qs) = Total(bill, qs)
  BY DEF WithinCeilings, SumFunction, Total
<1>7. \A q \in qs : bill[q] \in Nat /\ \E r \in rs : r.id = q.id /\ bill[q] <= paid[r]
  <2> SUFFICES ASSUME NEW q \in qs
               PROVE  bill[q] \in Nat /\ \E r \in rs : r.id = q.id /\ bill[q] <= paid[r]
    OBVIOUS
  <2>1. PICK r \in rs : r.id = q.id /\ Tells(r, q)
    OBVIOUS
  <2>2. Charge[q] \in Nat /\ Charge[q] <= q.charge /\ Charge[q] <= Ceiling(q.command)
    BY ChargeFacts
  <2>3. bill[q] = Charge[q]
    BY DEF Charge
  <2>4. q.charge <= r.accounted \/ Ceiling(q.command) <= r.accounted
    BY <2>1 DEF Tells
  <2>5. r.accounted \in Nat /\ q.charge \in Nat /\ Ceiling(q.command) \in Nat
    BY <1>1, Costs DEF TypeOK
  <2>6. paid[r] = r.accounted
    OBVIOUS
  <2>7. Charge[q] <= r.accounted
    BY <2>2, <2>4, <2>5
  <2> QED BY <2>1, <2>2, <2>3, <2>6, <2>7
<1> HIDE DEF paid, heard, refused, bill
<1> DEFINE told == [q \in qs |-> CHOOSE r \in rs : r.id = q.id /\ bill[q] <= paid[r]]
<1>8. \A q \in qs : told[q] \in rs /\ told[q].id = q.id /\ bill[q] <= paid[told[q]]
  BY <1>7
<1>9. told \in [qs -> rs]
  BY <1>8
<1> HIDE DEF told
<1>10. \A q, r \in qs : told[q] = told[r] => q = r
  BY <1>8 DEF Told
<1>11. \A q \in qs : bill[q] \in Int
  BY <1>7
<1>12. Total(bill, qs) <= Total(paid, rs)
  BY <1>1, <1>4, <1>8, <1>9, <1>10, <1>11, SumInjected
<1>13. Total(paid, rs) = Total(paid, heard) + Total(paid, refused)
  <2>1. \A r \in heard \cup refused : paid[r] \in Int
    BY <1>2, <1>4
  <2>2. Total(paid, heard \cup refused) = Total(paid, heard) + Total(paid, refused)
    BY <1>2, <2>1, SumUnion
  <2> QED BY <1>2, <2>2
<1>14. /\ Total(bill, qs) \in Int
       /\ Total(paid, heard) \in Int /\ Total(paid, refused) \in Int
  <2>1. \A r \in heard : paid[r] \in Int
    BY <1>2, <1>4
  <2>2. \A r \in refused : paid[r] \in Int
    BY <1>2, <1>4
  <2>3. Total(paid, heard) \in Int
    BY <1>2, <2>1, SumRemove
  <2>4. Total(paid, refused) \in Int
    BY <1>2, <2>2, SumRemove
  <2>5. Total(bill, qs) \in Int
    BY <1>1, <1>11, SumRemove
  <2> QED BY <2>3, <2>4, <2>5
<1> QED BY <1>5, <1>6, <1>12, <1>13, <1>14

LEMMA HonestReport ==
    ASSUME IInv, Told, ReportInv, IsFiniteSet(receipts)
    PROVE  StatusIsHonest
<1> DEFINE rs == report.receipts
<1> SUFFICES ASSUME intents = {}
             PROVE  /\ ExecutionState(rs) = "NO_NETWORK_ATTEMPTED" => Settled = {}
                    /\ PaidState(rs) = "PREPARED_NOT_EXECUTED" => PaidOf(Settled) = {}
                    /\ CostProof(rs) = "EXERCISED_CONFORMING" =>
                           \A q \in PaidOf(Settled) : q.charge <= Ceiling(q.command)
                    /\ CreditsTotal(rs) + RejectedCredits(rs) >= WithinCeilings(Settled)
  BY DEF StatusIsHonest
<1>0. rs \subseteq receipts /\ Settled \subseteq sent /\ IsFiniteSet(rs)
  BY FS_Subset DEF ReportInv, Settled
<1>1. \A q \in Settled : \E r \in rs : r.id = q.id /\ AccountsFor(r, q) /\ Tells(r, q)
  BY EachSettled
<1> HIDE DEF rs
<1>2. \A q \in Settled : q.command \in Command /\ q.charge \in Nat /\ Ceiling(q.command) \in Nat
  BY <1>0, Costs DEF IInv, TypeOK
<1>3. \A q \in Settled : \E r \in rs :
          /\ r \in Confirmed(rs) /\ r.command = q.command /\ Tells(r, q)
          /\ ~Rejected(r) => r \in Semantic(rs) /\ r \in Confirmed(Semantic(rs))
  <2> SUFFICES ASSUME NEW q \in Settled
               PROVE  \E r \in rs :
          /\ r \in Confirmed(rs) /\ r.command = q.command /\ Tells(r, q)
          /\ ~Rejected(r) => r \in Semantic(rs) /\ r \in Confirmed(Semantic(rs))
    OBVIOUS
  <2>1. PICK r \in rs : AccountsFor(r, q) /\ Tells(r, q)
    BY <1>1
  <2>2. AttemptState(r) = "CONFIRMED_ATTEMPT"
    BY <2>1 DEF Tells, AttemptState
  <2> QED BY <2>1, <2>2 DEF AccountsFor, Confirmed, Semantic
<1>4. ExecutionState(rs) = "NO_NETWORK_ATTEMPTED" => Settled = {}
  <2> SUFFICES ASSUME NEW q \in Settled PROVE ExecutionState(rs) # "NO_NETWORK_ATTEMPTED"
    OBVIOUS
  <2>1. PICK r \in rs :
          /\ r \in Confirmed(rs) /\ r.command = q.command
          /\ ~Rejected(r) => r \in Confirmed(Semantic(rs))
    BY <1>3
  <2>2. CASE Rejected(r)
    BY <2>1, <2>2 DEF ExecutionState
  <2>3. CASE ~Rejected(r)
    BY <1>2, <2>1, <2>3 DEF ExecutionState, SomeOf, Command
  <2> QED BY <2>2, <2>3
<1>5. PaidState(rs) = "PREPARED_NOT_EXECUTED" => PaidOf(Settled) = {}
  <2> SUFFICES ASSUME NEW q \in Settled, q.command \in PaidCommand
               PROVE  PaidState(rs) # "PREPARED_NOT_EXECUTED"
    BY DEF PaidOf
  <2>1. PICK r \in rs :
          /\ r \in Confirmed(rs) /\ r.command = q.command
          /\ ~Rejected(r) => r \in Semantic(rs)
    BY <1>3
  <2>2. CASE Rejected(r)
    BY <2>1, <2>2 DEF PaidState
  <2>3. CASE ~Rejected(r)
    <3>1. r \in Confirmed(Paid(rs))
      BY <2>1, <2>3 DEF Paid, Confirmed
    <3> QED BY <3>1 DEF PaidState
  <2> QED BY <2>2, <2>3
<1>6. CostProof(rs) = "EXERCISED_CONFORMING" =>
          \A q \in PaidOf(Settled) : q.charge <= Ceiling(q.command)
  <2> SUFFICES ASSUME NEW q \in Settled, q.command \in PaidCommand, q.charge > Ceiling(q.command)
               PROVE  CostProof(rs) # "EXERCISED_CONFORMING"
    BY <1>2 DEF PaidOf
  <2>1. PICK r \in rs :
          /\ r \in Confirmed(rs) /\ r.command = q.command /\ Tells(r, q)
          /\ ~Rejected(r) => r \in Semantic(rs)
    BY <1>3
  <2>2. r.status \in CostFailure /\ r.reached /\ ~Rejected(r) /\ r \in Paid(rs)
    BY <2>1 DEF Tells, Paid
  <2>3. AttemptState(r) # "NOT_ATTEMPTED"
    BY <2>1 DEF Confirmed
  <2>4. ~CostConforming(r)
    BY <2>2 DEF CostConforming, CostFailure, CostEstablishing, Mapping
  <2>5. CostCategory(r) \in {"nonconforming", "unestablished"}
    BY <2>1, <2>2, <2>3, <2>4 DEF CostCategory
  <2> QED BY <2>2, <2>5 DEF CostProof
<1>7. CreditsTotal(rs) + RejectedCredits(rs) >= WithinCeilings(Settled)
  BY <1>0, <1>1, ReceiptsCoverRequests DEF IInv
<1> QED BY <1>4, <1>5, <1>6, <1>7

(* An open review gate hides no paid request: each that was settled when   *)
(* the report began, whatever died or raced before or during the report,   *)
(* has a receipt in it that accounts for exactly what the provider billed  *)
(* (evaluate, _persist_or_report, reconcile_intents, unresolved_intents).  *)
THEOREM TheGateIsHonest == ReportSpec => []GateIsHonest
<1>1. IInv /\ ReportInv => GateIsHonest
  BY OpenGate
<1> QED BY <1>1, ReportsOnly, CampaignInvariance, AlwaysReports, PTL

(* "activation status" shows an unresolved intent, or says nothing false   *)
(* of the requests that were settled when it audited the receipts: it says *)
(* nothing was attempted, or paid for, only if none of them left, it calls *)
(* the cost conforming only if none was billed past its ceiling, and its   *)
(* credit totals, rejected receipts included, cover every bill of theirs   *)
(* up to its ceiling.                                                      *)
THEOREM TheStatusIsHonest == ReportSpec => []StatusIsHonest
<1>1. IInv /\ Told /\ ReportInv /\ ManifestInv => StatusIsHonest
  BY HonestReport DEF ManifestInv
<1> QED BY <1>1, ReportsOnly, CampaignInvariance, AlwaysTold, AlwaysWithin, AlwaysReports, PTL
===============================================================================
