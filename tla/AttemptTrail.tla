----------------------------- MODULE AttemptTrail ------------------------------
(***************************************************************************)
(* What the activation commands leave in the receipt directory around one  *)
(* request to the provider (activation.py): the signing key, the intent    *)
(* before the request, the receipt after it, the removal of the intent,    *)
(* and the two recovery commands, "receipts reconcile" and "receipts       *)
(* quarantine --force".  Commands run as processes of one machine that may *)
(* be killed at any point; the machine itself may lose power.              *)
(*                                                                         *)
(* Which commands the campaign allows, and what a receipt says, are in     *)
(* Campaign; here a step is any paid or free step.                         *)
(***************************************************************************)
EXTENDS ReceiptStore

CONSTANTS
    Attempt,     \* attempt identifiers, eight random bytes each
    NoAttempt,   \* no attempt
    Key,         \* signing keys, thirty-two random bytes each
    NoKey,       \* no key
    MaxCrashes   \* bound: power failures of a behaviour

SecretName == <<"secret", NoAttempt>>
IntentName(a) == <<"intent", a>>
ReceiptName(a) == <<"receipt", a>>
AsideName(a) == <<"aside", a>>
TrailNames == {SecretName} \cup ({"intent", "receipt", "aside"} \X Attempt)

SecretBody(k) == <<"secret", NoAttempt, k>>
IntentBody(a) == <<"intent", a, NoKey>>
ReceiptBody(a, k) == <<"receipt", a, k>>
TrailBodies ==
    ({"secret"} \X {NoAttempt} \X Key) \cup ({"intent"} \X Attempt \X {NoKey})
        \cup ({"receipt"} \X Attempt \X Key)

ASSUME TrailAssumption ==
    /\ Name = TrailNames
    /\ Body = TrailBodies
    /\ NoAttempt \notin Attempt
    /\ NoKey \notin Key
    /\ MaxCrashes \in Nat

VARIABLES
    step,        \* per process, where its command is
    attempt,     \* per process, the attempt of its step
    key,         \* per process, the signing key it holds
    considered,  \* per process, the matched intents a reconciliation has left
    sent,        \* attempts whose request may have left
    resolved,    \* per attempt, the reconciliations that counted its intent
    crashes      \* power failures so far

trailVars == <<step, attempt, key, considered, sent, resolved, crashes>>
vars == <<storeVars, trailVars>>

Places == {"idle", "key", "start", "intent", "ready", "receipt", "publish",
           "resolve", "reconcile", "quarantine"}

TypeOK ==
    /\ StoreTypeOK
    /\ step \in [Process -> Places]
    /\ attempt \in [Process -> Attempt \cup {NoAttempt}]
    /\ key \in [Process -> Key \cup {NoKey}]
    /\ considered \in [Process -> SUBSET Attempt]
    /\ sent \subseteq Attempt
    /\ resolved \in [Attempt -> Nat]
    /\ crashes \in 0..MaxCrashes

Init ==
    /\ StoreInit
    /\ step = [p \in Process |-> "idle"]
    /\ attempt = [p \in Process |-> NoAttempt]
    /\ key = [p \in Process |-> NoKey]
    /\ considered = [p \in Process |-> {}]
    /\ sent = {}
    /\ resolved = [a \in Attempt |-> 0]
    /\ crashes = 0

On(p, place) == step[p] = place /\ ~Busy(p)
Go(p, place) == step' = [step EXCEPT ![p] = place]

(* The process ends: what it held in memory is gone.                       *)
Forget(p) ==
    /\ Go(p, "idle")
    /\ attempt' = [attempt EXCEPT ![p] = NoAttempt]
    /\ key' = [key EXCEPT ![p] = NoKey]
    /\ considered' = [considered EXCEPT ![p] = {}]

(* Random identifiers and random keys are never met twice.                 *)
FreshAttempt(a) ==
    /\ a \notin sent
    /\ \A q \in Process : attempt[q] # a
    /\ \A d \in disk, n \in Name : n[2] = a => d[n] = Absent
    /\ \A e \in owed : e[1][2] # a
FreshKey(k) ==
    /\ \A q \in Process : key[q] # k
    /\ \A d \in disk, n \in Name : d[n] # Absent => d[n][3] # k
-------------------------------------------------------------------------------
(* A step begins with its signing key: the stored one, or one of its own   *)
(* minting, of which only the first to take the name counts.               *)
LoadSecret(p) ==
    /\ On(p, "idle")
    /\ Holds(SecretName)
    /\ key' = [key EXCEPT ![p] = visible[SecretName][3]]
    /\ Go(p, "start")
    /\ UNCHANGED <<storeVars, attempt, considered, sent, resolved, crashes>>

MintSecret(p, k) ==
    /\ On(p, "idle")
    /\ ~Holds(SecretName)
    /\ FreshKey(k)
    /\ Publish(p, SecretName, SecretBody(k))
    /\ key' = [key EXCEPT ![p] = k]
    /\ Go(p, "key")
    /\ UNCHANGED <<attempt, considered, sent, resolved, crashes>>

(* As if the process that lost the race kept its own candidate.            *)
SecretKept(p) ==
    /\ step[p] = "key"
    /\ Published(p)
    /\ Go(p, "start")
    /\ UNCHANGED <<attempt, key, considered, sent, resolved, crashes>>

(* The other process's value is the one both end up with.                  *)
SecretPublished(p) ==
    /\ step[p] = "key"
    /\ Published(p)
    /\ key' = [key EXCEPT ![p] = IF op[p].written THEN @ ELSE visible[SecretName][3]]
    /\ Go(p, "start")
    /\ UNCHANGED <<attempt, considered, sent, resolved, crashes>>

(* The preflight refuses while an intent subsists.  Past it, the step      *)
(* mints its identifier and publishes its own.                             *)
OpenIntent(p, a) ==
    /\ On(p, "start")
    /\ \A b \in Attempt : ~Holds(IntentName(b))
    /\ FreshAttempt(a)
    /\ attempt' = [attempt EXCEPT ![p] = a]
    /\ Publish(p, IntentName(a), IntentBody(a))
    /\ Go(p, "intent")
    /\ UNCHANGED <<key, considered, sent, resolved, crashes>>

IntentPublished(p) ==
    /\ step[p] = "intent"
    /\ Published(p)
    /\ Go(p, "ready")
    /\ UNCHANGED <<attempt, key, considered, sent, resolved, crashes>>

Send(p) ==
    /\ On(p, "ready")
    /\ sent' = sent \cup {attempt[p]}
    /\ Go(p, "receipt")
    /\ UNCHANGED <<storeVars, attempt, key, considered, resolved, crashes>>

(* Whatever came of the request, its receipt is signed with the stored key *)
(* and published.                                                          *)
WriteReceipt(p) ==
    /\ On(p, "receipt")
    /\ Holds(SecretName)
    /\ Publish(p, ReceiptName(attempt[p]),
               ReceiptBody(attempt[p], visible[SecretName][3]))
    /\ Go(p, "publish")
    /\ UNCHANGED <<attempt, key, considered, sent, resolved, crashes>>

ReceiptPublished(p) ==
    /\ step[p] = "publish"
    /\ Published(p)
    /\ Go(p, "resolve")
    /\ UNCHANGED <<attempt, key, considered, sent, resolved, crashes>>

ResolveOwn(p) ==
    /\ On(p, "resolve")
    /\ Remove(p, IntentName(attempt[p]))
    /\ UNCHANGED <<visible, disk, owed, trailVars>>

NothingToResolve(p) ==
    /\ On(p, "resolve")
    /\ ~Holds(IntentName(attempt[p]))
    /\ Forget(p)
    /\ UNCHANGED <<storeVars, sent, resolved, crashes>>

(* As if the step went on without the trace it could not publish.          *)
GoOnRegardless(p) ==
    /\ step[p] \in {"key", "intent", "publish"}
    /\ PublicationFails(p)
    /\ IF step[p] = "intent"
         THEN Go(p, "ready") /\ UNCHANGED <<attempt, key, considered>>
         ELSE Forget(p)
    /\ UNCHANGED <<sent, resolved, crashes>>

(* A publication that fails ends the command: before the request nothing   *)
(* is sent, after it the intent is what remains.                           *)
GiveUpPublication(p) ==
    /\ step[p] \in {"key", "intent", "publish"}
    /\ PublicationFails(p)
    /\ Forget(p)
    /\ UNCHANGED <<sent, resolved, crashes>>
-------------------------------------------------------------------------------
(* A receipt counts when it verifies under the stored key.                 *)
Verified(ns, a) ==
    /\ ns[SecretName] # Absent
    /\ ns[ReceiptName(a)] = ReceiptBody(a, ns[SecretName][3])

(* Reconciliation: audit the receipts, list the intents they account for,  *)
(* remove them one by one, synchronise whatever was found.                 *)
BeginReconcile(p) ==
    /\ On(p, "idle")
    /\ Holds(SecretName)
    /\ considered' = [considered EXCEPT ![p] =
           {a \in Attempt : Holds(IntentName(a)) /\ Verified(visible, a)}]
    /\ Go(p, "reconcile")
    /\ UNCHANGED <<storeVars, attempt, key, sent, resolved, crashes>>

ResolveNext(p, a) ==
    /\ On(p, "reconcile")
    /\ a \in considered[p]
    /\ considered' = [considered EXCEPT ![p] = @ \ {a}]
    /\ \/ Remove(p, IntentName(a))
       \/ ~Holds(IntentName(a)) /\ UNCHANGED op
    /\ UNCHANGED <<visible, disk, owed, step, attempt, key, sent, resolved, crashes>>

EndReconcile(p) ==
    /\ On(p, "reconcile")
    /\ considered[p] = {}
    /\ Synchronise(p)
    /\ Forget(p)
    /\ UNCHANGED <<sent, resolved, crashes>>

(* quarantine --force: a receipt keeps its bytes under another name, out   *)
(* of the audit.  The key, the intents and the temporaries are refused.    *)
Quarantine(p, a) ==
    /\ On(p, "idle")
    /\ MoveAside(p, ReceiptName(a), AsideName(a))
    /\ Go(p, "quarantine")
    /\ UNCHANGED <<attempt, key, considered, sent, resolved, crashes>>
-------------------------------------------------------------------------------
(* An entry that is gone from the directory is counted as resolved by the  *)
(* reconciliation that removed it.                                         *)
TakeAway(p) ==
    /\ step[p] \in {"resolve", "reconcile", "quarantine"}
    /\ Unlink(p)
    /\ resolved' = IF step[p] = "reconcile"
                     THEN [resolved EXCEPT ![op[p].name[2]] = @ + 1]
                     ELSE resolved
    /\ UNCHANGED <<step, attempt, key, considered, sent, crashes>>

(* As if an entry that was gone counted as one this process removed.       *)
CountGone(p) ==
    /\ UnlinkMisses(p)
    /\ IF step[p] = "reconcile"
         THEN /\ resolved' = [resolved EXCEPT ![op[p].name[2]] = @ + 1]
              /\ UNCHANGED <<step, attempt, key, considered>>
         ELSE Forget(p) /\ UNCHANGED resolved
    /\ UNCHANGED <<sent, crashes>>

(* A reconciliation carries on past an entry another process removed; the  *)
(* other commands do not expect it and stop.                               *)
FindGone(p) ==
    /\ UnlinkMisses(p)
    /\ IF step[p] = "reconcile"
         THEN UNCHANGED <<step, attempt, key, considered>>
         ELSE Forget(p)
    /\ UNCHANGED <<sent, resolved, crashes>>

RemovalDurable(p) ==
    /\ step[p] \in {"resolve", "reconcile", "quarantine"}
    /\ Removed(p)
    /\ IF step[p] = "reconcile"
         THEN UNCHANGED <<step, attempt, key, considered>>
         ELSE Forget(p)
    /\ UNCHANGED <<sent, resolved, crashes>>

GiveUpRemoval(p) ==
    /\ RemovalFails(p)
    /\ Forget(p)
    /\ UNCHANGED <<sent, resolved, crashes>>

Kill(p) ==
    /\ step[p] # "idle"
    /\ Killed(p)
    /\ Forget(p)
    /\ UNCHANGED <<sent, resolved, crashes>>

(* An intent whose removal did not reach the disk is there to be resolved  *)
(* again.                                                                  *)
Crash ==
    /\ crashes < MaxCrashes
    /\ PowerFails
    /\ step' = [p \in Process |-> "idle"]
    /\ attempt' = [p \in Process |-> NoAttempt]
    /\ key' = [p \in Process |-> NoKey]
    /\ considered' = [p \in Process |-> {}]
    /\ resolved' = [a \in Attempt |->
           IF visible'[IntentName(a)] = Absent THEN resolved[a] ELSE 0]
    /\ crashes' = crashes + 1
    /\ UNCHANGED sent

StoreStep(p) ==
    /\ LinkName(p) \/ SyncDirectory(p)
    /\ UNCHANGED trailVars

Command(p) ==
    \/ LoadSecret(p)
    \/ \E k \in Key : MintSecret(p, k)
    \/ SecretPublished(p)
    \/ \E a \in Attempt : OpenIntent(p, a)
    \/ IntentPublished(p)
    \/ Send(p)
    \/ WriteReceipt(p)
    \/ ReceiptPublished(p)
    \/ ResolveOwn(p)
    \/ NothingToResolve(p)
    \/ GiveUpPublication(p)

Recovery(p) ==
    \/ BeginReconcile(p)
    \/ \E a \in Attempt : ResolveNext(p, a)
    \/ EndReconcile(p)
    \/ \E a \in Attempt : Quarantine(p, a)
    \/ TakeAway(p)
    \/ FindGone(p)
    \/ RemovalDurable(p)
    \/ GiveUpRemoval(p)

Next ==
    \/ \E p \in Process : StoreStep(p) \/ Command(p) \/ Recovery(p) \/ Kill(p)
    \/ Crash

Spec == Init /\ [][Next]_vars
-------------------------------------------------------------------------------
Trace(ns, a) ==
    \/ ns[IntentName(a)] # Absent
    \/ ns[ReceiptName(a)] # Absent
    \/ ns[AsideName(a)] # Absent

(* A request that may have been sent, and billed, leaves a trace whatever  *)
(* happens next: in every directory a power failure could leave, the       *)
(* attempt has its intent or its receipt (publish_intent,                  *)
(* _persist_or_report, _resolve_matched_intents).                          *)
Witnessed == \A a \in sent : \A ns \in disk : Trace(ns, a)

(* Two commands that start on an empty directory each mint a key; both go  *)
(* on with the one the directory kept, and every receipt that exists, or   *)
(* may exist after a power failure, is signed with the key the directory   *)
(* then holds (ensure_secret, write_receipt).                              *)
Signing == {"start", "intent", "ready", "receipt", "publish", "resolve"}
OneKey ==
    /\ \A ns \in disk : \A a \in Attempt :
           ns[ReceiptName(a)] # Absent => Verified(ns, a)
    /\ \A p \in Process : step[p] \in Signing =>
           /\ Holds(SecretName)
           /\ key[p] = visible[SecretName][3]

(* However many reconciliations run at once, one intent is counted as      *)
(* resolved once, and only when it is gone (_resolve_matched_intents).     *)
ResolvedOnce ==
    \A a \in Attempt :
        /\ resolved[a] <= 1
        /\ resolved[a] = 1 => visible[IntentName(a)] = Absent

(* The directory keeps what it acknowledged, documents and removals alike, *)
(* through kills and power failures (publish_bytes,                        *)
(* resolve_intent_reporting).                                              *)
KeepsRecord == Record!Spec

===============================================================================
