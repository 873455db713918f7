------------------------------ MODULE TrailProofs ------------------------------
(***************************************************************************)
(* Proofs about AttemptTrail, for any number of processes, attempts, keys  *)
(* and power failures: the trace a request leaves, the one signing key,    *)
(* the intents that are resolved once, and the refinement of DurableRecord.*)
(*                                                                         *)
(* The inductive invariant says, beside these, what each place of a        *)
(* command knows of the directory.  Names and documents are tuples; two    *)
(* lemmas state what is needed of them, and the proofs keep them closed.   *)
(***************************************************************************)
EXTENDS AttemptTrail, TLAPS

Publishing == {"link", "sync", "resync"}
Removing == {"unlink", "flush"}
Owning == {"intent", "ready", "receipt", "publish", "resolve"}

(* The receipt of an attempt, wherever it was put.                         *)
Filed(ns, a) == ns[ReceiptName(a)] # Absent \/ ns[AsideName(a)] # Absent

-------------------------------------------------------------------------------
(* The directory and the disk.                                             *)

VisibleOnDisk == visible \in disk

OwedKept == \A e \in owed : \A ns \in disk : ns[e[1]] = e[2]

(* The key is never removed, and nothing is owed about what is set aside.  *)
OwedNames ==
    \A e \in owed : /\ e[1] = SecretName => e[2] # Absent
                    /\ \A a \in Attempt : e[1] # AsideName(a)

SecretsSound ==
    \A ns \in disk : ns[SecretName] # Absent => \E k \in Key : ns[SecretName] = SecretBody(k)

ReceiptsSent == \A ns \in disk : \A a \in Attempt : ns[ReceiptName(a)] # Absent => a \in sent

ReceiptsSigned == \A ns \in disk : \A a \in Attempt : ns[ReceiptName(a)] # Absent => Verified(ns, a)

ResolvedAbsent ==
    \A a \in Attempt :
        \/ resolved[a] = 0
        \/ resolved[a] = 1 /\ visible[IntentName(a)] = Absent /\ a \in sent

-------------------------------------------------------------------------------
(* One process.                                                            *)

(* What it is doing in the directory, at each place of its command.        *)
Shape(p) ==
    /\ step[p] \in {"idle", "start", "ready", "receipt"} => op[p] = Idle
    /\ step[p] = "key" =>
           /\ op[p].pc \in Publishing
           /\ op[p].name = SecretName
           /\ key[p] \in Key /\ op[p].body = SecretBody(key[p])
    /\ step[p] = "intent" =>
           /\ op[p].pc \in Publishing
           /\ op[p].name = IntentName(attempt[p])
           /\ op[p].body = IntentBody(attempt[p])
    /\ step[p] = "publish" =>
           /\ op[p].pc \in Publishing
           /\ op[p].name = ReceiptName(attempt[p])
           /\ op[p].body = ReceiptBody(attempt[p], visible[SecretName][3])
    /\ step[p] = "resolve" =>
           \/ op[p] = Idle
           \/ op[p].pc \in Removing /\ op[p].name = IntentName(attempt[p])
    /\ step[p] = "reconcile" =>
           \/ op[p] = Idle
           \/ op[p].pc \in Removing /\ \E a \in sent : op[p].name = IntentName(a)
    /\ step[p] = "quarantine" =>
           op[p].pc \in Removing /\ \E a \in sent : op[p].name = ReceiptName(a)

Ownership(p) ==
    /\ step[p] \in Owning => attempt[p] \in Attempt
    /\ step[p] \notin Owning => attempt[p] = NoAttempt
    /\ step[p] \in {"intent", "ready"} => attempt[p] \notin sent
    /\ step[p] \in {"receipt", "publish", "resolve"} => attempt[p] \in sent

Unique(p, q) == p # q /\ attempt[p] = attempt[q] => attempt[p] = NoAttempt

(* Nothing has been said about its receipt.                                *)
Unfiled(p) ==
    (step[p] \in {"intent", "ready", "receipt"} \/ (step[p] = "publish" /\ op[p].pc = "link")) =>
        /\ \A ns \in disk : ~Filed(ns, attempt[p])
        /\ \A e \in owed : e[1] # ReceiptName(attempt[p])
        /\ \A q \in Process : step[q] = "quarantine" => op[q].name # ReceiptName(attempt[p])

(* Nothing has been said about its intent; then it is there.               *)
Unopened(p) ==
    step[p] = "intent" /\ op[p].pc = "link" =>
        /\ \A ns \in disk : ns[IntentName(attempt[p])] = Absent
        /\ \A e \in owed : e[1] # IntentName(attempt[p])

Opened(p) ==
    /\ step[p] = "intent" /\ op[p].pc # "link" => visible[IntentName(attempt[p])] # Absent
    /\ step[p] = "ready" => \A ns \in disk : ns[IntentName(attempt[p])] # Absent

(* What a publication wrote is there, or was taken away again.             *)
Written(p) ==
    op[p].pc \in {"sync", "resync"} /\ op[p].written =>
        \/ visible[op[p].name] = op[p].body
        \/ op[p].name # SecretName /\ visible[op[p].name] = Absent

Flushed(p) == op[p].pc = "flush" => visible[op[p].name] = Absent

(* Its key is the one of the directory.                                    *)
Keyed(p) ==
    /\ step[p] = "key" /\ op[p].pc # "link" => Holds(SecretName)
    /\ step[p] \in Signing => Holds(SecretName) /\ key[p] = visible[SecretName][3]

(* What it is about to take away is accounted for by something else.       *)
Covered(p) ==
    /\ considered[p] \subseteq sent
    /\ \A a \in considered[p] : Filed(visible, a)
    /\ step[p] = "publish" /\ op[p].pc # "link" => Filed(visible, attempt[p])
    /\ step[p] = "resolve" => Filed(visible, attempt[p])
    /\ op[p].pc = "unlink" =>
           \A a \in Attempt :
               /\ op[p].name = IntentName(a) => Filed(visible, a)
               /\ op[p].name = ReceiptName(a) => visible[AsideName(a)] # Absent

Local(p) ==
    /\ Shape(p) /\ Ownership(p) /\ Unfiled(p) /\ Unopened(p) /\ Opened(p)
    /\ Written(p) /\ Flushed(p) /\ Keyed(p) /\ Covered(p)

Shared ==
    /\ VisibleOnDisk /\ OwedKept /\ OwedNames /\ SecretsSound
    /\ ReceiptsSent /\ ReceiptsSigned /\ ResolvedAbsent /\ Witnessed

IInv ==
    /\ TypeOK
    /\ Shared
    /\ \A p \in Process : Local(p)
    /\ \A p, q \in Process : Unique(p, q)
-------------------------------------------------------------------------------
(* Names and documents.                                                    *)

(* The names of two attempts, and the kinds of name, are distinct.         *)
LEMMA NameFacts ==
    /\ SecretName \in Name
    /\ \A a \in Attempt :
           /\ IntentName(a) \in Name /\ ReceiptName(a) \in Name /\ AsideName(a) \in Name
           /\ IntentName(a) # SecretName /\ ReceiptName(a) # SecretName
           /\ AsideName(a) # SecretName
           /\ IntentName(a)[2] = a /\ ReceiptName(a)[2] = a /\ AsideName(a)[2] = a
    /\ \A a, b \in Attempt :
           /\ IntentName(a) # ReceiptName(b) /\ IntentName(a) # AsideName(b)
           /\ ReceiptName(a) # AsideName(b)
BY TrailAssumption DEF TrailNames, SecretName, IntentName, ReceiptName, AsideName

(* Every document is one, and says which key signed it.                    *)
LEMMA BodyFacts ==
    /\ \A k \in Key : /\ SecretBody(k) \in Body /\ SecretBody(k) # Absent
                      /\ SecretBody(k)[3] = k
    /\ \A a \in Attempt : IntentBody(a) \in Body /\ IntentBody(a) # Absent
    /\ \A a \in Attempt : \A k \in Key :
           ReceiptBody(a, k) \in Body /\ ReceiptBody(a, k) # Absent
BY TrailAssumption, StoreAssumption DEF TrailBodies, SecretBody, IntentBody, ReceiptBody

-------------------------------------------------------------------------------
(* What the invariant says of one process and of two.                      *)

(* The place of a command tells what it may be doing in the directory.     *)
LEMMA OpFacts ==
    ASSUME IInv, NEW p \in Process
    PROVE  /\ op[p].pc = "idle" => op[p] = Idle
           /\ op[p].pc \in Publishing =>
                  /\ step[p] \in {"key", "intent", "publish"}
                  /\ op[p].name \in Name /\ op[p].body \in Body
           /\ op[p].pc \in Removing =>
                  \/ /\ step[p] \in {"resolve", "reconcile"}
                     /\ \E a \in sent : op[p].name = IntentName(a)
                  \/ /\ step[p] = "quarantine"
                     /\ \E a \in sent : op[p].name = ReceiptName(a)
<1>1. /\ Shape(p) /\ Ownership(p) /\ Keyed(p) /\ SecretsSound /\ VisibleOnDisk
      /\ step[p] \in Places /\ op[p].pc \in Steps
  BY DEF IInv, Local, Shared, TypeOK, StoreTypeOK, Op
<1>2. op[p].pc = "idle" => op[p] = Idle
  BY <1>1 DEF Shape, Places, Publishing, Removing
<1>3. op[p].pc \in Publishing => step[p] \in {"key", "intent", "publish"}
  BY <1>1 DEF Shape, Places, Publishing, Removing, Idle
<1>4. ASSUME op[p].pc \in Publishing
      PROVE  op[p].name \in Name /\ op[p].body \in Body
  <2>1. CASE step[p] = "key"
    BY <1>1, <2>1, NameFacts, BodyFacts DEF Shape
  <2>2. CASE step[p] = "intent"
    BY <1>1, <2>2, NameFacts, BodyFacts DEF Shape, Ownership, Owning
  <2>3. CASE step[p] = "publish"
    <3>1. \E k \in Key : visible[SecretName] = SecretBody(k)
      BY <1>1, <2>3 DEF Keyed, Signing, Holds, SecretsSound, VisibleOnDisk
    <3> QED BY <1>1, <2>3, <3>1, NameFacts, BodyFacts DEF Shape, Ownership, Owning
  <2> QED BY <1>3, <1>4, <2>1, <2>2, <2>3
<1>5. ASSUME op[p].pc \in Removing
      PROVE  \/ /\ step[p] \in {"resolve", "reconcile"}
                /\ \E a \in sent : op[p].name = IntentName(a)
             \/ /\ step[p] = "quarantine"
                /\ \E a \in sent : op[p].name = ReceiptName(a)
  BY <1>1, <1>5 DEF Shape, Ownership, Places, Publishing, Removing, Idle
<1> QED BY <1>1, <1>2, <1>3, <1>4, <1>5 DEF Shape, Ownership, Places, Removing, Idle, Publishing

(* No process touches the name another one is about to give.               *)
LEMMA NamesApart ==
    ASSUME IInv, NEW p \in Process, NEW q \in Process, p # q, op[p].pc # "idle"
    PROVE  /\ (step[q] \in {"intent", "ready", "receipt"}
               \/ (step[q] = "publish" /\ op[q].pc = "link"))
                  => op[p].name # ReceiptName(attempt[q])
           /\ step[q] \in {"intent", "ready"} => op[p].name # IntentName(attempt[q])
<1>1. /\ Shape(p) /\ Ownership(p) /\ Ownership(q) /\ Unfiled(q) /\ Unique(p, q)
      /\ step[p] \in Places /\ sent \subseteq Attempt
  BY DEF IInv, Local, TypeOK
<1>2. \A a \in Attempt : attempt[p] = a /\ attempt[q] = a => FALSE
  BY <1>1, TrailAssumption DEF Unique
<1>3. CASE step[p] = "key"
  BY <1>1, <1>3, NameFacts DEF Shape, Ownership, Owning
<1>4. CASE step[p] \in {"intent", "resolve"}
  BY <1>1, <1>2, <1>4, NameFacts DEF Shape, Ownership, Owning, Idle
<1>5. CASE step[p] = "publish"
  BY <1>1, <1>2, <1>5, NameFacts DEF Shape, Ownership, Owning, Idle
<1>6. CASE step[p] = "reconcile"
  BY <1>1, <1>6, NameFacts DEF Shape, Ownership, Owning, Idle
<1>7. CASE step[p] = "quarantine"
  BY <1>1, <1>7, NameFacts DEF Shape, Ownership, Owning, Unfiled
<1> QED BY <1>1, <1>3, <1>4, <1>5, <1>6, <1>7 DEF Shape, Places, Idle

-------------------------------------------------------------------------------
(* Steps that leave the directory as every process sees it.                *)

(* The step is one of process p.                                           *)
OnlyOf(p) ==
    \A q \in Process \ {p} :
        /\ step'[q] = step[q] /\ attempt'[q] = attempt[q] /\ key'[q] = key[q]
        /\ considered'[q] = considered[q] /\ op'[q] = op[q]

(* What process p may say of the directory, and of its attempt.            *)
Says(p) ==
    /\ \A e \in owed' : e \in owed \/ (op[p].pc # "idle" /\ e[1] = op[p].name)
    /\ sent \subseteq sent' /\ \A a \in sent' : a \in sent \/ (a \in Attempt /\ a = attempt[p])
    /\ step'[p] = "quarantine" => step[p] = "quarantine" /\ op'[p].name = op[p].name

(* The other processes see nothing of such a step.                         *)
LEMMA OthersUnmoved ==
    ASSUME IInv, NEW p \in Process, NEW q \in Process, p # q,
           OnlyOf(p), Says(p), visible' = visible, disk' \subseteq disk
    PROVE  Local(q)'
<1>1. /\ Local(q) /\ Unique(p, q) /\ VisibleOnDisk /\ sent \subseteq Attempt
      /\ step'[q] = step[q] /\ attempt'[q] = attempt[q] /\ key'[q] = key[q]
      /\ considered'[q] = considered[q] /\ op'[q] = op[q]
  BY DEF IInv, Shared, TypeOK, OnlyOf
<1>2. Shape(q)'
  BY <1>1 DEF Local, Shape, Says
<1>3. Ownership(q)'
  BY <1>1, TrailAssumption DEF Local, Ownership, Owning, Says, Unique
<1>4. Unfiled(q)'
  <2> SUFFICES ASSUME (step[q] \in {"intent", "ready", "receipt"}
                       \/ (step[q] = "publish" /\ op[q].pc = "link"))
               PROVE  /\ \A ns \in disk' : ~Filed(ns, attempt[q])
                      /\ \A e \in owed' : e[1] # ReceiptName(attempt[q])
                      /\ \A r \in Process : step'[r] = "quarantine" =>
                                               op'[r].name # ReceiptName(attempt[q])
    BY <1>1 DEF Unfiled, Filed
  <2>1. \A ns \in disk' : ~Filed(ns, attempt[q])
    BY <1>1 DEF Local, Unfiled
  <2>2. \A e \in owed' : e[1] # ReceiptName(attempt[q])
    BY <1>1, NamesApart DEF Local, Unfiled, Says
  <2>3. \A r \in Process : step'[r] = "quarantine" => op'[r].name # ReceiptName(attempt[q])
    BY <1>1 DEF Local, Unfiled, Says, OnlyOf
  <2> QED BY <2>1, <2>2, <2>3
<1>5. Unopened(q)'
  BY <1>1, NamesApart DEF Local, Unopened, Says
<1>6. Opened(q)' /\ Written(q)' /\ Flushed(q)' /\ Keyed(q)'
  BY <1>1 DEF Local, Opened, Written, Flushed, Keyed, Holds
<1>7. Covered(q)'
  BY <1>1 DEF Local, Covered, Says, Filed
<1> QED BY <1>2, <1>3, <1>4, <1>5, <1>6, <1>7 DEF Local

(* What is shared stays as it is, if what the step says is true.           *)
LEMMA SharedUnmoved ==
    ASSUME IInv, visible' = visible, disk' \subseteq disk, visible \in disk',
           resolved' = resolved, sent \subseteq sent',
           \A a \in sent' \ sent : \A ns \in disk' : Trace(ns, a),
           \A e \in owed' : \/ e \in owed
                            \/ /\ \A ns \in disk' : ns[e[1]] = e[2]
                               /\ e[1] = SecretName => e[2] # Absent
                               /\ \A a \in Attempt : e[1] # AsideName(a)
    PROVE  Shared'
<1>1. Shared
  BY DEF IInv
<1>2. VisibleOnDisk' /\ SecretsSound'
  BY <1>1 DEF Shared, VisibleOnDisk, SecretsSound
<1>3. OwedKept'
  BY <1>1 DEF Shared, OwedKept
<1>4. OwedNames'
  BY <1>1 DEF Shared, OwedNames
<1>5. ReceiptsSent' /\ ReceiptsSigned' /\ ResolvedAbsent'
  BY <1>1 DEF Shared, ReceiptsSent, ReceiptsSigned, Verified, ResolvedAbsent
<1>6. Witnessed'
  BY <1>1 DEF Shared, Witnessed, Trace
<1> QED BY <1>2, <1>3, <1>4, <1>5, <1>6 DEF Shared

(* Two processes have no attempt in common after the step either.          *)
LEMMA StillUnique ==
    ASSUME IInv, NEW p \in Process, OnlyOf(p),
           \/ attempt'[p] \in {attempt[p], NoAttempt}
           \/ \A q \in Process : attempt[q] # attempt'[p]
    PROVE  \A q, r \in Process : Unique(q, r)'
BY DEF IInv, Unique, OnlyOf

(* So such a step keeps the invariant, if the process that takes it keeps  *)
(* its part.                                                               *)
LEMMA UnmovedStep ==
    ASSUME IInv, NEW p \in Process, OnlyOf(p), Says(p), TypeOK', Local(p)',
           visible' = visible, disk' \subseteq disk, visible \in disk', resolved' = resolved,
           \/ attempt'[p] \in {attempt[p], NoAttempt}
           \/ \A q \in Process : attempt[q] # attempt'[p],
           \A a \in sent' \ sent : \A ns \in disk' : Trace(ns, a),
           \A e \in owed' : \/ e \in owed
                            \/ /\ \A ns \in disk' : ns[e[1]] = e[2]
                               /\ e[1] = SecretName => e[2] # Absent
                               /\ \A a \in Attempt : e[1] # AsideName(a)
    PROVE  IInv'
<1>1. Shared'
  BY SharedUnmoved DEF Says
<1>2. \A q \in Process : Local(q)'
  BY OthersUnmoved
<1>3. \A q, r \in Process : Unique(q, r)'
  BY StillUnique
<1> QED BY <1>1, <1>2, <1>3 DEF IInv

(* A process that has ended knows nothing.                                 *)
LEMMA EndedKnowsNothing ==
    ASSUME NEW p \in Process, step'[p] = "idle", op'[p] = Idle, attempt'[p] = NoAttempt,
           considered'[p] = {}
    PROVE  Local(p)'
<1>1. Shape(p)' /\ Ownership(p)'
  BY DEF Shape, Ownership, Owning
<1>2. Unfiled(p)' /\ Unopened(p)' /\ Opened(p)'
  BY DEF Unfiled, Unopened, Opened
<1>3. Written(p)' /\ Flushed(p)' /\ Keyed(p)' /\ Covered(p)'
  BY DEF Written, Flushed, Keyed, Covered, Signing, Idle
<1> QED BY <1>1, <1>2, <1>3 DEF Local

(* A command that ends without a word about the directory: killed, failed, *)
(* refused, or with nothing left to do.                                    *)
LEMMA EndingStep ==
    ASSUME IInv, NEW p \in Process, Forget(p),
           Done(p) \/ (op' = op /\ op[p].pc = "idle"),
           visible' = visible, disk' \subseteq disk, visible \in disk',
           UNCHANGED <<sent, resolved, crashes>>,
           \A e \in owed' : \/ e \in owed
                            \/ /\ op[p].pc # "idle" /\ e[1] = op[p].name
                               /\ \A ns \in disk' : ns[e[1]] = e[2]
                               /\ e[1] = SecretName => e[2] # Absent
                               /\ \A a \in Attempt : e[1] # AsideName(a),
           owed' \subseteq Name \X Value
    PROVE  IInv'
<1>1. /\ TypeOK
      /\ op[p].pc = "idle" => op[p] = Idle
      /\ Idle \in Op
  BY OpFacts DEF IInv, Idle, Op, Steps, Value
<1>2. /\ op'[p] = Idle /\ step'[p] = "idle" /\ attempt'[p] = NoAttempt
      /\ considered'[p] = {}
      /\ OnlyOf(p)
  BY <1>1 DEF TypeOK, StoreTypeOK, Forget, Go, Done, OnlyOf
<1>3. TypeOK'
  BY <1>1 DEF TypeOK, StoreTypeOK, Forget, Go, Done, Places
<1>4. Says(p)
  BY <1>2 DEF Says
<1>5. Local(p)'
  BY <1>2, EndedKnowsNothing
<1> QED BY <1>2, <1>3, <1>4, <1>5, UnmovedStep

LEMMA EndsQuietly ==
    ASSUME IInv, NEW p \in Process,
           \/ NothingToResolve(p) \/ GiveUpPublication(p) \/ GiveUpRemoval(p) \/ Kill(p)
           \/ EndReconcile(p)
    PROVE  IInv'
<1>1. VisibleOnDisk /\ owed \subseteq Name \X Value
  BY DEF IInv, Shared, TypeOK, StoreTypeOK
<1>2. CASE NothingToResolve(p)
  BY <1>1, <1>2, EndingStep DEF NothingToResolve, VisibleOnDisk, On, Busy, storeVars
<1>3. CASE GiveUpPublication(p) \/ GiveUpRemoval(p) \/ Kill(p)
  BY <1>1, <1>3, EndingStep
     DEF GiveUpPublication, PublicationFails, GiveUpRemoval, RemovalFails, Kill, Killed,
         VisibleOnDisk
<1>4. CASE EndReconcile(p)
  BY <1>1, <1>4, EndingStep DEF EndReconcile, On, Busy, Synchronise, Sync, VisibleOnDisk
<1> QED BY <1>2, <1>3, <1>4

(* What a removal says once it is synchronised.                            *)
LEMMA RemovalSays ==
    ASSUME IInv, NEW p \in Process, Removed(p)
    PROVE  /\ visible' = visible /\ disk' = {visible} /\ disk' \subseteq disk
           /\ op[p].pc # "idle"
           /\ owed' = owed \cup {<<op[p].name, Absent>>}
           /\ visible[op[p].name] = Absent
           /\ op[p].name \in Name /\ op[p].name # SecretName
           /\ \A a \in Attempt : op[p].name # AsideName(a)
<1>1. /\ VisibleOnDisk /\ Flushed(p) /\ sent \subseteq Attempt
  BY DEF IInv, Shared, TypeOK, Local
<1>2. \E a \in sent : op[p].name \in {IntentName(a), ReceiptName(a)}
  BY OpFacts DEF Removed, At, Removing
<1> QED BY <1>1, <1>2, NameFacts DEF Removed, At, Sync, Owe, VisibleOnDisk, Flushed

LEMMA RemovalEnds ==
    ASSUME IInv, NEW p \in Process, step[p] # "reconcile", FindGone(p) \/ RemovalDurable(p)
    PROVE  IInv'
<1>1. VisibleOnDisk /\ owed \subseteq Name \X Value /\ Absent \in Value
  BY DEF IInv, Shared, TypeOK, StoreTypeOK, Value
<1>2. CASE FindGone(p)
  BY <1>1, <1>2, EndingStep DEF FindGone, UnlinkMisses, VisibleOnDisk
<1>3. CASE RemovalDurable(p)
  <2>1. /\ Forget(p) /\ Done(p) /\ UNCHANGED <<sent, resolved, crashes>>
    BY <1>3 DEF RemovalDurable, Removed
  <2>2. Removed(p)
    BY <1>3 DEF RemovalDurable
  <2> HIDE DEF Done, Forget
  <2> QED BY <1>1, <2>1, <2>2, RemovalSays, EndingStep
<1> QED BY <1>2, <1>3

-------------------------------------------------------------------------------
(* The steps of a command, one lemma each.                                 *)

LEMMA LoadSecretStep ==
    ASSUME IInv, NEW p \in Process, LoadSecret(p)
    PROVE  IInv'
<1>1. /\ TypeOK /\ Local(p) /\ VisibleOnDisk /\ SecretsSound
      /\ op[p] = Idle /\ step[p] = "idle" /\ Holds(SecretName)
      /\ visible[SecretName][3] \in Key
  BY OpFacts, BodyFacts DEF IInv, Shared, LoadSecret, On, Busy, Holds, VisibleOnDisk, SecretsSound
<1>2. /\ UNCHANGED <<storeVars, attempt, considered, sent, resolved, crashes>>
      /\ key' = [key EXCEPT ![p] = visible[SecretName][3]] /\ Go(p, "start")
  BY DEF LoadSecret
<1>3. TypeOK' /\ OnlyOf(p) /\ Says(p)
  BY <1>1, <1>2 DEF TypeOK, StoreTypeOK, storeVars, Go, Places, OnlyOf, Says
<1>4. /\ step'[p] = "start" /\ key'[p] = visible[SecretName][3] /\ op'[p] = Idle
      /\ attempt'[p] = attempt[p] /\ considered'[p] = considered[p]
      /\ visible' = visible /\ disk' = disk /\ owed' = owed /\ sent' = sent
      /\ resolved' = resolved
  BY <1>1, <1>2 DEF TypeOK, storeVars, Go
<1>5. Local(p)'
  BY <1>1, <1>4 DEF Local, Shape, Ownership, Owning, Unfiled, Unopened, Opened, Written,
                    Flushed, Keyed, Signing, Holds, Covered, Filed, Idle
<1> QED BY <1>1, <1>3, <1>4, <1>5, UnmovedStep DEF VisibleOnDisk

LEMMA MintSecretStep ==
    ASSUME IInv, NEW p \in Process, NEW k \in Key, MintSecret(p, k)
    PROVE  IInv'
<1> DEFINE o == [pc |-> "link", name |-> SecretName, body |-> SecretBody(k), written |-> FALSE]
<1>1. /\ TypeOK /\ Local(p) /\ VisibleOnDisk
      /\ op[p] = Idle /\ step[p] = "idle"
      /\ o \in Op
  BY OpFacts, NameFacts, BodyFacts
     DEF IInv, Shared, MintSecret, On, Busy, Op, Steps, Value
<1>2. /\ UNCHANGED <<visible, disk, owed, attempt, considered, sent, resolved, crashes>>
      /\ key' = [key EXCEPT ![p] = k] /\ Go(p, "key")
      /\ op' = [op EXCEPT ![p] = o]
  BY DEF MintSecret, Publish
<1>3. TypeOK' /\ OnlyOf(p) /\ Says(p)
  BY <1>1, <1>2 DEF TypeOK, StoreTypeOK, Go, Places, OnlyOf, Says
<1>4. /\ step'[p] = "key" /\ key'[p] = k /\ op'[p] = o
      /\ attempt'[p] = attempt[p] /\ considered'[p] = considered[p]
  BY <1>1, <1>2 DEF TypeOK, StoreTypeOK, Go
<1>5. Local(p)'
  BY <1>1, <1>2, <1>4 DEF Local, Shape, Ownership, Owning, Unfiled, Unopened, Opened, Written,
                    Flushed, Keyed, Signing, Holds, Covered, Filed, Idle, Publishing
<1> QED BY <1>1, <1>2, <1>3, <1>4, <1>5, UnmovedStep DEF VisibleOnDisk

LEMMA OpenIntentStep ==
    ASSUME IInv, NEW p \in Process, NEW a \in Attempt, OpenIntent(p, a)
    PROVE  IInv'
<1> DEFINE o == [pc |-> "link", name |-> IntentName(a), body |-> IntentBody(a), written |-> FALSE]
<1>1. /\ TypeOK /\ Local(p) /\ VisibleOnDisk
      /\ op[p] = Idle /\ step[p] = "start"
      /\ o \in Op
  BY OpFacts, NameFacts, BodyFacts
     DEF IInv, Shared, OpenIntent, On, Busy, Op, Steps, Value
<1>2. /\ UNCHANGED <<visible, disk, owed, key, considered, sent, resolved, crashes>>
      /\ attempt' = [attempt EXCEPT ![p] = a] /\ Go(p, "intent")
      /\ op' = [op EXCEPT ![p] = o]
  BY DEF OpenIntent, Publish
<1>3. /\ TypeOK' /\ OnlyOf(p) /\ Says(p)
      /\ \A q \in Process : attempt[q] # a
      /\ a \notin sent
  BY <1>1, <1>2 DEF TypeOK, StoreTypeOK, Go, Places, OnlyOf, Says, OpenIntent, FreshAttempt
<1>4. /\ step'[p] = "intent" /\ attempt'[p] = a /\ op'[p] = o
      /\ key'[p] = key[p] /\ considered'[p] = considered[p]
  BY <1>1, <1>2 DEF TypeOK, StoreTypeOK, Go
<1>5. /\ \A ns \in disk : ~Filed(ns, a) /\ ns[IntentName(a)] = Absent
      /\ \A e \in owed : e[1] # ReceiptName(a) /\ e[1] # IntentName(a)
  BY NameFacts DEF OpenIntent, FreshAttempt, Filed
<1>6. \A q \in Process : step'[q] = "quarantine" => op'[q].name # ReceiptName(a)
  <2> SUFFICES ASSUME NEW q \in Process, step'[q] = "quarantine"
               PROVE  op'[q].name # ReceiptName(a)
    OBVIOUS
  <2>1. q # p /\ step[q] = "quarantine" /\ op'[q] = op[q] /\ Shape(q)
    BY <1>3, <1>4 DEF OnlyOf, IInv, Local
  <2> QED BY <1>1, <1>3, <2>1, NameFacts DEF Shape, TypeOK
<1>7. Unfiled(p)' /\ Unopened(p)'
  BY <1>2, <1>4, <1>5, <1>6 DEF Unfiled, Unopened, Filed
<1>8. Local(p)'
  BY <1>1, <1>2, <1>3, <1>4, <1>7
     DEF Local, Shape, Ownership, Owning, Opened, Written,
         Flushed, Keyed, Signing, Holds, Covered, Filed, Idle, Publishing
<1> QED BY <1>1, <1>2, <1>3, <1>4, <1>8, UnmovedStep DEF VisibleOnDisk

LEMMA SendStep ==
    ASSUME IInv, NEW p \in Process, Send(p)
    PROVE  IInv'
<1>1. /\ TypeOK /\ Local(p) /\ VisibleOnDisk
      /\ op[p] = Idle /\ step[p] = "ready" /\ attempt[p] \in Attempt
  BY OpFacts DEF IInv, Shared, Send, On, Busy, Local, Ownership, Owning
<1>2. /\ UNCHANGED <<storeVars, attempt, key, considered, resolved, crashes>>
      /\ sent' = sent \cup {attempt[p]} /\ Go(p, "receipt")
  BY DEF Send
<1>3. TypeOK' /\ OnlyOf(p) /\ Says(p)
  BY <1>1, <1>2 DEF TypeOK, StoreTypeOK, storeVars, Go, Places, OnlyOf, Says
<1>4. /\ step'[p] = "receipt" /\ attempt'[p] = attempt[p] /\ op'[p] = Idle
      /\ key'[p] = key[p] /\ considered'[p] = considered[p]
      /\ visible' = visible /\ disk' = disk /\ owed' = owed /\ resolved' = resolved
      /\ \A q \in Process : step'[q] = "quarantine" => step[q] = "quarantine" /\ op'[q] = op[q]
  BY <1>1, <1>2 DEF TypeOK, storeVars, Go
<1>5. Unfiled(p)'
  BY <1>1, <1>4 DEF Local, Unfiled, Filed
<1>6. Local(p)'
  BY <1>1, <1>2, <1>4, <1>5 DEF Local, Shape, Ownership, Owning, Unopened, Opened, Written,
                         Flushed, Keyed, Signing, Holds, Covered, Filed, Idle
<1>7. \A ns \in disk' : Trace(ns, attempt[p])
  BY <1>1, <1>4 DEF Local, Opened, Trace
<1> QED BY <1>1, <1>2, <1>3, <1>4, <1>6, <1>7, UnmovedStep DEF VisibleOnDisk

LEMMA WriteReceiptStep ==
    ASSUME IInv, NEW p \in Process, WriteReceipt(p)
    PROVE  IInv'
<1> DEFINE k == visible[SecretName][3]
           o == [pc |-> "link", name |-> ReceiptName(attempt[p]),
                 body |-> ReceiptBody(attempt[p], k), written |-> FALSE]
<1>1. /\ TypeOK /\ Local(p) /\ VisibleOnDisk /\ SecretsSound /\ Holds(SecretName)
      /\ op[p] = Idle /\ step[p] = "receipt" /\ attempt[p] \in Attempt
  BY OpFacts DEF IInv, Shared, WriteReceipt, On, Busy, Local, Ownership, Owning
<1>2. o \in Op
  <2>1. k \in Key
    BY <1>1, BodyFacts DEF Holds, VisibleOnDisk, SecretsSound
  <2> QED BY <1>1, <2>1, NameFacts, BodyFacts DEF Op, Steps, Value
<1>3. /\ UNCHANGED <<visible, disk, owed, attempt, key, considered, sent, resolved, crashes>>
      /\ Go(p, "publish")
      /\ op' = [op EXCEPT ![p] = o]
  BY DEF WriteReceipt, Publish
<1>4. TypeOK' /\ OnlyOf(p) /\ Says(p)
  BY <1>1, <1>2, <1>3 DEF TypeOK, StoreTypeOK, Go, Places, OnlyOf, Says
<1>5. /\ step'[p] = "publish" /\ attempt'[p] = attempt[p] /\ op'[p] = o
      /\ key'[p] = key[p] /\ considered'[p] = considered[p]
      /\ \A q \in Process : step'[q] = "quarantine" => step[q] = "quarantine" /\ op'[q] = op[q]
  BY <1>1, <1>3 DEF TypeOK, StoreTypeOK, Go
<1>6. Unfiled(p)'
  BY <1>1, <1>3, <1>5 DEF Local, Unfiled, Filed
<1>7. Shape(p)'
  BY <1>3, <1>5 DEF Shape, Publishing
<1>8. Local(p)'
  BY <1>1, <1>3, <1>5, <1>6, <1>7 DEF Local, Ownership, Owning, Unopened, Opened, Written,
                         Flushed, Keyed, Signing, Holds, Covered, Filed, Idle
<1> QED BY <1>1, <1>3, <1>4, <1>5, <1>8, UnmovedStep DEF VisibleOnDisk

(* A removal begins: the intent is accounted for by then.                  *)
LEMMA RemoveStep ==
    ASSUME IInv, NEW p \in Process, NEW a \in sent, Remove(p, IntentName(a)),
           step[p] \in {"resolve", "reconcile"},
           step[p] = "resolve" => a = attempt[p],
           Filed(visible, a),
           UNCHANGED <<visible, disk, owed, step, attempt, key, sent, resolved, crashes>>,
           considered' \in [Process -> SUBSET Attempt],
           \A q \in Process \ {p} : considered'[q] = considered[q],
           considered'[p] \subseteq considered[p]
    PROVE  IInv'
<1> DEFINE o == [pc |-> "unlink", name |-> IntentName(a), body |-> Absent, written |-> FALSE]
<1>1. /\ TypeOK /\ Local(p) /\ VisibleOnDisk /\ op[p] = Idle /\ a \in Attempt
  BY OpFacts DEF IInv, Shared, Remove, Busy, TypeOK
<1>2. o \in Op
  BY <1>1, NameFacts DEF Op, Steps, Value
<1>3. op' = [op EXCEPT ![p] = o]
  BY DEF Remove
<1>4. TypeOK' /\ OnlyOf(p) /\ Says(p) /\ op'[p] = o
  BY <1>1, <1>2, <1>3 DEF TypeOK, StoreTypeOK, OnlyOf, Says
<1>5. Covered(p)'
  <2>1. \A b \in Attempt : o.name = IntentName(b) => b = a
    BY <1>1, NameFacts
  <2>2. \A b \in Attempt : o.name # ReceiptName(b)
    BY <1>1, NameFacts
  <2> QED BY <1>1, <1>4, <2>1, <2>2 DEF Local, Covered, Filed
<1>6. Shape(p)' /\ Ownership(p)' /\ Unfiled(p)' /\ Unopened(p)'
  BY <1>1, <1>4 DEF Local, Shape, Ownership, Owning, Unfiled, Unopened, Removing
<1>7. Opened(p)' /\ Written(p)' /\ Flushed(p)' /\ Keyed(p)'
  BY <1>1, <1>4 DEF Local, Opened, Written, Flushed, Keyed, Signing, Holds
<1> HIDE DEF o
<1>8. Local(p)'
  BY <1>5, <1>6, <1>7 DEF Local
<1> QED BY <1>1, <1>4, <1>8, UnmovedStep DEF VisibleOnDisk

LEMMA ResolveOwnStep ==
    ASSUME IInv, NEW p \in Process, ResolveOwn(p)
    PROVE  IInv'
<1>1. /\ TypeOK /\ Local(p) /\ step[p] = "resolve"
  BY DEF IInv, ResolveOwn, On
<1>2. attempt[p] \in sent /\ Filed(visible, attempt[p])
  BY <1>1 DEF Local, Ownership, Covered
<1>3. /\ Remove(p, IntentName(attempt[p]))
      /\ UNCHANGED <<visible, disk, owed, step, attempt, key, considered, sent, resolved, crashes>>
  BY DEF ResolveOwn, trailVars
<1> QED BY <1>1, <1>2, <1>3, RemoveStep DEF TypeOK

LEMMA BeginReconcileStep ==
    ASSUME IInv, NEW p \in Process, BeginReconcile(p)
    PROVE  IInv'
<1> DEFINE as == {a \in Attempt : Holds(IntentName(a)) /\ Verified(visible, a)}
<1>1. /\ TypeOK /\ Local(p) /\ VisibleOnDisk /\ ReceiptsSent /\ SecretsSound
      /\ op[p] = Idle /\ step[p] = "idle"
  BY OpFacts DEF IInv, Shared, BeginReconcile, On, Busy
<1>2. \A a \in as : a \in sent /\ Filed(visible, a)
  <2> SUFFICES ASSUME NEW a \in Attempt, Verified(visible, a)
               PROVE  visible[ReceiptName(a)] # Absent
    BY <1>1 DEF VisibleOnDisk, ReceiptsSent, Filed
  <2>1. \E k \in Key : visible[SecretName] = SecretBody(k)
    BY <1>1 DEF Verified, VisibleOnDisk, SecretsSound
  <2> QED BY <2>1, BodyFacts DEF Verified
<1>3. /\ UNCHANGED <<storeVars, attempt, key, sent, resolved, crashes>>
      /\ considered' = [considered EXCEPT ![p] = as] /\ Go(p, "reconcile")
  BY DEF BeginReconcile
<1>4. as \subseteq Attempt
  OBVIOUS
<1> HIDE DEF as
<1>5. TypeOK' /\ OnlyOf(p) /\ Says(p)
  BY <1>1, <1>3, <1>4 DEF TypeOK, StoreTypeOK, storeVars, Go, Places, OnlyOf, Says
<1>6. /\ step'[p] = "reconcile" /\ attempt'[p] = attempt[p] /\ op'[p] = Idle
      /\ key'[p] = key[p] /\ considered'[p] = as
      /\ visible' = visible /\ disk' = disk /\ owed' = owed /\ sent' = sent
      /\ resolved' = resolved
  BY <1>1, <1>3 DEF TypeOK, storeVars, Go
<1>7. Covered(p)'
  <2>1. considered'[p] \subseteq sent'
    BY <1>2, <1>6
  <2>2. \A a \in considered'[p] : Filed(visible, a)'
    BY <1>2, <1>6 DEF Filed
  <2>3. step'[p] # "publish" /\ step'[p] # "resolve" /\ op'[p].pc # "unlink"
    BY <1>6 DEF Idle
  <2> QED BY <2>1, <2>2, <2>3 DEF Covered
<1>8. Local(p)'
  BY <1>1, <1>6, <1>7 DEF Local, Shape, Ownership, Owning, Unfiled, Unopened, Opened, Written,
                          Flushed, Keyed, Signing, Holds, Idle
<1> QED BY <1>1, <1>5, <1>6, <1>8, UnmovedStep DEF VisibleOnDisk

LEMMA ResolveNextStep ==
    ASSUME IInv, NEW p \in Process, NEW a \in Attempt, ResolveNext(p, a)
    PROVE  IInv'
<1>1. /\ TypeOK /\ Local(p) /\ VisibleOnDisk /\ step[p] = "reconcile" /\ op[p] = Idle
      /\ a \in sent /\ Filed(visible, a)
  BY OpFacts DEF IInv, Shared, ResolveNext, On, Busy, Local, Covered
<1>2. /\ UNCHANGED <<visible, disk, owed, step, attempt, key, sent, resolved, crashes>>
      /\ considered' = [considered EXCEPT ![p] = @ \ {a}]
      /\ Remove(p, IntentName(a)) \/ op' = op
  BY DEF ResolveNext
<1>3. /\ considered' \in [Process -> SUBSET Attempt]
      /\ \A q \in Process \ {p} : considered'[q] = considered[q]
      /\ considered'[p] \subseteq considered[p]
  BY <1>1, <1>2 DEF TypeOK
<1>4. CASE Remove(p, IntentName(a))
  BY <1>1, <1>2, <1>3, <1>4, RemoveStep
<1>5. CASE op' = op
  <2>1. TypeOK' /\ OnlyOf(p) /\ Says(p)
    BY <1>1, <1>2, <1>3, <1>5 DEF TypeOK, StoreTypeOK, OnlyOf, Says
  <2>2. Local(p)'
    BY <1>1, <1>2, <1>3, <1>5 DEF Local, Shape, Ownership, Owning, Unfiled, Unopened, Opened,
                  Written, Flushed, Keyed, Signing, Holds, Covered, Filed, Idle
  <2> QED BY <1>1, <1>2, <2>1, <2>2, UnmovedStep DEF VisibleOnDisk
<1> QED BY <1>2, <1>4, <1>5

(* A reconciliation goes on after one entry.                               *)
LEMMA NextEntry ==
    ASSUME IInv, NEW p \in Process, step[p] = "reconcile", FindGone(p) \/ RemovalDurable(p)
    PROVE  IInv'
<1>1. /\ TypeOK /\ Local(p) /\ VisibleOnDisk /\ Idle \in Op
  BY DEF IInv, Shared, Idle, Op, Steps, Value
<1>2. /\ UNCHANGED <<visible, step, attempt, key, considered, sent, resolved, crashes>>
      /\ op' = [op EXCEPT ![p] = Idle]
      /\ op[p].pc # "idle"
      /\ \/ disk' = disk /\ owed' = owed
         \/ Removed(p)
  BY RemovalSays DEF FindGone, RemovalDurable, UnlinkMisses, Removed, At, Done
<1>3. /\ disk' \subseteq disk /\ visible \in disk'
      /\ owed' \subseteq Name \X Value
      /\ \A e \in owed' : \/ e \in owed
                         \/ /\ e[1] = op[p].name
                            /\ \A ns \in disk' : ns[e[1]] = e[2]
                            /\ e[1] # SecretName
                            /\ \A a \in Attempt : e[1] # AsideName(a)
  <2>1. CASE disk' = disk /\ owed' = owed
    BY <1>1, <2>1 DEF VisibleOnDisk, TypeOK, StoreTypeOK
  <2>2. CASE Removed(p)
    BY <1>1, <2>2, RemovalSays DEF TypeOK, StoreTypeOK, Value
  <2> QED BY <1>2, <2>1, <2>2
<1>4. TypeOK' /\ OnlyOf(p) /\ Says(p) /\ op'[p] = Idle
  BY <1>1, <1>2, <1>3 DEF TypeOK, StoreTypeOK, OnlyOf, Says
<1>5. Local(p)'
  BY <1>1, <1>2, <1>3, <1>4 DEF Local, Shape, Ownership, Owning, Unfiled, Unopened, Opened,
                  Written, Flushed, Keyed, Signing, Holds, Covered, Filed, Idle
<1> QED BY <1>2, <1>3, <1>4, <1>5, UnmovedStep

-------------------------------------------------------------------------------
(* The steps that synchronise a publication.                               *)

LEMMA SyncStep ==
    ASSUME IInv, NEW p \in Process, SyncDirectory(p), UNCHANGED trailVars
    PROVE  IInv'
<1>1. /\ TypeOK /\ Local(p) /\ VisibleOnDisk /\ op[p] \in Op /\ op[p].pc = "sync"
  BY DEF IInv, Shared, TypeOK, StoreTypeOK, SyncDirectory, At
<1>2. /\ op' = [op EXCEPT ![p].pc = "resync"]
      /\ UNCHANGED <<visible, owed, step, attempt, key, considered, sent, resolved, crashes>>
      /\ disk' = {visible}
  BY DEF SyncDirectory, Sync, trailVars
<1>3. /\ op'[p] \in Op /\ op'[p].pc = "resync" /\ op'[p].name = op[p].name
      /\ op'[p].body = op[p].body /\ op'[p].written = op[p].written
  BY <1>1, <1>2 DEF TypeOK, StoreTypeOK, Op, Steps
<1>4. TypeOK' /\ OnlyOf(p) /\ Says(p)
  BY <1>1, <1>2, <1>3 DEF TypeOK, StoreTypeOK, OnlyOf, Says, VisibleOnDisk
<1>5. step[p] \in {"key", "intent", "publish"}
  BY <1>1, OpFacts DEF Publishing
<1>6. Shape(p)' /\ Ownership(p)' /\ Unopened(p)' /\ Opened(p)'
  BY <1>1, <1>2, <1>3, <1>5
     DEF Local, Shape, Ownership, Owning, Unopened, Opened, Publishing
<1>7. Unfiled(p)'
  BY <1>1, <1>2, <1>3, <1>4, <1>5 DEF Local, Unfiled, Filed, OnlyOf, VisibleOnDisk
<1>8. Written(p)' /\ Flushed(p)' /\ Keyed(p)' /\ Covered(p)'
  BY <1>1, <1>2, <1>3, <1>5
     DEF Local, Written, Flushed, Keyed, Holds, Covered, Filed
<1> QED BY <1>1, <1>2, <1>4, <1>6, <1>7, <1>8, UnmovedStep DEF VisibleOnDisk, Local

(* What a publication says once it is complete.                            *)
LEMMA PublicationSays ==
    ASSUME IInv, NEW p \in Process, Published(p)
    PROVE  /\ visible' = visible /\ disk' = {visible} /\ disk' \subseteq disk
           /\ op' = [op EXCEPT ![p] = Idle] /\ op[p].pc = "resync"
           /\ owed' \subseteq Name \X Value
           /\ \A e \in owed' : \/ e \in owed
                              \/ /\ op[p].written /\ e = <<op[p].name, op[p].body>>
                                 /\ visible[op[p].name] = op[p].body
                                 /\ op[p].body # Absent
                                 /\ \A a \in Attempt : op[p].name # AsideName(a)
<1>1. /\ TypeOK /\ Local(p) /\ VisibleOnDisk
      /\ op[p].name \in Name /\ op[p].body \in Body
      /\ step[p] \in {"key", "intent", "publish"}
  BY OpFacts DEF IInv, Shared, Published, At, Publishing
<1>2. op[p].written /\ Holds(op[p].name) => visible[op[p].name] = op[p].body
  BY DEF IInv, Local, Written, Published, At, Holds
<1>3. \A a \in Attempt : op[p].name # AsideName(a)
  BY <1>1, NameFacts DEF Local, Shape, Ownership, Owning
<1>4. /\ visible' = visible /\ disk' = {visible} /\ op[p].pc = "resync"
      /\ op' = [op EXCEPT ![p] = Idle]
      /\ owed' \in {owed, owed \cup {<<op[p].name, op[p].body>>}}
      /\ owed' = owed \/ (op[p].written /\ Holds(op[p].name))
  BY DEF Published, At, Sync, Done, Owe
<1> QED BY <1>1, <1>2, <1>3, <1>4, StoreAssumption DEF TypeOK, StoreTypeOK, VisibleOnDisk, Value

(* What the process goes on with.                                          *)
LEMMA PublicationStep ==
    ASSUME IInv, NEW p \in Process, Published(p), NEW place \in Places, Go(p, place),
           UNCHANGED <<attempt, considered, sent, resolved, crashes>>,
           NEW k \in Key \cup {NoKey}, key' = [key EXCEPT ![p] = k],
           place # "quarantine", Local(p)'
    PROVE  IInv'
<1>1. /\ TypeOK /\ Idle \in Op
  BY DEF IInv, Idle, Op, Steps, Value
<1>2. TypeOK' /\ OnlyOf(p) /\ Says(p)
  BY <1>1, PublicationSays DEF TypeOK, StoreTypeOK, Go, OnlyOf, Says
<1> QED BY <1>2, PublicationSays, UnmovedStep

LEMMA SecretPublishedStep ==
    ASSUME IInv, NEW p \in Process, SecretPublished(p)
    PROVE  IInv'
<1> DEFINE k == IF op[p].written THEN key[p] ELSE visible[SecretName][3]
<1>1. /\ TypeOK /\ Local(p) /\ VisibleOnDisk /\ SecretsSound /\ step[p] = "key"
      /\ Published(p) /\ Go(p, "start")
      /\ UNCHANGED <<attempt, considered, sent, resolved, crashes>>
      /\ key' = [key EXCEPT ![p] = k]
  BY DEF IInv, Shared, SecretPublished
<1>2. /\ Holds(SecretName) /\ visible[SecretName][3] \in Key /\ key[p] \in Key
      /\ op[p].name = SecretName /\ op[p].body = SecretBody(key[p])
      /\ op[p].pc = "resync"
  BY <1>1, BodyFacts, PublicationSays
     DEF Local, Keyed, Shape, Holds, VisibleOnDisk, SecretsSound
<1>3. k \in Key /\ k = visible[SecretName][3]
  BY <1>1, <1>2, BodyFacts DEF Local, Written, Holds
<1> HIDE DEF k
<1>4. /\ step'[p] = "start" /\ key'[p] = k /\ op'[p] = Idle /\ visible' = visible
      /\ attempt'[p] = attempt[p] /\ considered'[p] = considered[p] /\ sent' = sent
  BY <1>1, PublicationSays DEF TypeOK, StoreTypeOK, Go
<1>5. Local(p)'
  BY <1>1, <1>2, <1>3, <1>4
     DEF Local, Shape, Ownership, Owning, Unfiled, Unopened, Opened, Written, Flushed, Keyed,
         Signing, Holds, Covered, Filed, Idle
<1> QED BY <1>1, <1>3, <1>5, PublicationStep DEF Places

LEMMA IntentPublishedStep ==
    ASSUME IInv, NEW p \in Process, IntentPublished(p)
    PROVE  IInv'
<1>1. /\ TypeOK /\ Local(p) /\ VisibleOnDisk /\ step[p] = "intent" /\ op[p].pc = "resync"
      /\ Published(p) /\ Go(p, "ready")
      /\ UNCHANGED <<attempt, key, considered, sent, resolved, crashes>>
  BY PublicationSays DEF IInv, Shared, IntentPublished
<1>2. /\ step'[p] = "ready" /\ key'[p] = key[p] /\ op'[p] = Idle /\ visible' = visible
      /\ attempt'[p] = attempt[p] /\ considered'[p] = considered[p] /\ disk' = {visible}
  BY <1>1, PublicationSays DEF TypeOK, StoreTypeOK, Go
<1>3. Unfiled(p)'
  <2>1. \A e \in owed' : e[1] # ReceiptName(attempt[p])
    BY <1>1, PublicationSays, NameFacts DEF Local, Unfiled, Shape, Ownership, Owning
  <2>2. \A q \in Process : step'[q] = "quarantine" => step[q] = "quarantine" /\ op'[q] = op[q]
    BY <1>1, <1>2, PublicationSays DEF TypeOK, StoreTypeOK, Go
  <2> QED BY <1>1, <1>2, <2>1, <2>2 DEF Local, Unfiled, Filed, VisibleOnDisk
<1>4. Opened(p)'
  BY <1>1, <1>2 DEF Local, Opened
<1>5. Local(p)'
  BY <1>1, <1>2, <1>3, <1>4
     DEF Local, Shape, Ownership, Owning, Unopened, Written, Flushed, Keyed,
         Signing, Holds, Covered, Filed, Idle
<1>6. key' = [key EXCEPT ![p] = key[p]] /\ key[p] \in Key \cup {NoKey}
  BY <1>1 DEF TypeOK
<1> QED BY <1>1, <1>5, <1>6, PublicationStep DEF Places

LEMMA ReceiptPublishedStep ==
    ASSUME IInv, NEW p \in Process, ReceiptPublished(p)
    PROVE  IInv'
<1>1. /\ TypeOK /\ Local(p) /\ VisibleOnDisk /\ step[p] = "publish" /\ op[p].pc = "resync"
      /\ Published(p) /\ Go(p, "resolve")
      /\ UNCHANGED <<attempt, key, considered, sent, resolved, crashes>>
  BY PublicationSays DEF IInv, Shared, ReceiptPublished
<1>2. /\ step'[p] = "resolve" /\ key'[p] = key[p] /\ op'[p] = Idle /\ visible' = visible
      /\ attempt'[p] = attempt[p] /\ considered'[p] = considered[p]
  BY <1>1, PublicationSays DEF TypeOK, StoreTypeOK, Go
<1>3. Local(p)'
  BY <1>1, <1>2
     DEF Local, Shape, Ownership, Owning, Unfiled, Unopened, Opened, Written, Flushed, Keyed,
         Signing, Holds, Covered, Filed, Idle
<1>4. key' = [key EXCEPT ![p] = key[p]] /\ key[p] \in Key \cup {NoKey}
  BY <1>1 DEF TypeOK
<1> QED BY <1>1, <1>3, <1>4, PublicationStep DEF Places

-------------------------------------------------------------------------------
(* The steps that show another directory.                                  *)

(* What the others need of the new directory: the key stays, and so does   *)
(* what they count on finding, or on not finding.                          *)
Respects(q) ==
    /\ Holds(SecretName) => visible'[SecretName] = visible[SecretName]
    /\ (step[q] \in {"intent", "ready", "receipt"} \/ (step[q] = "publish" /\ op[q].pc = "link"))
           => ~Filed(visible', attempt[q])
    /\ step[q] \in {"intent", "ready"} =>
           visible'[IntentName(attempt[q])] = visible[IntentName(attempt[q])]
    /\ op[q].pc \in {"sync", "resync"} =>
           \/ visible'[op[q].name] = visible[op[q].name]
           \/ op[q].name # SecretName /\ visible'[op[q].name] = Absent
    /\ op[q].pc = "flush" => visible'[op[q].name] = Absent

(* What is accounted for stays so.                                         *)
KeepsFiled ==
    \A a \in Attempt : /\ Filed(visible, a) => Filed(visible', a)
                       /\ visible[AsideName(a)] # Absent => visible'[AsideName(a)] # Absent

LEMMA OthersShown ==
    ASSUME IInv, NEW p \in Process, NEW q \in Process, p # q, OnlyOf(p),
           Respects(q), KeepsFiled, sent' = sent, owed' \subseteq owed,
           disk' \subseteq disk \cup {visible'},
           step'[p] = "quarantine" =>
               \/ step[p] = "quarantine" /\ op'[p].name = op[p].name
               \/ (step[q] \in {"intent", "ready", "receipt"}
                    \/ (step[q] = "publish" /\ op[q].pc = "link"))
                      => op'[p].name # ReceiptName(attempt[q])
    PROVE  Local(q)'
<1>1. /\ Local(q) /\ VisibleOnDisk /\ sent \subseteq Attempt
      /\ step'[q] = step[q] /\ attempt'[q] = attempt[q] /\ key'[q] = key[q]
      /\ considered'[q] = considered[q] /\ op'[q] = op[q]
  BY DEF IInv, Shared, TypeOK, OnlyOf
<1>2. Shape(q)'
  BY <1>1 DEF Local, Shape, Keyed, Signing, Respects
<1>3. Ownership(q)'
  BY <1>1 DEF Local, Ownership
<1>4. Unfiled(q)'
  <2> SUFFICES ASSUME (step[q] \in {"intent", "ready", "receipt"}
                       \/ (step[q] = "publish" /\ op[q].pc = "link"))
               PROVE  /\ \A ns \in disk' : ~Filed(ns, attempt[q])
                      /\ \A e \in owed' : e[1] # ReceiptName(attempt[q])
                      /\ \A r \in Process : step'[r] = "quarantine" =>
                                               op'[r].name # ReceiptName(attempt[q])
    BY <1>1 DEF Unfiled, Filed
  <2>1. \A ns \in disk' : ~Filed(ns, attempt[q])
    BY <1>1 DEF Local, Unfiled, Respects
  <2>2. \A e \in owed' : e[1] # ReceiptName(attempt[q])
    BY <1>1 DEF Local, Unfiled
  <2>3. \A r \in Process : step'[r] = "quarantine" => op'[r].name # ReceiptName(attempt[q])
    BY <1>1 DEF Local, Unfiled, OnlyOf
  <2> QED BY <2>1, <2>2, <2>3
<1>5. Unopened(q)' /\ Opened(q)'
  BY <1>1 DEF Local, Unopened, Opened, Respects, VisibleOnDisk
<1>6. Written(q)' /\ Flushed(q)'
  BY <1>1 DEF Local, Written, Flushed, Respects
<1>7. Keyed(q)'
  BY <1>1 DEF Local, Keyed, Holds, Respects
<1>8. Covered(q)'
  <2>1. \A a \in considered'[q] : Filed(visible', a)
    BY <1>1 DEF Local, Covered, KeepsFiled
  <2>2. (step[q] = "publish" /\ op[q].pc # "link") \/ step[q] = "resolve"
           => Filed(visible', attempt[q])
    BY <1>1 DEF Local, Covered, KeepsFiled, Ownership, Owning
  <2>3. op[q].pc = "unlink" =>
           \A a \in Attempt :
               /\ op[q].name = IntentName(a) => Filed(visible', a)
               /\ op[q].name = ReceiptName(a) => visible'[AsideName(a)] # Absent
    BY <1>1 DEF Local, Covered, KeepsFiled
  <2> QED BY <1>1, <2>1, <2>2, <2>3 DEF Local, Covered, Filed
<1> QED BY <1>2, <1>3, <1>4, <1>5, <1>6, <1>7, <1>8 DEF Local

(* The name a link takes, and what it finds there.                         *)
LEMMA LinkTarget ==
    ASSUME IInv, NEW p \in Process, op[p].pc = "link"
    PROVE  /\ op[p].name \in Name /\ op[p].body \in Body /\ op[p].body # Absent
           /\ \/ /\ step[p] = "key" /\ op[p].name = SecretName
                 /\ \E k \in Key : op[p].body = SecretBody(k)
              \/ /\ step[p] = "intent" /\ attempt[p] \in Attempt \ sent
                 /\ op[p].name = IntentName(attempt[p])
                 /\ \A ns \in disk : ns[op[p].name] = Absent
                 /\ \A e \in owed : e[1] # op[p].name
              \/ /\ step[p] = "publish" /\ attempt[p] \in Attempt /\ attempt[p] \in sent
                 /\ op[p].name = ReceiptName(attempt[p])
                 /\ op[p].body = ReceiptBody(attempt[p], visible[SecretName][3])
                 /\ Holds(SecretName)
                 /\ \A ns \in disk : ~Filed(ns, attempt[p])
                 /\ \A e \in owed : e[1] # op[p].name
           /\ \A q \in Process \ {p} :
                  op[q].pc # "idle" /\ op[p].name # SecretName => op[q].name # op[p].name
<1>1. Local(p) /\ step[p] \in {"key", "intent", "publish"}
  BY OpFacts DEF IInv, Publishing
<1>2. op[p].name \in Name /\ op[p].body \in Body /\ op[p].body # Absent
  BY OpFacts, StoreAssumption DEF Publishing
<1>3. CASE step[p] = "key"
  BY <1>1, <1>2, <1>3 DEF Local, Shape
<1>4. CASE step[p] = "intent"
  BY <1>1, <1>2, <1>4, NamesApart DEF Local, Shape, Ownership, Owning, Unopened
<1>5. CASE step[p] = "publish"
  BY <1>1, <1>2, <1>5, NamesApart DEF Local, Shape, Ownership, Owning, Unfiled, Keyed, Signing
<1> QED BY <1>1, <1>3, <1>4, <1>5

LEMMA LinkShared ==
    ASSUME IInv, NEW p \in Process, op[p].pc = "link", ~Holds(op[p].name),
           visible' = [visible EXCEPT ![op[p].name] = op[p].body],
           disk' = disk \cup {visible'}, UNCHANGED <<owed, sent, resolved>>
    PROVE  Shared'
<1> DEFINE n == op[p].name
<1>1. /\ TypeOK /\ Shared
      /\ \A m \in Name \ {n} : visible'[m] = visible[m]
      /\ visible'[n] = op[p].body /\ visible[n] = Absent
      /\ n \in Name /\ visible \in disk
  BY LinkTarget DEF IInv, TypeOK, StoreTypeOK, Namespace, Shared, VisibleOnDisk, Holds
<1> HIDE DEF n
<1>2. VisibleOnDisk'
  BY DEF VisibleOnDisk
<1>3. OwedKept'
  <2>1. \A e \in owed : e[1] \in Name /\ e[1] # n
    <3>1. \A e \in owed : e[1] = SecretName => visible[SecretName] # Absent
      BY <1>1 DEF Shared, OwedKept, OwedNames
    <3> QED BY <1>1, <3>1, LinkTarget DEF TypeOK, StoreTypeOK, n
  <2> QED BY <1>1, <2>1 DEF Shared, OwedKept
<1>4. OwedNames'
  BY <1>1 DEF Shared, OwedNames
<1>5. SecretsSound'
  <2>1. CASE n = SecretName
    <3>1. \E k \in Key : visible'[SecretName] = SecretBody(k)
      BY <1>1, <2>1, LinkTarget, NameFacts DEF n
    <3> QED BY <1>1, <3>1 DEF Shared, SecretsSound
  <2>2. CASE n # SecretName
    <3>1. visible'[SecretName] = visible[SecretName]
      BY <1>1, <2>2, NameFacts
    <3> QED BY <1>1, <3>1 DEF Shared, SecretsSound
  <2> QED BY <2>1, <2>2
<1>6. ReceiptsSent'
  <2>1. \A a \in Attempt : visible'[ReceiptName(a)] # Absent => a \in sent
    BY <1>1, LinkTarget, NameFacts DEF Shared, ReceiptsSent, n
  <2> QED BY <1>1, <2>1 DEF Shared, ReceiptsSent
<1>7. ReceiptsSigned'
  <2>1. ASSUME NEW a \in Attempt, visible'[ReceiptName(a)] # Absent
        PROVE  Verified(visible', a)
    <3>1. CASE visible[ReceiptName(a)] # Absent
      <4>1. Verified(visible, a)
        BY <1>1, <3>1 DEF Shared, ReceiptsSigned
      <4>2. n # SecretName /\ n # ReceiptName(a)
        BY <1>1, <3>1, <4>1 DEF Verified
      <4> QED BY <1>1, <4>1, <4>2, NameFacts DEF Verified
    <3>2. CASE visible[ReceiptName(a)] = Absent
      <4>1. n = ReceiptName(a)
        BY <1>1, <2>1, <3>2, NameFacts
      <4>2. /\ a = attempt[p] /\ op[p].body = ReceiptBody(a, visible[SecretName][3])
            /\ Holds(SecretName) /\ n # SecretName
        BY <4>1, LinkTarget, NameFacts DEF n
      <4> QED BY <1>1, <4>1, <4>2, NameFacts DEF Verified, Holds
    <3> QED BY <3>1, <3>2
  <2> QED BY <1>1, <2>1 DEF Shared, ReceiptsSigned, Verified
<1>8. ResolvedAbsent'
  BY <1>1, LinkTarget, NameFacts DEF Shared, ResolvedAbsent, n
<1>9. Witnessed'
  <2>1. \A a \in Attempt : Trace(visible, a) => Trace(visible', a)
    BY <1>1, NameFacts, LinkTarget DEF Trace, n
  <2> QED BY <1>1, <2>1 DEF Shared, Witnessed, Trace, TypeOK
<1> QED BY <1>2, <1>3, <1>4, <1>5, <1>6, <1>7, <1>8, <1>9 DEF Shared

LEMMA LinkOthers ==
    ASSUME IInv, NEW p \in Process, NEW q \in Process, p # q, op[p].pc = "link",
           ~Holds(op[p].name), visible' = [visible EXCEPT ![op[p].name] = op[p].body]
    PROVE  Respects(q) /\ KeepsFiled
<1> DEFINE n == op[p].name
<1>1. /\ TypeOK /\ Local(q) /\ VisibleOnDisk
      /\ \A m \in Name \ {n} : visible'[m] = visible[m]
      /\ visible[n] = Absent /\ n \in Name
  BY LinkTarget DEF IInv, TypeOK, StoreTypeOK, Namespace, Shared, Holds
<1>2. \A a \in Attempt : n # AsideName(a)
  BY LinkTarget, NameFacts
<1> HIDE DEF n
<1>3. Holds(SecretName) => visible'[SecretName] = visible[SecretName]
  BY <1>1, NameFacts DEF Holds
<1>4. (step[q] \in {"intent", "ready", "receipt"} \/ (step[q] = "publish" /\ op[q].pc = "link"))
         => ~Filed(visible', attempt[q])
  BY <1>1, <1>2, NamesApart, NameFacts
     DEF Local, Unfiled, Filed, VisibleOnDisk, Ownership, Owning, n
<1>5. step[q] \in {"intent", "ready"} =>
         visible'[IntentName(attempt[q])] = visible[IntentName(attempt[q])]
  BY <1>1, NamesApart, NameFacts DEF Local, Ownership, Owning, n
<1>6. ASSUME op[q].pc \in {"sync", "resync", "flush"}
      PROVE  visible'[op[q].name] = visible[op[q].name]
  <2>1. op[q].name \in Name
    BY <1>6, OpFacts, NameFacts DEF Publishing, Removing, IInv, TypeOK
  <2>2. CASE n # SecretName
    <3>1. op[q].name # n
      BY <1>6, <2>2, LinkTarget DEF n
    <3> QED BY <1>1, <2>1, <3>1
  <2>3. CASE n = SecretName
    <3>1. op[q].name # SecretName
      <4>1. CASE op[q].pc = "flush"
        BY <4>1, OpFacts, NameFacts DEF Removing, IInv, TypeOK
      <4>2. CASE op[q].pc \in {"sync", "resync"}
        <5>1. step[q] = "key" => Holds(SecretName)
          BY <1>1, <4>2 DEF Local, Keyed
        <5> QED BY <1>1, <2>3, <4>2, <5>1, OpFacts, NameFacts
                DEF Local, Shape, Ownership, Owning, Publishing, Holds
      <4> QED BY <1>6, <4>1, <4>2
    <3> QED BY <1>1, <2>1, <2>3, <3>1
  <2> QED BY <2>2, <2>3
<1>7. KeepsFiled
  BY <1>1, NameFacts DEF KeepsFiled, Filed
<1> QED BY <1>1, <1>3, <1>4, <1>5, <1>6, <1>7 DEF Respects, Local, Flushed

LEMMA LinkStep ==
    ASSUME IInv, NEW p \in Process, LinkName(p), UNCHANGED trailVars
    PROVE  IInv'
<1> DEFINE n == op[p].name
<1>1. /\ TypeOK /\ Local(p) /\ VisibleOnDisk /\ op[p] \in Op /\ op \in [Process -> Op]
      /\ op[p].pc = "link"
  BY DEF IInv, Shared, TypeOK, StoreTypeOK, LinkName, At
<1>2. /\ n \in Name /\ op[p].body \in Body /\ op[p].body # Absent
      /\ step[p] \in {"key", "intent", "publish"}
  BY <1>1, LinkTarget
<1>3. /\ UNCHANGED <<owed, step, attempt, key, considered, sent, resolved, crashes>>
      /\ op' = [op EXCEPT ![p].pc = "sync", ![p].written = ~Holds(n)]
      /\ Holds(n) => UNCHANGED <<visible, disk>>
      /\ ~Holds(n) => /\ visible' = [visible EXCEPT ![n] = op[p].body]
                      /\ disk' = disk \cup {visible'}
  BY DEF LinkName, Show, trailVars
<1>4. /\ op'[p] \in Op /\ op'[p].pc = "sync" /\ op'[p].name = n /\ op'[p].body = op[p].body
      /\ OnlyOf(p) /\ op' \in [Process -> Op]
  <2>1. op'[p] = [op[p] EXCEPT !.pc = "sync", !.written = ~Holds(n)]
    BY <1>1, <1>3
  <2>2. op'[p] \in Op
    BY <1>1, <2>1 DEF Op, Steps
  <2> QED BY <1>1, <1>3, <2>1, <2>2 DEF Op, OnlyOf
<1>5. op'[p].written = ~Holds(n)
  <2>1. op'[p] = [op[p] EXCEPT !.pc = "sync", !.written = ~Holds(n)]
    BY <1>1, <1>3
  <2> QED BY <1>1, <2>1 DEF Op
<1>6. CASE Holds(n)
  <2>1. TypeOK' /\ Says(p)
    BY <1>1, <1>2, <1>3, <1>4, <1>6 DEF TypeOK, StoreTypeOK, Says
  <2>2. step[p] = "key" /\ n = SecretName
    BY <1>1, <1>6, LinkTarget DEF Holds, VisibleOnDisk, Filed
  <2>3. Local(p)'
    BY <1>1, <1>3, <1>4, <1>5, <1>6, <2>2
       DEF Local, Shape, Ownership, Owning, Unfiled, Unopened, Opened, Written, Flushed,
           Keyed, Signing, Holds, Covered, Filed, Publishing
  <2> QED BY <1>1, <1>3, <1>4, <1>6, <2>1, <2>3, UnmovedStep DEF VisibleOnDisk
<1>7. CASE ~Holds(n)
  <2>1. /\ \A m \in Name \ {n} : visible'[m] = visible[m]
        /\ visible'[n] = op[p].body
        /\ visible' \in Namespace /\ disk' = disk \cup {visible'}
        /\ owed' = owed /\ step' = step /\ attempt' = attempt /\ key' = key
        /\ considered' = considered /\ sent' = sent /\ resolved' = resolved
        /\ crashes' = crashes
    BY <1>1, <1>2, <1>3, <1>7 DEF TypeOK, StoreTypeOK, Namespace, Value
  <2>2. TypeOK'
    BY <1>1, <1>4, <2>1 DEF TypeOK, StoreTypeOK
  <2>3. Shared'
    BY <1>1, <1>3, <1>7, LinkShared
  <2>4. \A q, r \in Process : Unique(q, r)'
    BY <1>4, <2>1, StillUnique
  <2>5. ASSUME NEW q \in Process, q # p PROVE Local(q)'
    <3>1. Respects(q) /\ KeepsFiled
      BY <1>1, <1>3, <1>7, <2>5, LinkOthers
    <3> QED BY <1>2, <1>4, <2>1, <2>5, <3>1, OthersShown
  <2> HIDE DEF n
  <2>6. Shape(p)' /\ Ownership(p)'
    <3>1. step[p] = "publish" => visible'[SecretName] = visible[SecretName]
      BY <1>1, <2>1, LinkTarget, NameFacts DEF n
    <3> QED BY <1>1, <1>2, <1>4, <2>1, <3>1 DEF Local, Shape, Ownership, Owning, Publishing, n
  <2>7. Unfiled(p)'
    <3>1. step[p] = "intent" =>
             n # ReceiptName(attempt[p]) /\ n # AsideName(attempt[p])
      BY <1>1, LinkTarget, NameFacts DEF n
    <3> QED BY <1>1, <1>2, <1>4, <2>1, <3>1, NameFacts
            DEF Local, Unfiled, Filed, OnlyOf, Ownership, Owning, VisibleOnDisk
  <2>8. Unopened(p)' /\ Opened(p)' /\ Written(p)' /\ Flushed(p)'
    BY <1>1, <1>2, <1>4, <2>1, LinkTarget DEF Unopened, Opened, Written, Flushed, n
  <2>9. Keyed(p)'
    <3>1. step[p] = "key" => n = SecretName
      BY <1>1, LinkTarget, NameFacts DEF n
    <3>2. Holds(SecretName) => visible'[SecretName] = visible[SecretName]
      BY <1>7, <2>1, NameFacts DEF Holds
    <3> QED BY <1>1, <1>2, <2>1, <3>1, <3>2 DEF Local, Keyed, Holds
  <2>10. Covered(p)'
    <3>1. \A a \in Attempt : Filed(visible, a) => Filed(visible', a)
      BY <1>7, <2>1, NameFacts DEF Filed, Holds
    <3>2. step[p] = "publish" => Filed(visible', attempt[p])
      BY <1>1, <1>2, <2>1, LinkTarget DEF Filed, n
    <3>3. \A a \in considered[p] : Filed(visible', a)
      BY <1>1, <3>1 DEF Local, Covered, TypeOK
    <3> QED BY <1>1, <1>2, <1>4, <2>1, <3>2, <3>3 DEF Local, Covered, Filed
  <2>11. Local(p)'
    BY <2>6, <2>7, <2>8, <2>9, <2>10 DEF Local
  <2> QED BY <2>2, <2>3, <2>4, <2>5, <2>11 DEF IInv
<1> QED BY <1>6, <1>7

LEMMA TakeAwayShared ==
    ASSUME IInv, NEW p \in Process, TakeAway(p)
    PROVE  Shared' /\ KeepsFiled
<1> DEFINE n == op[p].name
<1>1. /\ TypeOK /\ Shared /\ Covered(p) /\ op[p].pc = "unlink" /\ Holds(n)
      /\ visible' = [visible EXCEPT ![n] = Absent] /\ disk' = disk \cup {visible'}
      /\ owed' = {e \in owed : e[1] # n} /\ sent' = sent
  BY DEF IInv, Local, TakeAway, Unlink, At, Show, Withdraw
<1>2. PICK a \in sent : /\ n = IntentName(a) \/ n = ReceiptName(a)
                        /\ step[p] = "reconcile" => n = IntentName(a)
  <2>1. op[p].pc \in Removing
    BY <1>1 DEF Removing
  <2>2. CASE step[p] \in {"resolve", "reconcile"} /\ \E a \in sent : n = IntentName(a)
    BY <2>2
  <2>3. CASE step[p] = "quarantine" /\ \E a \in sent : n = ReceiptName(a)
    BY <2>3
  <2> QED BY <2>1, <2>2, <2>3, OpFacts
<1>3. /\ a \in Attempt /\ n \in Name /\ n # SecretName
      /\ \A b \in Attempt : n # AsideName(b)
      /\ \A m \in Name \ {n} : visible'[m] = visible[m]
      /\ visible'[n] = Absent /\ visible \in disk
  <2>1. a \in Attempt
    BY <1>1 DEF TypeOK
  <2>2. n \in Name /\ n # SecretName /\ \A b \in Attempt : n # AsideName(b)
    BY <1>2, <2>1, NameFacts
  <2>3. visible \in Namespace /\ visible \in disk
    BY <1>1 DEF TypeOK, StoreTypeOK, Shared, VisibleOnDisk
  <2> QED BY <1>1, <2>1, <2>2, <2>3 DEF Namespace
<1>4. visible'[SecretName] = visible[SecretName]
  BY <1>3, NameFacts
<1>5. KeepsFiled
  <2>1. \A b \in Attempt : visible[AsideName(b)] # Absent => visible'[AsideName(b)] # Absent
    BY <1>3, NameFacts
  <2>2. ASSUME NEW b \in Attempt, visible[ReceiptName(b)] # Absent PROVE Filed(visible', b)
    <3>1. CASE n = ReceiptName(b)
      BY <1>1, <2>1, <3>1 DEF Covered, Filed
    <3>2. CASE n # ReceiptName(b)
      BY <1>3, <2>2, <3>2, NameFacts DEF Filed
    <3> QED BY <3>1, <3>2
  <2> QED BY <2>1, <2>2 DEF KeepsFiled, Filed
<1>6. VisibleOnDisk' /\ OwedKept' /\ OwedNames'
  <2>1. \A e \in owed : e[1] \in Name
    BY <1>1 DEF TypeOK, StoreTypeOK
  <2> QED BY <1>1, <1>3, <2>1 DEF Shared, VisibleOnDisk, OwedKept, OwedNames
<1>7. SecretsSound'
  BY <1>1, <1>3, <1>4 DEF Shared, SecretsSound
<1>8. ReceiptsSent' /\ ReceiptsSigned'
  <2>1. \A b \in Attempt : visible'[ReceiptName(b)] # Absent =>
                               visible'[ReceiptName(b)] = visible[ReceiptName(b)]
    BY <1>3, NameFacts
  <2>2. ReceiptsSent'
    BY <1>1, <1>3, <2>1 DEF Shared, ReceiptsSent
  <2>3. \A b \in Attempt : visible'[ReceiptName(b)] # Absent => Verified(visible', b)
    BY <1>1, <1>3, <1>4, <2>1 DEF Shared, ReceiptsSigned, Verified
  <2>4. ReceiptsSigned'
    BY <1>1, <2>3 DEF Shared, ReceiptsSigned, Verified
  <2> QED BY <2>2, <2>4
<1>9. ResolvedAbsent'
  <2>1. \A b \in Attempt : visible[IntentName(b)] = Absent => visible'[IntentName(b)] = Absent
    BY <1>3, NameFacts
  <2>2. CASE step[p] = "reconcile"
    <3>1. n = IntentName(a) /\ n[2] = a /\ visible[IntentName(a)] # Absent
      BY <1>1, <1>2, <1>3, <2>2, NameFacts DEF Holds
    <3>2. resolved' = [resolved EXCEPT ![a] = @ + 1] /\ resolved[a] = 0
      BY <1>1, <1>3, <2>2, <3>1 DEF TakeAway, Shared, ResolvedAbsent
    <3> QED BY <1>1, <1>3, <2>1, <3>1, <3>2 DEF Shared, ResolvedAbsent, TypeOK
  <2>3. CASE step[p] # "reconcile"
    BY <1>1, <2>1, <2>3 DEF TakeAway, Shared, ResolvedAbsent
  <2> QED BY <2>2, <2>3
<1>10. Witnessed'
  <2>1. ASSUME NEW b \in sent PROVE Trace(visible', b)
    <3>1. b \in Attempt /\ Trace(visible, b)
      BY <1>1, <1>3 DEF Shared, Witnessed, TypeOK
    <3>2. CASE Filed(visible, b)
      BY <1>5, <3>1, <3>2 DEF KeepsFiled, Filed, Trace
    <3>3. CASE visible[IntentName(b)] # Absent /\ ~Filed(visible, b)
      <4>1. n # IntentName(b)
        BY <1>1, <3>1, <3>3 DEF Covered
      <4> QED BY <1>3, <3>1, <3>3, <4>1, NameFacts DEF Trace
    <3> QED BY <3>1, <3>2, <3>3 DEF Trace, Filed
  <2> QED BY <1>1, <2>1 DEF Shared, Witnessed, Trace
<1> QED BY <1>5, <1>6, <1>7, <1>8, <1>9, <1>10 DEF Shared

LEMMA TakeAwayStep ==
    ASSUME IInv, NEW p \in Process, TakeAway(p)
    PROVE  IInv'
<1> DEFINE n == op[p].name
<1>1. /\ TypeOK /\ Local(p) /\ op[p] \in Op /\ op \in [Process -> Op]
      /\ op[p].pc = "unlink"
      /\ visible' = [visible EXCEPT ![n] = Absent] /\ disk' = disk \cup {visible'}
      /\ owed' = {e \in owed : e[1] # n}
      /\ op' = [op EXCEPT ![p].pc = "flush"]
      /\ UNCHANGED <<step, attempt, key, considered, sent, crashes>>
      /\ step[p] \in {"resolve", "reconcile", "quarantine"}
  BY DEF IInv, TypeOK, StoreTypeOK, TakeAway, Unlink, At, Show, Withdraw
<1>2. PICK a \in sent : /\ n = IntentName(a) \/ n = ReceiptName(a)
                        /\ step[p] = "reconcile" => n = IntentName(a)
  <2>1. op[p].pc \in Removing
    BY <1>1 DEF Removing
  <2>2. CASE step[p] \in {"resolve", "reconcile"} /\ \E a \in sent : n = IntentName(a)
    BY <2>2
  <2>3. CASE step[p] = "quarantine" /\ \E a \in sent : n = ReceiptName(a)
    BY <2>3
  <2> QED BY <2>1, <2>2, <2>3, OpFacts
<1>3. /\ a \in Attempt /\ n \in Name /\ n # SecretName
      /\ \A b \in Attempt : n # AsideName(b)
      /\ \A m \in Name \ {n} : visible'[m] = visible[m]
      /\ visible'[n] = Absent /\ visible' \in Namespace
  <2>1. a \in Attempt /\ visible \in Namespace
    BY <1>1 DEF TypeOK, StoreTypeOK
  <2>2. n \in Name /\ n # SecretName /\ \A b \in Attempt : n # AsideName(b)
    BY <1>2, <2>1, NameFacts
  <2> QED BY <1>1, <2>1, <2>2 DEF Namespace, Value
<1>4. Shared' /\ KeepsFiled
  BY TakeAwayShared
<1>5. /\ op'[p] \in Op /\ op'[p].pc = "flush" /\ op'[p].name = n
      /\ OnlyOf(p) /\ op' \in [Process -> Op]
  BY <1>1 DEF Op, Steps, OnlyOf
<1>6. TypeOK'
  <2>1. resolved' \in [Attempt -> Nat]
    BY <1>1, <1>2, <1>3, NameFacts DEF TypeOK, TakeAway
  <2> QED BY <1>1, <1>3, <1>5, <2>1 DEF TypeOK, StoreTypeOK
<1>7. \A q, r \in Process : Unique(q, r)'
  BY <1>1, <1>5, StillUnique
<1>8. ASSUME NEW q \in Process, q # p PROVE Local(q)'
  <2>1. Local(q)
    BY DEF IInv
  <2>2. visible'[SecretName] = visible[SecretName]
    BY <1>3, NameFacts
  <2>3. (step[q] \in {"intent", "ready", "receipt"} \/ (step[q] = "publish" /\ op[q].pc = "link"))
           => ~Filed(visible', attempt[q])
    <3>1. \A m \in Name : visible[m] = Absent => visible'[m] = Absent
      BY <1>3
    <3> QED BY <2>1, <3>1, NameFacts DEF Local, Unfiled, Filed, Ownership, Owning, IInv, Shared,
                                         VisibleOnDisk
  <2>4. step[q] \in {"intent", "ready"} =>
           visible'[IntentName(attempt[q])] = visible[IntentName(attempt[q])]
    BY <1>1, <1>3, <1>8, <2>1, NamesApart, NameFacts DEF Local, Ownership, Owning
  <2>5. op[q].pc \in {"sync", "resync", "flush"} =>
           \/ visible'[op[q].name] = visible[op[q].name]
           \/ op[q].name # SecretName /\ visible'[op[q].name] = Absent
    <3>1. op[q].pc \in {"sync", "resync", "flush"} => op[q].name \in Name
      BY OpFacts, NameFacts, <1>1 DEF Publishing, Removing, TypeOK
    <3> QED BY <1>3, <3>1
  <2>6. Respects(q)
    BY <2>1, <2>2, <2>3, <2>4, <2>5 DEF Respects, Local, Flushed
  <2> QED BY <1>1, <1>4, <1>5, <1>8, <2>6, OthersShown
<1> HIDE DEF n
<1>9. Shape(p)' /\ Ownership(p)' /\ Unfiled(p)' /\ Unopened(p)' /\ Opened(p)'
  BY <1>1, <1>5 DEF Local, Shape, Ownership, Owning, Unfiled, Unopened, Opened, Removing, Idle, n
<1>10. Written(p)' /\ Flushed(p)' /\ Keyed(p)'
  BY <1>1, <1>3, <1>5, NameFacts DEF Local, Written, Flushed, Keyed, Signing, Holds
<1>11. Covered(p)'
  BY <1>1, <1>4, <1>5 DEF Local, Covered, KeepsFiled, Filed, Ownership, Owning, TypeOK
<1> QED BY <1>4, <1>6, <1>7, <1>8, <1>9, <1>10, <1>11 DEF IInv, Local

LEMMA QuarantineStep ==
    ASSUME IInv, NEW p \in Process, NEW a \in Attempt, Quarantine(p, a)
    PROVE  IInv'
<1> DEFINE o == [pc |-> "unlink", name |-> ReceiptName(a), body |-> Absent, written |-> FALSE]
<1>1. /\ TypeOK /\ Shared /\ Local(p) /\ op[p] = Idle /\ step[p] = "idle"
      /\ visible[ReceiptName(a)] # Absent /\ visible[AsideName(a)] = Absent
      /\ visible' = [visible EXCEPT ![AsideName(a)] = visible[ReceiptName(a)]]
      /\ disk' = disk \cup {visible'}
      /\ op' = [op EXCEPT ![p] = o] /\ Go(p, "quarantine")
      /\ UNCHANGED <<owed, attempt, key, considered, sent, resolved, crashes>>
  BY OpFacts DEF IInv, Quarantine, On, Busy, MoveAside, Holds, Show
<1>2. /\ \A m \in Name \ {AsideName(a)} : visible'[m] = visible[m]
      /\ visible'[AsideName(a)] = visible[ReceiptName(a)]
      /\ visible' \in Namespace /\ visible \in disk
  BY <1>1, NameFacts DEF TypeOK, StoreTypeOK, Namespace, Shared, VisibleOnDisk
<1>3. /\ visible'[SecretName] = visible[SecretName]
      /\ \A b \in Attempt : /\ visible'[IntentName(b)] = visible[IntentName(b)]
                            /\ visible'[ReceiptName(b)] = visible[ReceiptName(b)]
                            /\ visible'[AsideName(b)] = IF b = a THEN visible[ReceiptName(a)]
                                                       ELSE visible[AsideName(b)]
  <2>1. \A b \in Attempt : AsideName(b) = AsideName(a) => b = a
    BY NameFacts
  <2> QED BY <1>2, <2>1, NameFacts
<1>4. a \in sent
  BY <1>1, <1>2 DEF Shared, ReceiptsSent
<1>5. /\ step'[p] = "quarantine" /\ op'[p] = o /\ attempt'[p] = attempt[p]
      /\ considered'[p] = considered[p] /\ OnlyOf(p) /\ TypeOK'
  <2>1. o \in Op
    BY NameFacts DEF Op, Steps, Value
  <2> QED BY <1>1, <1>2, <2>1 DEF TypeOK, StoreTypeOK, Go, OnlyOf, Places
<1> HIDE DEF o
<1>6. KeepsFiled
  BY <1>1, <1>3 DEF KeepsFiled, Filed
<1>7. Shared'
  <2>1. VisibleOnDisk' /\ OwedKept' /\ OwedNames'
    <3>1. \A e \in owed : e[1] \in Name \ {AsideName(a)}
      BY <1>1 DEF TypeOK, StoreTypeOK, Shared, OwedNames
    <3> QED BY <1>1, <1>2, <3>1 DEF Shared, VisibleOnDisk, OwedKept, OwedNames
  <2>2. SecretsSound' /\ ReceiptsSent'
    BY <1>1, <1>2, <1>3 DEF Shared, SecretsSound, ReceiptsSent
  <2>3. ReceiptsSigned'
    <3>1. \A b \in Attempt : visible'[ReceiptName(b)] # Absent => Verified(visible', b)
      BY <1>1, <1>2, <1>3 DEF Shared, ReceiptsSigned, Verified
    <3> QED BY <1>1, <3>1 DEF Shared, ReceiptsSigned, Verified
  <2>4. ResolvedAbsent'
    BY <1>1, <1>3 DEF Shared, ResolvedAbsent
  <2>5. Witnessed'
    <3>1. \A b \in Attempt : Trace(visible, b) => Trace(visible', b)
      BY <1>1, <1>3 DEF Trace
    <3> QED BY <1>1, <1>2, <3>1 DEF Shared, Witnessed, Trace, TypeOK
  <2> QED BY <2>1, <2>2, <2>3, <2>4, <2>5 DEF Shared
<1>8. \A q, r \in Process : Unique(q, r)'
  BY <1>5, StillUnique
<1>9. ASSUME NEW q \in Process, q # p PROVE Local(q)'
  <2>1. Local(q)
    BY DEF IInv
  <2>2. (step[q] \in {"intent", "ready", "receipt"} \/ (step[q] = "publish" /\ op[q].pc = "link"))
           => attempt[q] \in Attempt /\ attempt[q] # a /\ ~Filed(visible', attempt[q])
    BY <1>1, <1>2, <1>3, <2>1 DEF Local, Unfiled, Filed, Ownership, Owning
  <2>3. op[q].pc \in {"sync", "resync", "flush"} => visible'[op[q].name] = visible[op[q].name]
    <3>1. op[q].pc \in Publishing =>
             op[q].name = SecretName
             \/ \E b \in Attempt : op[q].name = IntentName(b) \/ op[q].name = ReceiptName(b)
      BY <2>1, OpFacts DEF Local, Shape, Ownership, Owning
    <3>2. op[q].pc \in Removing =>
             \E b \in Attempt : op[q].name = IntentName(b) \/ op[q].name = ReceiptName(b)
      BY <1>1, OpFacts DEF TypeOK
    <3> QED BY <1>3, <3>1, <3>2 DEF Publishing, Removing
  <2>4. step[q] \in {"intent", "ready"} =>
           visible'[IntentName(attempt[q])] = visible[IntentName(attempt[q])]
    BY <1>3, <2>2
  <2>5. Respects(q)
    BY <1>3, <2>1, <2>2, <2>3, <2>4 DEF Respects, Local, Flushed
  <2>6. (step[q] \in {"intent", "ready", "receipt"} \/ (step[q] = "publish" /\ op[q].pc = "link"))
           => op'[p].name # ReceiptName(attempt[q])
    BY <1>5, <2>2, NameFacts DEF o
  <2> QED BY <1>1, <1>5, <1>6, <1>9, <2>5, <2>6, OthersShown
<1>10. Shape(p)' /\ Ownership(p)'
  BY <1>1, <1>4, <1>5 DEF Local, Shape, Ownership, Owning, Removing, o
<1>11. Unfiled(p)' /\ Unopened(p)' /\ Opened(p)' /\ Written(p)' /\ Flushed(p)' /\ Keyed(p)'
  BY <1>5 DEF Unfiled, Unopened, Opened, Written, Flushed, Keyed, Signing, o
<1>12. Covered(p)'
  <2>1. \A b \in Attempt : o.name # IntentName(b) /\ (o.name = ReceiptName(b) => b = a)
    BY NameFacts DEF o
  <2>2. visible'[AsideName(a)] # Absent
    BY <1>1, <1>3
  <2>3. considered[p] \subseteq sent /\ \A b \in considered[p] : Filed(visible', b)
    BY <1>1, <1>6 DEF Local, Covered, KeepsFiled, TypeOK
  <2> QED BY <1>1, <1>5, <2>1, <2>2, <2>3 DEF Covered, Filed
<1> QED BY <1>5, <1>7, <1>8, <1>9, <1>10, <1>11, <1>12 DEF IInv, Local

(* A power failure leaves a directory of which all of this is true already.*)
LEMMA CrashStep ==
    ASSUME IInv, Crash
    PROVE  IInv'
<1>1. /\ TypeOK /\ Shared /\ visible' \in disk /\ disk' = {visible'}
      /\ op' = [p \in Process |-> Idle] /\ owed' = owed /\ sent' = sent
      /\ step' = [p \in Process |-> "idle"] /\ attempt' = [p \in Process |-> NoAttempt]
      /\ key' = [p \in Process |-> NoKey] /\ considered' = [p \in Process |-> {}]
      /\ resolved' = [a \in Attempt |->
             IF visible'[IntentName(a)] = Absent THEN resolved[a] ELSE 0]
      /\ crashes' = crashes + 1 /\ crashes < MaxCrashes
  BY DEF IInv, Crash, PowerFails
<1>2. TypeOK'
  <2>1. Idle \in Op
    BY DEF Idle, Op, Steps, Value
  <2>2. crashes' \in 0..MaxCrashes
    BY <1>1, TrailAssumption DEF TypeOK
  <2> QED BY <1>1, <2>1, <2>2 DEF TypeOK, StoreTypeOK, Places
<1>3. VisibleOnDisk' /\ OwedKept' /\ OwedNames' /\ SecretsSound'
  BY <1>1 DEF Shared, VisibleOnDisk, OwedKept, OwedNames, SecretsSound
<1>4. ReceiptsSent' /\ ReceiptsSigned' /\ Witnessed'
  BY <1>1 DEF Shared, ReceiptsSent, ReceiptsSigned, Verified, Witnessed, Trace
<1>5. ResolvedAbsent'
  BY <1>1 DEF Shared, ResolvedAbsent
<1>6. \A p \in Process : Local(p)'
  BY <1>1, EndedKnowsNothing
<1>7. \A p, q \in Process : Unique(p, q)'
  BY <1>1 DEF Unique
<1> QED BY <1>2, <1>3, <1>4, <1>5, <1>6, <1>7 DEF IInv, Shared

-------------------------------------------------------------------------------
(* The invariant, and what follows from it.                                *)

LEMMA Initially ==
    ASSUME Init
    PROVE  IInv
<1>1. TypeOK
  BY TrailAssumption DEF Init, StoreInit, TypeOK, StoreTypeOK, Namespace, Value, Op, Idle, Steps,
                         Places
<1>2. Shared
  <2>1. \A ns \in disk : \A n \in Name : ns[n] = Absent
    BY DEF Init, StoreInit
  <2> QED BY <2>1, NameFacts
          DEF Init, StoreInit, Shared, VisibleOnDisk, OwedKept, OwedNames, SecretsSound,
              ReceiptsSent, ReceiptsSigned, ResolvedAbsent, Witnessed
<1>3. ASSUME NEW p \in Process PROVE Local(p)
  <2>1. step[p] = "idle" /\ op[p] = Idle /\ attempt[p] = NoAttempt /\ considered[p] = {}
    BY DEF Init, StoreInit
  <2> QED BY <2>1 DEF Local, Shape, Ownership, Owning, Unfiled, Unopened, Opened, Written,
                      Flushed, Keyed, Signing, Covered, Idle
<1>4. \A p, q \in Process : Unique(p, q)
  BY DEF Init, Unique
<1> QED BY <1>1, <1>2, <1>3, <1>4 DEF IInv

LEMMA CommandStep ==
    ASSUME IInv, NEW p \in Process, Command(p)
    PROVE  IInv'
BY LoadSecretStep, MintSecretStep, SecretPublishedStep, OpenIntentStep, IntentPublishedStep,
   SendStep, WriteReceiptStep, ReceiptPublishedStep, ResolveOwnStep, EndsQuietly
   DEF Command

LEMMA RecoveryStep ==
    ASSUME IInv, NEW p \in Process, Recovery(p)
    PROVE  IInv'
BY BeginReconcileStep, ResolveNextStep, EndsQuietly, QuarantineStep, TakeAwayStep, NextEntry,
   RemovalEnds
   DEF Recovery

LEMMA Inductive ==
    ASSUME IInv, [Next]_vars
    PROVE  IInv'
<1>1. CASE UNCHANGED vars
  BY <1>1 DEF vars, storeVars, trailVars, IInv, TypeOK, StoreTypeOK, Shared, VisibleOnDisk,
       OwedKept, OwedNames, SecretsSound, ReceiptsSent, ReceiptsSigned, Verified, ResolvedAbsent,
       Witnessed, Trace, Local, Shape, Ownership, Unfiled, Filed, Unopened, Opened, Written,
       Flushed, Keyed, Holds, Covered, Unique
<1>2. CASE Crash
  BY <1>2, CrashStep
<1>3. ASSUME NEW p \in Process, StoreStep(p)
      PROVE  IInv'
  BY <1>3, LinkStep, SyncStep DEF StoreStep
<1>4. ASSUME NEW p \in Process, Kill(p)
      PROVE  IInv'
  BY <1>4, EndsQuietly
<1> QED BY <1>1, <1>2, <1>3, <1>4, CommandStep, RecoveryStep DEF Next

(* The invariant holds in every state, whatever the number of processes.   *)
THEOREM TrailInvariance == Spec => []IInv
BY Initially, Inductive, PTL DEF Spec

(* The state of the directory and of the commands has its types.           *)
THEOREM TrailTypes == Spec => []TypeOK
<1>1. IInv => TypeOK
  BY DEF IInv
<1> QED BY <1>1, TrailInvariance, PTL

(* A request that may have been sent and billed keeps its intent, its      *)
(* receipt, or the receipt set aside, in every directory a power failure   *)
(* could leave.                                                            *)
THEOREM NoRequestIsForgotten == Spec => []Witnessed
<1>1. IInv => Witnessed
  BY DEF IInv, Shared
<1> QED BY <1>1, TrailInvariance, PTL

(* However many commands mint a key at once, every receipt that exists, or *)
(* may exist after a power failure, verifies under the key found with it,  *)
(* and every command holds that key.                                       *)
THEOREM OneKeySigns == Spec => []OneKey
<1>1. IInv => OneKey
  BY DEF IInv, Shared, ReceiptsSigned, Local, Keyed, OneKey
<1> QED BY <1>1, TrailInvariance, PTL

(* However many reconciliations run at once, an intent is counted as       *)
(* resolved once, and only when it is gone.                                *)
THEOREM IntentsResolveOnce == Spec => []ResolvedOnce
<1>1. IInv => ResolvedOnce
  BY DEF IInv, Shared, ResolvedAbsent, ResolvedOnce
<1> QED BY <1>1, TrailInvariance, PTL
-------------------------------------------------------------------------------
(* The refinement: what the directory acknowledges changes in three steps. *)

LEMMA Ledger ==
    ASSUME [Next]_vars
    PROVE  \/ owed' = owed
           \/ \E p \in Process : Published(p) \/ Removed(p) \/ Unlink(p)
<1>1. CASE UNCHANGED vars
  BY <1>1 DEF vars, storeVars
<1>2. CASE Crash
  BY <1>2 DEF Crash, PowerFails
<1>3. ASSUME NEW p \in Process, StoreStep(p) \/ Kill(p)
      PROVE  owed' = owed
  BY <1>3 DEF StoreStep, LinkName, SyncDirectory, Kill, Killed
<1>4. ASSUME NEW p \in Process, Command(p)
      PROVE  owed' = owed \/ Published(p)
  <2>1. CASE LoadSecret(p) \/ Send(p) \/ ResolveOwn(p) \/ NothingToResolve(p)
    BY <2>1 DEF LoadSecret, Send, ResolveOwn, NothingToResolve, storeVars
  <2>2. CASE \/ \E k \in Key : MintSecret(p, k)
             \/ \E a \in Attempt : OpenIntent(p, a)
             \/ WriteReceipt(p)
             \/ GiveUpPublication(p)
    BY <2>2 DEF MintSecret, OpenIntent, WriteReceipt, Publish, GiveUpPublication,
                PublicationFails
  <2>3. CASE SecretPublished(p) \/ IntentPublished(p) \/ ReceiptPublished(p)
    BY <2>3 DEF SecretPublished, IntentPublished, ReceiptPublished
  <2> QED BY <1>4, <2>1, <2>2, <2>3 DEF Command
<1>5. ASSUME NEW p \in Process, Recovery(p)
      PROVE  owed' = owed \/ Removed(p) \/ Unlink(p)
  <2>1. CASE BeginReconcile(p) \/ (\E a \in Attempt : ResolveNext(p, a)) \/ EndReconcile(p)
    BY <2>1 DEF BeginReconcile, ResolveNext, EndReconcile, Synchronise, storeVars
  <2>2. CASE (\E a \in Attempt : Quarantine(p, a)) \/ FindGone(p) \/ GiveUpRemoval(p)
    BY <2>2 DEF Quarantine, MoveAside, FindGone, UnlinkMisses, GiveUpRemoval, RemovalFails
  <2>3. CASE TakeAway(p) \/ RemovalDurable(p)
    BY <2>3 DEF TakeAway, RemovalDurable
  <2> QED BY <1>5, <2>1, <2>2, <2>3 DEF Recovery
<1> QED BY <1>1, <1>2, <1>3, <1>4, <1>5 DEF Next

LEMMA RecordStep ==
    ASSUME IInv, IInv', [Next]_vars
    PROVE  Record!Next
<1>1. /\ \A e \in owed' : visible'[e[1]] = e[2]
      /\ TypeOK
  BY DEF IInv, Shared, VisibleOnDisk, OwedKept
<1>2. CASE owed' = owed
  BY <1>1, <1>2 DEF Record!Next, Record!Drift
<1>3. ASSUME NEW p \in Process, Published(p)
      PROVE  Record!Next
  <2>1. CASE op[p].written /\ Holds(op[p].name)
    <3>1. op[p].name \in Name /\ op[p].body \in Body
      BY <1>3, OpFacts DEF Published, At, Publishing
    <3>2. /\ visible' = visible /\ visible[op[p].name] = op[p].body
          /\ owed' = owed \cup {<<op[p].name, op[p].body>>}
      BY <1>3, <2>1 DEF IInv, Local, Written, Published, At, Holds, Sync, Owe
    <3> QED BY <3>1, <3>2 DEF Record!Next, Record!Acknowledge
  <2>2. CASE ~(op[p].written /\ Holds(op[p].name))
    BY <1>2, <1>3, <2>2 DEF Published
  <2> QED BY <2>1, <2>2
<1>4. ASSUME NEW p \in Process, Removed(p)
      PROVE  Record!Next
  BY <1>4, RemovalSays DEF Record!Next, Record!Acknowledge
<1>5. ASSUME NEW p \in Process, Unlink(p)
      PROVE  Record!Next
  <2>1. op[p].name \in Name
    BY <1>1, <1>5, OpFacts, NameFacts DEF Unlink, At, Removing, TypeOK
  <2>2. /\ owed' = {e \in owed : e[1] # op[p].name}
        /\ \A m \in Name \ {op[p].name} : visible'[m] = visible[m]
    BY <1>1, <1>5 DEF Unlink, Show, Withdraw, TypeOK, StoreTypeOK, Namespace
  <2> QED BY <2>1, <2>2 DEF Record!Next, Record!Withdraw
<1> QED BY <1>2, <1>3, <1>4, <1>5, Ledger

(* A document or a removal the directory acknowledged stays as it was said *)
(* to be, through kills and power failures, until the name is unlinked on  *)
(* purpose: the commands implement DurableRecord.                          *)
THEOREM TheDirectoryKeepsItsWord == Spec => KeepsRecord
<1>1. Init => Record!Init
  BY DEF Init, StoreInit, Record!Init
<1>2. IInv /\ IInv' /\ [Next]_vars => [Record!Next]_<<visible, owed>>
  BY RecordStep
<1> QED BY <1>1, <1>2, TrailInvariance, PTL DEF Spec, KeepsRecord, Record!Spec
===============================================================================
