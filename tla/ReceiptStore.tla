----------------------------- MODULE ReceiptStore ------------------------------
(***************************************************************************)
(* The receipt directory of the activation harness (receipt_store.py): the *)
(* publication of a document, the removal of a name, and what a power      *)
(* failure leaves of either.                                               *)
(*                                                                         *)
(* "visible" is the directory as every process of the machine sees it,     *)
(* "disk" the set of directories a power failure may leave: the one of the *)
(* last synchronisation and every one shown since.  A file reaches the     *)
(* directory with all of its bytes already synchronised, so a name holds   *)
(* a complete document or nothing.  Temporaries start with a dot, no       *)
(* reader lists them, and they are left out.                               *)
(*                                                                         *)
(* An operation is a few steps of one process; its caller conjoins the     *)
(* step that ends it with what it does next.                               *)
(***************************************************************************)
EXTENDS Naturals, FiniteSets

CONSTANTS
    Process,   \* command-line processes of one installation
    Name,      \* names the directory may hold
    NoName,    \* no name
    Body,      \* documents, up to what tells two of them apart
    Absent     \* nothing under this name

ASSUME StoreAssumption == NoName \notin Name /\ Absent \notin Body

VARIABLES
    visible,   \* name -> document, in the current namespace
    disk,      \* the namespaces a power failure may leave
    op,        \* per process, the publication or the removal under way
    owed       \* <<name, document>> acknowledged as durable, Absent included

storeVars == <<visible, disk, op, owed>>

Value == Body \cup {Absent}
Namespace == [Name -> Value]

Steps == {"idle", "link", "sync", "resync", "unlink", "flush"}
Idle == [pc |-> "idle", name |-> NoName, body |-> Absent, written |-> FALSE]
Op == [pc : Steps, name : Name \cup {NoName}, body : Value, written : BOOLEAN]

StoreTypeOK ==
    /\ visible \in Namespace
    /\ disk \subseteq Namespace
    /\ op \in [Process -> Op]
    /\ owed \subseteq Name \X Value

StoreInit ==
    /\ visible = [n \in Name |-> Absent]
    /\ disk = {visible}
    /\ op = [p \in Process |-> Idle]
    /\ owed = {}

Busy(p) == op[p].pc # "idle"
At(p, pc) == op[p].pc = pc
Done(p) == op' = [op EXCEPT ![p] = Idle]
Holds(n) == visible[n] # Absent

(* The new namespace is what everybody sees, and one more the disk may     *)
(* hold after a power failure.                                             *)
Show(ns) ==
    /\ visible' = ns
    /\ disk' = disk \cup {ns}

Sync == disk' = {visible} /\ UNCHANGED visible

Owe(n, v) == owed' = owed \cup {<<n, v>>}
Withdraw(n) == owed' = {e \in owed : e[1] # n}
-------------------------------------------------------------------------------
(* publish_bytes: write a private temporary and synchronise it, link it    *)
(* under the final name, synchronise the directory, remove the temporary,  *)
(* synchronise again.                                                      *)
Publish(p, n, b) ==
    /\ ~Busy(p)
    /\ op' = [op EXCEPT ![p] =
                 [pc |-> "link", name |-> n, body |-> b, written |-> FALSE]]
    /\ UNCHANGED <<visible, disk, owed>>

(* The link fails on a taken name instead of replacing what holds it.      *)
LinkName(p) ==
    /\ At(p, "link")
    /\ LET n == op[p].name
       IN /\ IF Holds(n) THEN UNCHANGED <<visible, disk>>
                         ELSE Show([visible EXCEPT ![n] = op[p].body])
          /\ op' = [op EXCEPT ![p].pc = "sync", ![p].written = ~Holds(n)]
    /\ UNCHANGED owed

SyncDirectory(p) ==
    /\ At(p, "sync")
    /\ Sync
    /\ op' = [op EXCEPT ![p].pc = "resync"]
    /\ UNCHANGED owed

(* Only the full sequence is acknowledged, and only to the process whose   *)
(* own bytes took the name.  Nothing is owed about a document an operator  *)
(* has set aside in the meantime.                                          *)
Published(p) ==
    /\ At(p, "resync")
    /\ Sync
    /\ Done(p)
    /\ IF op[p].written /\ Holds(op[p].name)
         THEN Owe(op[p].name, op[p].body)
         ELSE UNCHANGED owed

(* No temporary, no bytes, no link, no synchronisation, or a temporary     *)
(* that stays: the name may be there for everyone to see, and the caller   *)
(* is told not to rely on it.                                              *)
PublicationFails(p) ==
    /\ op[p].pc \in {"link", "sync", "resync"}
    /\ Done(p)
    /\ UNCHANGED <<visible, disk, owed>>
-------------------------------------------------------------------------------
(* Removing a name: look whether it is there, unlink it, synchronise.      *)
Remove(p, n) ==
    /\ ~Busy(p)
    /\ Holds(n)
    /\ op' = [op EXCEPT ![p] =
                 [pc |-> "unlink", name |-> n, body |-> Absent, written |-> FALSE]]

Unlink(p) ==
    /\ At(p, "unlink")
    /\ Holds(op[p].name)
    /\ Show([visible EXCEPT ![op[p].name] = Absent])
    /\ Withdraw(op[p].name)
    /\ op' = [op EXCEPT ![p].pc = "flush"]

(* Another process removed the entry between the look and the unlink.      *)
UnlinkMisses(p) ==
    /\ At(p, "unlink")
    /\ ~Holds(op[p].name)
    /\ Done(p)
    /\ UNCHANGED <<visible, disk, owed>>

(* The directory refuses to unlink, or to synchronise what was unlinked.   *)
RemovalFails(p) ==
    /\ op[p].pc \in {"unlink", "flush"}
    /\ Done(p)
    /\ UNCHANGED <<visible, disk, owed>>

(* As if a removal were acknowledged without its synchronisation.          *)
RemovedUnsynced(p) ==
    /\ At(p, "flush")
    /\ Done(p)
    /\ Owe(op[p].name, Absent)
    /\ UNCHANGED <<visible, disk>>

Removed(p) ==
    /\ At(p, "flush")
    /\ Sync
    /\ Done(p)
    /\ Owe(op[p].name, Absent)

(* os.link then os.unlink: the second name holds the same document before  *)
(* the first one is given up.                                              *)
MoveAside(p, n, to) ==
    /\ ~Busy(p)
    /\ Holds(n)
    /\ ~Holds(to)
    /\ Show([visible EXCEPT ![to] = visible[n]])
    /\ op' = [op EXCEPT ![p] =
                 [pc |-> "unlink", name |-> n, body |-> Absent, written |-> FALSE]]
    /\ UNCHANGED owed

Synchronise(p) == ~Busy(p) /\ Sync /\ UNCHANGED <<op, owed>>
-------------------------------------------------------------------------------
(* The process dies: the directory stays as it is.                         *)
Killed(p) == Done(p) /\ UNCHANGED <<visible, disk, owed>>

(* A file system that journals its directory operations leaves one of the  *)
(* directories shown since the last synchronisation.                       *)
PowerFails ==
    /\ visible' \in disk
    /\ disk' = {visible'}
    /\ op' = [p \in Process |-> Idle]
    /\ UNCHANGED owed

Record == INSTANCE DurableRecord WITH shown <- visible

===============================================================================
