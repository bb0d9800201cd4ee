----------------------------- MODULE FileLinks -----------------------------
(***************************************************************************)
(* The public file links Control keeps on disk: downloads.json, its backup *)
(* and one immutable payload file for each link.  Every operation is one   *)
(* transaction under the store's lock: load, change the table, save the    *)
(* two files, then remove payloads no durable link needs.  Between any two *)
(* of these steps a write can fail, the process can crash, and files can   *)
(* be damaged; answered downloads are released outside the lock.           *)
(***************************************************************************)
EXTENDS Naturals, FiniteSets

CONSTANTS
    Links,      \* links, each registered at most once, with its payload
    Limit,      \* in [Links -> Nat], their max_downloads; 0 means no limit
    MaxCount,   \* bound: downloads counted on one link
    MaxDamage   \* bound: files damaged or deleted from outside

ASSUME LimitsAssumption == Limit \in [Links -> Nat] /\ MaxCount \in Nat

VARIABLES
    saved,     \* downloads.json
    spare,     \* downloads.json.bak
    payloads,  \* links whose payload file exists
    phase,     \* how far the transaction that holds the lock is
    request,   \* its operation and link
    table,     \* the links it has in memory, with their download counts
    expired,   \* links whose expires_at has passed
    used,      \* link identities that were allocated
    revoked,   \* history: links whose revocation was answered
    served,    \* history: bodies handed out for each link
    releasing, \* links whose last allowed body has not been released yet
    damage,    \* files damaged so far
    lost       \* history: payload files deleted from outside

lvars == <<saved, spare, payloads, phase, request, table, expired, used, revoked,
           served, releasing, damage, lost>>

Operations == {"register", "revoke", "list", "get", "head"}
NoTable == [l \in {} |-> 0]
TableFile(t) == [state |-> "valid", table |-> t]
Absent == [state |-> "absent", table |-> NoTable]
Unreadable == [state |-> "garbage", table |-> NoTable]
Valid(f) == f.state = "valid"
Tables == UNION {[S -> 0 .. MaxCount] : S \in SUBSET Links}
Omit(t, S) == [l \in DOMAIN t \ S |-> t[l]]
With(t, l, n) == [k \in DOMAIN t \cup {l} |-> IF k = l THEN n ELSE t[k]]
Exhausted(t, l) == Limit[l] > 0 /\ t[l] >= Limit[l]

\* prune_locked: what time or use has ended.
Prunable(t) == {l \in DOMAIN t : l \in expired \/ Exhausted(t, l)}

LinksInit ==
    /\ saved = Absent /\ spare = Absent /\ payloads = {}
    /\ phase = "idle" /\ request = [op |-> "none"]
    /\ table = NoTable /\ expired = {}
    /\ used = {} /\ revoked = {}
    /\ served = [l \in Links |-> 0] /\ releasing = {}
    /\ damage = 0 /\ lost = {}

tableFiles == <<saved, spare>>
answered == <<revoked, served>>
environment == <<expired, damage, lost>>

\* The transaction is over; its answer, if any, is recorded by its caller.
TransactionEnds == phase' = "idle" /\ request' = [op |-> "none"]
        /\ table' = NoTable

\* cleanup_unreferenced_payloads_locked is best effort: some files may remain.
Cleanup(t) == \E removed \in SUBSET (payloads \ DOMAIN t) :
                 payloads' = payloads \ removed

-----------------------------------------------------------------------------
(* load_locked                                                             *)

Loaded(t) == phase' = "loaded" /\ table' = t /\ Cleanup(t)

\* A healthy primary replaces a backup that differs from it; the write of the
\* new backup may fail, its removal must not.
ReadPrimary ==
    /\ Valid(saved)
    /\ \/ spare \in {Absent, saved} /\ UNCHANGED spare
       \/ spare \notin {Absent, saved} /\ spare' \in {Absent, saved}
    /\ Loaded(saved.table) /\ UNCHANGED saved

ReadBackup ==
    /\ ~Valid(saved) /\ Valid(spare)
    /\ saved' = spare /\ UNCHANGED spare
    /\ Loaded(spare.table)

ReadNothing ==
    /\ saved = Absent /\ spare = Absent
    /\ Loaded(NoTable) /\ UNCHANGED tableFiles

BeginTransaction(op, l) ==
    /\ phase = "idle"
    /\ \/ op = "register" /\ l \notin used /\ used' = used \cup {l}
       \/ op # "register" /\ l \in used /\ UNCHANGED used
    /\ request' = [op |-> op, link |-> l]
    /\ ReadPrimary \/ ReadBackup \/ ReadNothing
    /\ UNCHANGED <<answered, environment, releasing>>

-----------------------------------------------------------------------------
(* The operations: what each one does with the table it has loaded         *)

link == request.link
Doing(op) == phase = "loaded" /\ request.op = op
SaveAs(op, t) == /\ phase' = "saving" /\ table' = t
                 /\ request' = [op |-> op, link |-> link]
Save(t) == SaveAs(request.op, t)
Keep == UNCHANGED <<tableFiles, used, answered, environment, releasing>>

\* _register_snapshot commits the payload and then saves the link.
RegisterLink ==
    /\ Doing("register")
    /\ payloads' = payloads \cup {link}
    /\ Save(With(Omit(table, Prunable(table)), link, 0))
    /\ Keep

\* _revoke_file_link_owned
RevokeLink ==
    /\ Doing("revoke")
    /\ \/ link \in DOMAIN table /\ Save(Omit(table, {link}))
       \/ link \notin DOMAIN table /\ TransactionEnds
    /\ UNCHANGED payloads /\ Keep

\* _list_file_links_owned and a download of a link that does not exist prune.
List ==
    /\ \/ Doing("list")
       \/ (Doing("get") \/ Doing("head")) /\ link \notin DOMAIN table
    /\ \/ Prunable(table) # {} /\ SaveAs("list", Omit(table, Prunable(table)))
       \/ Prunable(table) = {} /\ TransactionEnds
    /\ UNCHANGED payloads /\ Keep

\* claim_download drops a link that has expired, is used up or has no payload.
Unavailable == link \in expired \/ Exhausted(table, link) \/ link \notin payloads

ClaimRefused ==
    /\ Doing("get") \/ Doing("head")
    /\ link \in DOMAIN table /\ Unavailable
    /\ SaveAs("refuse", Omit(table, {link}))
    /\ UNCHANGED payloads /\ Keep

\* A GET counts before it is answered; a HEAD only prunes the other links.
Claim ==
    /\ Doing("get") \/ Doing("head")
    /\ link \in DOMAIN table /\ ~Unavailable
    /\ LET others == Omit(table, Prunable(table)) IN
       \/ /\ request.op = "get" /\ table[link] < MaxCount
          /\ Save(With(others, link, table[link] + 1))
       \/ request.op = "head" /\ others # table /\ Save(others)
       \/ request.op = "head" /\ others = table /\ TransactionEnds
    /\ UNCHANGED payloads /\ Keep

-----------------------------------------------------------------------------
(* save_locked: drop the backup, write the primary, write the backup       *)

\* Variant: the backup stays until it is written again.
DropBackup_Keeps ==
    /\ phase = "saving" /\ phase' = "dropped"
    /\ UNCHANGED <<tableFiles, payloads, request, table, used, answered, environment, releasing>>

DropBackup ==
    /\ phase = "saving" /\ spare' = Absent /\ phase' = "dropped"
    /\ UNCHANGED <<saved, payloads, request, table, used, answered, environment, releasing>>

WritePrimary ==
    /\ phase = "dropped" /\ saved' = TableFile(table) /\ phase' = "written"
    /\ UNCHANGED <<spare, payloads, request, table, used, answered, environment, releasing>>

\* The backup is written, or its failure is only reported; the links that are
\* gone from the durable table lose their payloads and the caller is answered.
Answer ==
    /\ phase = "written" /\ spare' \in {spare, TableFile(table)}
    /\ Cleanup(table)
    /\ revoked' = IF request.op = "revoke" THEN revoked \cup {link} ELSE revoked
    /\ served' = IF request.op = "get" THEN [served EXCEPT ![link] = @ + 1]
                 ELSE served
    /\ releasing' = IF request.op = "get" /\ Exhausted(table, link)
                    THEN releasing \cup {link} ELSE releasing
    /\ TransactionEnds /\ UNCHANGED <<saved, used, environment>>

\* A write of the save fails before the primary is replaced: the operation
\* fails, and a registration takes its payload back.
SaveFails ==
    /\ phase \in {"saving", "dropped"}
    /\ payloads' = IF request.op = "register" THEN payloads \ {link} ELSE payloads
    /\ TransactionEnds /\ Keep

\* The response of the last allowed download has ended.
Release(l) ==
    /\ l \in releasing /\ releasing' = releasing \ {l}
    /\ payloads' = payloads \ {l}
    /\ UNCHANGED <<tableFiles, phase, request, table, used, answered, environment>>

-----------------------------------------------------------------------------
(* The environment                                                         *)

Crash ==
    /\ phase # "idle" /\ releasing' = {}
    /\ TransactionEnds /\ UNCHANGED <<tableFiles, payloads, used, answered, environment>>

ExpireLink(l) ==
    /\ l \notin expired /\ expired' = expired \cup {l}
    /\ UNCHANGED <<tableFiles, payloads, phase, request, table, used, answered, releasing,
                   damage, lost>>

\* One metadata file is deleted or corrupted, or a payload file is deleted.
DamageFile ==
    /\ damage < MaxDamage /\ damage' = damage + 1
    /\ \/ saved # Absent /\ saved' = Absent /\ UNCHANGED <<spare, payloads, lost>>
       \/ Valid(saved) /\ saved' = Unreadable /\ UNCHANGED <<spare, payloads, lost>>
       \/ spare # Absent /\ spare' = Absent /\ UNCHANGED <<saved, payloads, lost>>
       \/ Valid(spare) /\ spare' = Unreadable /\ UNCHANGED <<saved, payloads, lost>>
       \/ \E l \in payloads : /\ payloads' = payloads \ {l}
                              /\ lost' = lost \cup {l}
                              /\ UNCHANGED tableFiles
    /\ UNCHANGED <<phase, request, table, expired, used, answered, releasing>>

LinksNext ==
    \/ \E op \in Operations, l \in Links : BeginTransaction(op, l)
    \/ RegisterLink \/ RevokeLink \/ List \/ ClaimRefused \/ Claim
    \/ DropBackup \/ WritePrimary \/ Answer \/ SaveFails
    \/ \E l \in Links : Release(l) \/ ExpireLink(l)
    \/ Crash \/ DamageFile

LinksSpec == LinksInit /\ [][LinksNext]_lvars

-----------------------------------------------------------------------------
(* Properties                                                              *)

LinksTypeOK ==
    /\ {saved, spare} \subseteq {TableFile(t) : t \in Tables} \cup {Absent, Unreadable}
    /\ payloads \subseteq Links /\ table \in Tables
    /\ phase \in {"idle", "loaded", "saving", "dropped", "written"}
    /\ served \in [Links -> Nat] /\ releasing \subseteq Links

\* The table the next operation will find.
Durable == IF Valid(saved) THEN saved.table ELSE spare.table

(* A link that was revoked, or whose last download was answered, is in no file a
   later start could trust, whatever was damaged since: the spare copy is removed
   before the primary changes, so it is never older.  (save_locked)           *)
EndedIsForgotten ==
    /\ \A l \in revoked : l \notin DOMAIN Durable
    /\ Valid(saved) /\ Valid(spare) => saved = spare

(* No link hands out more bodies than it allows, across crashes between the
   count and the answer, damaged files and failing saves.  (claim_download)   *)
NeverOverserved == \A l \in Links : Limit[l] > 0 => served[l] <= Limit[l]

(* A durable link that may still be used has its payload: a payload is committed
   before its link and removed only after the removal of its link is durable.
   (_register_snapshot, cleanup_unreferenced_payloads_locked)                 *)
UsableHasPayload ==
    \A l \in DOMAIN Durable : Exhausted(Durable, l) \/ l \in payloads \cup lost

LinksSafe == LinksTypeOK /\ EndedIsForgotten /\ NeverOverserved /\ UsableHasPayload
=============================================================================
