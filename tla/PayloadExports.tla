--------------------------- MODULE PayloadExports ---------------------------
(***************************************************************************)
(* Copies that compete for the payload store of Control.  An attempt       *)
(* reserves its bytes, issues a capability for one upload, waits for the   *)
(* source executor, and makes the uploaded file a payload.  The handler of *)
(* the upload is a task of its own, which neither the attempt's end nor    *)
(* that of its caller stops; a sweep removes what nobody refers to.        *)
(***************************************************************************)
EXTENDS Naturals, FiniteSets

CONSTANTS Exports,     \* transfers
          Managed,     \* those that belong to a job, which can be retried
          MaxStore,    \* payloads that may be retained or reserved
          MaxTries,    \* bound: attempts of a managed transfer
          MaxMishaps   \* bound: lost and repeated requests, failures, crashes

ASSUME ExportsAssumption ==
    IsFiniteSet(Exports) /\ Managed \subseteq Exports /\ {MaxStore, MaxTries, MaxMishaps} \subseteq Nat

VARIABLES
    entry,    \* the durable row: "none", "reserved", "retained" or "abandoning"
    stored,   \* its payload file exists
    attempt,  \* "off", "uploading", "importing", "failed" or "done"
    tries,    \* attempts so far: each has its own capability and staging file
    cap,      \* capabilities that can be claimed, and for what
    put,      \* the requests of each upload: sent, received by a handler, answered
    staged,   \* the staging file of each upload: "none", "part" or "full"
    owner,    \* the job of the transfer still needs it
    left,     \* history: staging files that a crash left
    pruned,   \* history: transfers that upload, and whose file grew old meanwhile
    released, \* history: transfers that upload, and whose row grew old meanwhile
    mishaps

exportvars == <<entry, stored, attempt, tries, cap, put, staged, owner, left,
                pruned, released, mishaps>>

Uploads == Exports \X (1..MaxTries)
Current(t) == <<t, tries[t]>>
Of(t) == {u \in Uploads : u[1] = t}

NoPut == [sent |-> 0, handlers |-> 0, answered |-> FALSE]

ExportInit ==
    /\ entry = [t \in Exports |-> "none"] /\ stored = [t \in Exports |-> FALSE]
    /\ attempt = [t \in Exports |-> "off"] /\ tries = [t \in Exports |-> 0]
    /\ cap = [u \in Uploads |-> "none"] /\ put = [u \in Uploads |-> NoPut]
    /\ staged = [u \in Uploads |-> "none"] /\ owner = [t \in Exports |-> TRUE]
    /\ left = {} /\ pruned = {} /\ released = {} /\ mishaps = 0

Mishap == mishaps < MaxMishaps /\ mishaps' = mishaps + 1

\* What the end of an upload changes, a sweep and a crash.
Histories == <<left, pruned, released>>

-----------------------------------------------------------------------------
(* _export_payload and reserve_export                                        *)

Held == {t \in Exports : entry[t] \in {"reserved", "retained"}}

\* Variant: only what is already stored counts against the limit.
Admits_Retained(t) ==
    entry[t] = "reserved"
    \/ Cardinality({s \in Exports : entry[s] = "retained"}) < MaxStore

\* A managed copy takes over the reservation of its earlier attempt; a foreground copy
\* has an identity of its own, for one attempt.
Admits(t) == entry[t] = "reserved" \/ Cardinality(Held) < MaxStore

Reserves(t) ==
    /\ attempt[t] = "off" /\ tries[t] < MaxTries /\ owner[t]
    /\ t \in Managed \/ tries[t] = 0
    /\ entry[t] \in {"none", "reserved"} /\ tries' = [tries EXCEPT ![t] = @ + 1]
    /\ IF Admits(t)
       THEN /\ entry' = [entry EXCEPT ![t] = "reserved"]
            /\ attempt' = [attempt EXCEPT ![t] = "uploading"]
            /\ cap' = [cap EXCEPT ![<<t, tries[t] + 1>>] = "upload"]
       ELSE attempt' = [attempt EXCEPT ![t] = "failed"] /\ UNCHANGED <<entry, cap>>
    /\ UNCHANGED <<stored, put, staged, owner, Histories, mishaps>>

\* The finally: whatever happened, the capability and the staging file go.
Revokes(t) ==
    /\ cap' = [u \in Uploads |-> IF u \in Of(t) THEN "none" ELSE cap[u]]
    /\ staged' = [staged EXCEPT ![Current(t)] = "none"]
    /\ pruned' = pruned \ {t} /\ released' = released \ {t}

\* commit_export, when the executor's result says that the upload was answered: the
\* file becomes a payload, and then the reservation a checkpoint.
Commits(t) ==
    /\ attempt[t] = "uploading" /\ put[Current(t)].answered /\ entry[t] = "reserved"
    /\ staged[Current(t)] = "full" /\ stored' = [stored EXCEPT ![t] = TRUE]
    /\ Revokes(t)
    /\ \/ /\ entry' = [entry EXCEPT ![t] = "retained"]
          /\ attempt' = [attempt EXCEPT ![t] = "importing"] /\ UNCHANGED mishaps
       \/ /\ Mishap /\ attempt' = [attempt EXCEPT ![t] = "failed"] /\ UNCHANGED entry
    /\ UNCHANGED <<tries, put, owner, left>>

\* The call failed, its answer was lost, or the attempt is cancelled.
ExportFails(t) ==
    /\ attempt[t] = "uploading" /\ attempt' = [attempt EXCEPT ![t] = "failed"]
    /\ Revokes(t)
    /\ UNCHANGED <<entry, stored, tries, put, owner, left, mishaps>>

-----------------------------------------------------------------------------
(* ControlTransferGateway: requests of the executor                          *)

RestOfGateway == UNCHANGED <<entry, stored, attempt, tries, owner, Histories>>

\* The executor sends its command's request; the network may repeat it.
SendsUpload(u) ==
    /\ cap[u] = "upload" /\ put[u].sent < 2 /\ put' = [put EXCEPT ![u].sent = @ + 1]
    /\ IF put[u].sent = 0 THEN UNCHANGED mishaps ELSE Mishap
    /\ UNCHANGED <<cap, staged>> /\ RestOfGateway

Opens(u) ==
    /\ put' = [put EXCEPT ![u].sent = @ - 1, ![u].handlers = @ + 1]
    /\ staged' = [staged EXCEPT ![u] = "part"]

\* A second handler finds the file, and unlinks it as it fails.
Collides(u) ==
    /\ put' = [put EXCEPT ![u].sent = @ - 1] /\ staged' = [staged EXCEPT ![u] = "none"]

\* Variant: the capability lives until its attempt revokes it.
ClaimsUpload_Kept(u) ==
    /\ put[u].sent > 0 /\ cap[u] = "upload" /\ UNCHANGED cap
    /\ IF staged[u] = "none" THEN Opens(u) ELSE Collides(u)
    /\ UNCHANGED mishaps /\ RestOfGateway

\* _claim and the opening of the staging file, without a suspension between them.
ClaimsUpload(u) ==
    /\ put[u].sent > 0 /\ cap[u] = "upload" /\ cap' = [cap EXCEPT ![u] = "none"]
    /\ IF staged[u] = "none" THEN Opens(u) ELSE Collides(u)
    /\ UNCHANGED mishaps /\ RestOfGateway

\* Used, expired or revoked.
MissesUpload(u) ==
    /\ put[u].sent > 0 /\ cap[u] # "upload" /\ put' = [put EXCEPT ![u].sent = @ - 1]
    /\ UNCHANGED <<cap, staged, mishaps>> /\ RestOfGateway

\* Size and digest are right.  The attempt may have unlinked the file meanwhile.
UploadEnds(u) ==
    /\ put[u].handlers > 0
    /\ put' = [put EXCEPT ![u].handlers = @ - 1, ![u].answered = TRUE]
    /\ staged' = [staged EXCEPT ![u] = IF @ = "none" THEN "none" ELSE "full"]
    /\ UNCHANGED <<cap, mishaps>> /\ RestOfGateway

\* The request ends early, or its bytes are others.
UploadFails(u) ==
    /\ Mishap /\ put[u].handlers > 0 /\ put' = [put EXCEPT ![u].handlers = @ - 1]
    /\ staged' = [staged EXCEPT ![u] = "none"]
    /\ UNCHANGED cap /\ RestOfGateway

\* The time of a capability is over, the answer to a request lost.
Expires(u) ==
    /\ Mishap /\ \/ cap[u] # "none" /\ cap' = [cap EXCEPT ![u] = "none"] /\ UNCHANGED put
                 \/ put[u].answered /\ put' = [put EXCEPT ![u].answered = FALSE]
                    /\ UNCHANGED cap
    /\ UNCHANGED staged /\ RestOfGateway

\* _write_payload_to_executor: the payload is offered for one download, and read.
IssuesDownload(t) ==
    /\ attempt[t] = "importing" /\ cap[Current(t)] = "none"
    /\ cap' = [cap EXCEPT ![Current(t)] = "download"]
    /\ UNCHANGED <<put, staged, mishaps>> /\ RestOfGateway

ClaimsDownload(t) ==
    /\ attempt[t] = "importing" /\ cap[Current(t)] = "download" /\ stored[t]
    /\ cap' = [cap EXCEPT ![Current(t)] = "none"]
    /\ attempt' = [attempt EXCEPT ![t] = "done"]
    /\ UNCHANGED <<entry, stored, tries, put, staged, owner, Histories, mishaps>>

\* The call fails, as it must when the payload is gone.
ImportFails(t) ==
    /\ attempt[t] = "importing" /\ attempt' = [attempt EXCEPT ![t] = "failed"]
    /\ IF stored[t] THEN Mishap ELSE UNCHANGED mishaps
    /\ cap' = [cap EXCEPT ![Current(t)] = "none"]
    /\ UNCHANGED <<entry, stored, tries, put, staged, owner, Histories>>

-----------------------------------------------------------------------------
(* The end of an attempt, and of a transfer                                  *)

RestOfEnd == UNCHANGED <<tries, cap, put, staged, Histories>>

\* Rows that no attempt can want again.
Unwanted(t) ==
    IF t \in Managed THEN ~owner[t] ELSE attempt[t] = "off" /\ tries[t] > 0

\* What happens to the rows of the set: reservations are released, checkpoints marked.
GivenUp(ts) ==
    [t \in Exports |-> IF t \notin ts THEN entry[t]
                       ELSE CASE entry[t] = "reserved" -> "none"
                              [] entry[t] = "retained" -> "abandoning"
                              [] OTHER -> entry[t]]

\* prune_unreferenced_payloads, after the rows are saved.
Pruned(rows) == [t \in Exports |-> stored[t] /\ rows[t] = "retained"]

\* The finally of a foreground copy: prepare_abandonment, and removal.
ForegroundEnds(t) ==
    /\ t \notin Managed /\ attempt[t] \in {"failed", "done"}
    /\ attempt' = [attempt EXCEPT ![t] = "off"] /\ entry' = GivenUp({t})
    /\ stored' = IF entry[t] = "reserved" \/ entry[t] = "none" THEN stored ELSE Pruned(entry')
    /\ UNCHANGED <<owner, mishaps>> /\ RestOfEnd

\* A managed copy may be retried, from the payload if there is one; its job may end
\* well, or be deleted.
JobRetries(t) ==
    /\ t \in Managed /\ attempt[t] = "failed" /\ owner[t]
    /\ attempt' = [attempt EXCEPT ![t] = IF entry[t] = "retained" THEN "importing" ELSE "off"]
    /\ UNCHANGED <<entry, stored, owner, mishaps>> /\ RestOfEnd

JobEnds(t) ==
    /\ t \in Managed /\ attempt[t] \in {"failed", "done"} /\ owner[t]
    /\ owner' = [owner EXCEPT ![t] = FALSE] /\ attempt' = [attempt EXCEPT ![t] = "off"]
    /\ UNCHANGED <<entry, stored, mishaps>> /\ RestOfEnd

\* Variant: whoever owns the row.
Waiting_Anyone == {t \in Exports : attempt[t] \in {"uploading", "importing"}}

\* A foreground copy whose row can be a day old while it waits for an executor.
Waiting == {t \in Exports \ Managed : attempt[t] \in {"uploading", "importing"}}

\* prepare_abandonments, before a copy and after a hello: one transaction.  It goes by
\* age: the row of a foreground copy goes after a day, a staging file when nobody wrote
\* to it for an hour, whether or not their attempt still waits.
ExportSweep ==
    \E old \in SUBSET Waiting, files \in SUBSET {u \in Uploads : staged[u] # "none"} :
      /\ IF old = {} /\ files \subseteq left THEN UNCHANGED mishaps ELSE Mishap
      /\ entry' = GivenUp({t \in Exports : Unwanted(t)} \cup old) /\ stored' = Pruned(entry')
      /\ staged' = [u \in Uploads |-> IF u \in files THEN "none" ELSE staged[u]]
      /\ left' = left \ files /\ pruned' = pruned \cup {u[1] : u \in files \ left}
      /\ released' = released \cup {t \in old : attempt[t] = "uploading"}
      /\ UNCHANGED <<attempt, tries, cap, put, owner>>

\* _reconcile_abandonment: the destination has nothing left of it.
Removes(t) ==
    /\ entry[t] = "abandoning" /\ entry' = [entry EXCEPT ![t] = "none"]
    /\ stored' = [stored EXCEPT ![t] = FALSE]
    /\ UNCHANGED <<attempt, owner, mishaps>> /\ RestOfEnd

\* Attempts, capabilities and requests end with the process; rows and files stay.
ExportCrash ==
    /\ Mishap /\ attempt' = [t \in Exports |-> IF attempt[t] \in {"uploading", "importing"}
                                               THEN "failed" ELSE attempt[t]]
    /\ cap' = [u \in Uploads |-> "none"] /\ put' = [u \in Uploads |-> NoPut]
    /\ left' = left \cup {u \in Uploads : staged[u] # "none"}
    /\ pruned' = {} /\ released' = {}
    /\ UNCHANGED <<entry, stored, tries, staged, owner>>

ExportNext ==
    \/ \E t \in Exports :
         \/ Reserves(t) \/ Commits(t) \/ ExportFails(t) \/ IssuesDownload(t)
         \/ ClaimsDownload(t) \/ ImportFails(t) \/ ForegroundEnds(t) \/ JobRetries(t)
         \/ JobEnds(t) \/ Removes(t)
    \/ \E u \in Uploads :
         \/ SendsUpload(u) \/ ClaimsUpload(u) \/ MissesUpload(u) \/ UploadEnds(u)
         \/ UploadFails(u) \/ Expires(u)
    \/ ExportSweep \/ ExportCrash

ExportSpec == ExportInit /\ [][ExportNext]_exportvars

-----------------------------------------------------------------------------
(* Properties                                                                *)

ExportTypeOK ==
    /\ entry \in [Exports -> {"none", "reserved", "retained", "abandoning"}]
    /\ attempt \in [Exports -> {"off", "uploading", "importing", "failed", "done"}]
    /\ cap \in [Uploads -> {"none", "upload", "download"}]
    /\ staged \in [Uploads -> {"none", "part", "full"}]
    /\ \A u \in Uploads : put[u].sent \in 0..2 /\ put[u].handlers \in 0..2

\* Payloads and the room promised to uploads never exceed the store, however many
\* attempts overlap; and an attempt that uploads has its room, unless it is of a
\* foreground copy and waited a day.
CapacityKept ==
    /\ Cardinality(Held) <= MaxStore
    /\ \A t \in Exports :
         attempt[t] = "uploading" =>
           entry[t] = "reserved" \/ t \in released \ Managed

\* An upload that was answered is on disk for as long as its attempt can commit it,
\* unless it waits an hour: no other request or attempt takes the file away.
AcknowledgedIsStored ==
    \A t \in Exports : attempt[t] = "uploading" /\ put[Current(t)].answered
                         => staged[Current(t)] = "full" \/ t \in pruned

\* A checkpoint an attempt can import from has its payload, whatever was pruned.
RetainedIsStored == \A t \in Exports : entry[t] = "retained" => stored[t]

\* When its attempt is over, nothing of an upload is left: no capability that can be
\* claimed, and no file, but for what a crash leaves to the sweep.
NothingOutlives ==
    \A u \in Uploads :
      /\ cap[u] # "none" =>
           u = Current(u[1]) /\ attempt[u[1]] \in {"uploading", "importing"}
      /\ staged[u] # "none" =>
           u \in left \/ (u = Current(u[1]) /\ attempt[u[1]] = "uploading")

ExportsInv ==
    /\ ExportTypeOK /\ CapacityKept /\ AcknowledgedIsStored /\ RetainedIsStored
    /\ NothingOutlives
=============================================================================
