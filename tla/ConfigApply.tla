---------------------------- MODULE ConfigApply -----------------------------
(***************************************************************************)
(* A Parent process runs a Child for each role.  A Child loads its         *)
(* configuration file, tells the Parent what it loaded and later that it   *)
(* has started; it may then be edited through, and asked to apply the      *)
(* edited file.  The Parent restarts every Child that reads the file and,  *)
(* when one of them fails, restores the file to the text the Children were *)
(* last seen to start with.                                                *)
(***************************************************************************)
EXTENDS Naturals

CONSTANTS Roles,      \* a Child each
          Configs,    \* configuration files
          Texts,      \* what a file may contain
          NoText,     \* the absence of a text
          MaxEdits    \* bound: edits of the files

ASSUME ConfigApplyAssumption ==
    /\ NoText \notin Texts \cup Configs /\ MaxEdits \in Nat
    /\ {"none", "config", "ready"} \cap Texts = {} /\ {"none", "parent"} \cap Roles = {}

VARIABLES
    reads,       \* the file each role is started with
    onDisk,      \* each file: its text, and who wrote it
    good,        \* good_files: the text restored when an apply fails
    applying,    \* the apply in progress: file, candidate, ready roles, recovering
    child,       \* the Child of each role, and the Parent's record of it
    mail,        \* the unanswered message of each Child
    parent,      \* what the Parent does: "loop", "locking", "writing", "stopping", "ended"
    lockedBy,    \* the holder of each file's lock: "none", "parent" or a role
    draft,       \* what a Child's save has read and is about to write
    edits,       \* edits so far
    proven,      \* history: the texts all readers of a file have started with
    overwritten  \* history: whose text a writer replaced without having read it

applyvars == <<reads, onDisk, good, applying, child, mail, parent, lockedBy, draft, edits,
               proven, overwritten>>

NoApply == [file |-> NoText, candidate |-> NoText, ready |-> {}, recovering |-> FALSE]
NewChild(how) == [stage |-> "boot", text |-> NoText, started |-> FALSE,
                  registered |-> FALSE, status |-> how]

Readers(f) == {r \in Roles : reads[r] = f}
IsWell(c) == c.status \in {"healthy", "recovered"}

\* All Children have told which file they read, and those of this file are well.
AllWell(f) == /\ \A r \in Roles : child[r].registered
              /\ \A r \in Readers(f) : IsWell(child[r])

\* The executor takes commands as soon as its first hello is through.
Serves(r) == /\ parent # "ended"
             /\ (child[r].stage = "serving" \/ (r = "executor" /\ child[r].stage = "ready"))

ApplyInit ==
    /\ reads \in [Roles -> Configs]
    /\ \E x \in Texts : onDisk = [f \in Configs |-> [text |-> x, by |-> "editor"]]
    /\ good = [f \in Configs |-> NoText] /\ applying = NoApply
    /\ child = [r \in Roles |-> NewChild("starting")]
    /\ mail = [r \in Roles |-> "none"] /\ parent = "loop"
    /\ lockedBy = [f \in Configs |-> "none"]
    /\ draft = [r \in Roles |-> [basis |-> NoText, text |-> NoText]]
    /\ edits = 0 /\ proven = {} /\ overwritten = {}

-----------------------------------------------------------------------------
(* The files                                                                 *)

\* A writer that has read basis replaces the text of a file.
Replace(f, basis, text, by) ==
    /\ onDisk' = [onDisk EXCEPT ![f] = [text |-> text, by |-> by]]
    /\ overwritten' = IF onDisk[f].text = basis THEN overwritten
                      ELSE overwritten \cup {onDisk[f].by}

\* The owner changes a file without taking its lock.
Edit(f) ==
    /\ parent # "ended" /\ edits < MaxEdits /\ edits' = edits + 1
    /\ \E x \in Texts \ {onDisk[f].text} : Replace(f, onDisk[f].text, x, "editor")
    /\ UNCHANGED <<reads, good, applying, child, mail, parent, lockedBy, draft, proven>>

\* Variant: the save does not wait for the lock.
BeginSave_Unlocked(r) ==
    LET f == reads[r] IN
    /\ Serves(r) /\ draft[r].text = NoText /\ edits < MaxEdits
    /\ \E x \in Texts \ {onDisk[f].text} :
          draft' = [draft EXCEPT ![r] = [basis |-> onDisk[f].text, text |-> x]]
    /\ edits' = edits + 1 /\ lockedBy' = [lockedBy EXCEPT ![f] = r]
    /\ UNCHANGED <<reads, onDisk, good, applying, child, mail, parent, proven, overwritten>>

\* save_config: under the lock, the revision the user has seen is compared with the
\* file, ...
BeginSave(r) ==
    LET f == reads[r] IN
    /\ Serves(r) /\ lockedBy[f] = "none" /\ edits < MaxEdits
    /\ \E x \in Texts \ {onDisk[f].text} :
          draft' = [draft EXCEPT ![r] = [basis |-> onDisk[f].text, text |-> x]]
    /\ edits' = edits + 1 /\ lockedBy' = [lockedBy EXCEPT ![f] = r]
    /\ UNCHANGED <<reads, onDisk, good, applying, child, mail, parent, proven, overwritten>>

\* ... and the file is replaced, also by a Child that has been told to stop.
WriteSave(r) ==
    /\ Serves(r) /\ draft[r].text # NoText
    /\ Replace(reads[r], draft[r].basis, draft[r].text, "save")
    /\ draft' = [draft EXCEPT ![r] = [basis |-> NoText, text |-> NoText]]
    /\ lockedBy' = [lockedBy EXCEPT ![reads[r]] = "none"]
    /\ UNCHANGED <<reads, good, applying, child, mail, parent, edits, proven>>

-----------------------------------------------------------------------------
(* The Children                                                              *)

\* The settings are loaded and notify_config_selected is sent.
Load(r) ==
    /\ parent # "ended" /\ child[r].stage = "boot"
    /\ child' = [child EXCEPT ![r].stage = "loaded", ![r].text = onDisk[reads[r]].text]
    /\ mail' = [mail EXCEPT ![r] = "config"]
    /\ UNCHANGED <<reads, onDisk, good, applying, parent, lockedBy, draft, edits, proven,
                   overwritten>>

\* Control is bound, or the first hello of the executor is through: notify_ready.
Started(r) ==
    LET f == reads[r] IN
    /\ parent # "ended" /\ child[r].stage = "starting"
    /\ child' = [child EXCEPT ![r].stage = "ready", ![r].started = TRUE]
    /\ mail' = [mail EXCEPT ![r] = "ready"]
    /\ proven' = IF \A q \in Readers(f) : child'[q].started /\ child[q].text = child[r].text
                 THEN proven \cup {<<f, child[r].text>>} ELSE proven
    /\ UNCHANGED <<reads, onDisk, good, applying, parent, lockedBy, draft, edits, overwritten>>

\* The user applies the text that is on disk: the state of the Parent and the revision
\* are checked, and Control refuses a text it runs; then request_restart is sent.
AskApply(r) ==
    LET x == onDisk[reads[r]].text IN
    /\ Serves(r) /\ mail[r] = "none" /\ AllWell(reads[r])
    /\ lockedBy[reads[r]] = "none" /\ (r = "control" => x # child[r].text)
    /\ mail' = [mail EXCEPT ![r] = x]
    /\ UNCHANGED <<reads, onDisk, good, applying, child, parent, lockedBy, draft, edits,
                   proven, overwritten>>

\* A process is gone: its locks are free and its save is not written.
Releases(rs) ==
    /\ lockedBy' = [f \in Configs |-> IF lockedBy[f] \in rs THEN "none" ELSE lockedBy[f]]
    /\ draft' = [r \in Roles |-> IF r \in rs THEN [basis |-> NoText, text |-> NoText]
                                 ELSE draft[r]]

\* A Child exits: it cannot start with its text, or it fails later.
ChildExits(r) ==
    /\ parent # "ended" /\ child[r].stage # "gone"
    /\ child' = [child EXCEPT ![r].stage = "gone"] /\ Releases({r})
    /\ UNCHANGED <<reads, onDisk, good, applying, mail, parent, edits, proven, overwritten>>

-----------------------------------------------------------------------------
(* The Parent                                                                *)

\* supervise returns or raises: every Child is stopped,
\* and what the Parent knew goes with it.
Ends == /\ parent' = "ended" /\ Releases(Roles \cup {"parent"})
        /\ child' = [r \in Roles |-> [NewChild("starting") EXCEPT !.stage = "gone"]]
        /\ mail' = [r \in Roles |-> "none"] /\ applying' = NoApply
        /\ good' = [f \in Configs |-> NoText]
        /\ UNCHANGED <<onDisk, proven, overwritten>>

Terminated == parent # "ended" /\ Ends /\ UNCHANGED <<reads, edits>>

\* recover, up to the lock of the file: once for each apply.
Recover ==
    IF applying.recovering \/ onDisk[applying.file].text # applying.candidate
    THEN Ends
    ELSE /\ parent' = "locking"
         /\ UNCHANGED <<onDisk, good, applying, child, mail, lockedBy, draft, proven,
                        overwritten>>

SeesExit(r) ==
    /\ parent = "loop" /\ child[r].stage = "gone"
    /\ IF applying # NoApply /\ reads[r] = applying.file THEN Recover ELSE Ends
    /\ UNCHANGED <<reads, edits>>

TimesOut ==
    /\ parent = "loop" /\ applying # NoApply /\ Recover
    /\ UNCHANGED <<reads, edits>>

\* Variant: the lock is taken, and what happened before is not looked at again.
LockRestore_Trusts ==
    /\ parent = "locking" /\ lockedBy[applying.file] = "none"
    /\ parent' = "writing" /\ lockedBy' = [lockedBy EXCEPT ![applying.file] = "parent"]
    /\ UNCHANGED <<onDisk, good, applying, child, mail, draft, proven, overwritten,
                   reads, edits>>

\* _restore_good: under the lock the file still has to be the candidate.
LockRestore ==
    /\ parent = "locking" /\ lockedBy[applying.file] = "none"
    /\ IF onDisk[applying.file].text # applying.candidate THEN Ends
       ELSE /\ parent' = "writing"
            /\ lockedBy' = [lockedBy EXCEPT ![applying.file] = "parent"]
            /\ UNCHANGED <<onDisk, good, applying, child, mail, draft, proven, overwritten>>
    /\ UNCHANGED <<reads, edits>>

LockTimesOut ==
    /\ parent = "locking" /\ lockedBy[applying.file] # "none" /\ Ends
    /\ UNCHANGED <<reads, edits>>

WriteRestore ==
    LET f == applying.file IN
    /\ parent = "writing" /\ parent' = "stopping"
    /\ Replace(f, applying.candidate, good[f], "restore")
    /\ lockedBy' = [lockedBy EXCEPT ![f] = "none"]
    /\ applying' = [applying EXCEPT !.recovering = TRUE, !.ready = {}]
    /\ UNCHANGED <<reads, good, child, mail, draft, edits, proven>>

\* restart_roles
Respawn ==
    LET rs == Readers(applying.file) IN
    /\ parent = "stopping" /\ parent' = "loop" /\ Releases(rs)
    /\ child' = [r \in Roles |-> IF r \in rs THEN NewChild("applying") ELSE child[r]]
    /\ mail' = [r \in Roles |-> IF r \in rs THEN "none" ELSE mail[r]]
    /\ UNCHANGED <<reads, onDisk, good, applying, edits, proven, overwritten>>

\* The Parent takes a message: an answer to a process that is gone raises.
TakesMessage(r, message) == parent = "loop" /\ mail[r] = message /\ child[r].stage # "gone"

AnswersTheGone(r) ==
    /\ parent = "loop" /\ mail[r] # "none" /\ child[r].stage = "gone" /\ Ends
    /\ UNCHANGED <<reads, edits>>

\* record_healthy_files, for the Children as they are known to the Parent.
Recorded(known) ==
    LET Healthy(f) == /\ \A r \in Readers(f) :
                           IsWell(known[r]) /\ known[r].text = onDisk[f].text
                      /\ Readers(f) # {}
    IN IF \A r \in Roles : known[r].registered
       THEN [f \in Configs |-> IF Healthy(f) THEN onDisk[f].text ELSE good[f]]
       ELSE good

HandleConfig(r) ==
    /\ TakesMessage(r, "config")
    /\ child' = [child EXCEPT ![r].stage = "starting", ![r].registered = TRUE]
    /\ good' = Recorded(child') /\ mail' = [mail EXCEPT ![r] = "none"]
    /\ UNCHANGED <<reads, onDisk, applying, parent, lockedBy, draft, edits, proven,
                   overwritten>>

\* A Child whose file is no longer what it loaded, or what the apply is about, is told
\* so and exits.
Stale(r) ==
    LET f == reads[r]
        expected == IF applying.recovering THEN good[f] ELSE applying.candidate
    IN \/ onDisk[f].text # child[r].text
       \/ applying.file = f /\ onDisk[f].text # expected

RefuseReady(r) ==
    /\ TakesMessage(r, "ready") /\ Stale(r)
    /\ child' = [child EXCEPT ![r].stage = "gone"] /\ mail' = [mail EXCEPT ![r] = "none"]
    /\ Releases({r})
    /\ UNCHANGED <<reads, onDisk, good, applying, parent, edits, proven, overwritten>>

\* The start of a role no apply is about.
HandleReady(r) ==
    /\ TakesMessage(r, "ready") /\ ~Stale(r) /\ applying.file # reads[r]
    /\ child' = [child EXCEPT ![r].stage = "serving", ![r].status = "healthy"]
    /\ good' = Recorded(child') /\ mail' = [mail EXCEPT ![r] = "none"]
    /\ UNCHANGED <<reads, onDisk, applying, parent, lockedBy, draft, edits, proven,
                   overwritten>>

\* Variant: the last role to be ready is what counts.
ApplyCompletes_OnFirst(ready, f) == ready # {}

\* The apply is over when all its roles are ready.
ApplyCompletes(ready, f) == ready = Readers(f)

HandleApplied(r) ==
    LET f == reads[r]
        ready == applying.ready \cup {r}
        done == ApplyCompletes(ready, f)
        how == IF applying.recovering THEN "recovered" ELSE "healthy"
        now == [child EXCEPT ![r].stage = "serving"]
    IN /\ TakesMessage(r, "ready") /\ ~Stale(r) /\ applying.file = f
       /\ child' = IF done THEN [q \in Roles |-> IF q \in Readers(f)
                                                 THEN [now[q] EXCEPT !.status = how]
                                                 ELSE now[q]] ELSE now
       /\ applying' = IF done THEN NoApply ELSE [applying EXCEPT !.ready = ready]
       /\ good' = IF /\ done
                     /\ \A q \in Readers(f) : child[q].registered => child[q].text = child[r].text
                  THEN [good EXCEPT ![f] = onDisk[f].text] ELSE good
       /\ mail' = [mail EXCEPT ![r] = "none"]
       /\ UNCHANGED <<reads, onDisk, parent, lockedBy, draft, edits, proven, overwritten>>

\* An apply of the text on disk, by Children that are all well and have a text to go
\* back to.
MayApply(r, revision) ==
    LET f == reads[r] IN
    applying = NoApply /\ AllWell(f) /\ good[f] # NoText /\ onDisk[f].text = revision

HandleApply(r) ==
    \E revision \in Texts :
        /\ TakesMessage(r, revision) /\ mail' = [mail EXCEPT ![r] = "none"]
        /\ IF MayApply(r, revision)
           THEN /\ applying' = [file |-> reads[r], candidate |-> revision, ready |-> {},
                                recovering |-> FALSE]
                /\ parent' = "stopping"
           ELSE UNCHANGED <<applying, parent>>
        /\ UNCHANGED <<reads, onDisk, good, child, lockedBy, draft, edits, proven,
                       overwritten>>

ParentStep ==
    \/ LockRestore \/ LockTimesOut \/ WriteRestore \/ Respawn \/ TimesOut \/ Terminated
    \/ \E r \in Roles : \/ SeesExit(r) \/ AnswersTheGone(r) \/ HandleConfig(r)
                        \/ RefuseReady(r) \/ HandleReady(r) \/ HandleApplied(r)
                        \/ HandleApply(r)

ChildStep(r) ==
    Load(r) \/ Started(r) \/ AskApply(r) \/ BeginSave(r) \/ WriteSave(r) \/ ChildExits(r)

ApplyNext == ParentStep \/ (\E r \in Roles : ChildStep(r)) \/ \E f \in Configs : Edit(f)

ApplySpec == ApplyInit /\ [][ApplyNext]_applyvars

-----------------------------------------------------------------------------
(* Properties                                                                *)

\* The values the variables take.
SomeText == Texts \cup {NoText}
Children == [stage : {"boot", "loaded", "starting", "ready", "serving", "gone"},
             text : SomeText, started : BOOLEAN, registered : BOOLEAN,
             status : {"starting", "applying", "healthy", "recovered"}]
Applies == {NoApply} \cup [file : Configs, candidate : Texts, ready : SUBSET Roles,
                          recovering : BOOLEAN]

ApplyTypeOK ==
    /\ reads \in [Roles -> Configs]
    /\ onDisk \in [Configs -> [text : Texts, by : {"editor", "save", "restore"}]]
    /\ good \in [Configs -> SomeText] /\ applying \in Applies
    /\ child \in [Roles -> Children]
    /\ mail \in [Roles -> Texts \cup {"none", "config", "ready"}]
    /\ parent \in {"loop", "locking", "writing", "stopping", "ended"}
    /\ lockedBy \in [Configs -> Roles \cup {"none", "parent"}]
    /\ draft \in [Roles -> [basis : SomeText, text : SomeText]]
    /\ edits \in 0 .. MaxEdits

\* What the Parent takes for well has started, after it had told what it loaded.
StartsInOrder ==
    \A r \in Roles :
        /\ child[r].stage = "boot" => ~child[r].started
        /\ child[r].stage = "starting" \/ child[r].started => child[r].registered
        /\ mail[r] = "ready" \/ IsWell(child[r]) => child[r].started

\* The history is complete: a text all readers have started with is proven.
ProvenIsComplete ==
    \A r \in Roles :
        (\A q \in Readers(reads[r]) : child[q].started /\ child[q].text = child[r].text)
        => <<reads[r], child[r].text>> \in proven

\* A writer between its look at a file and its write holds the lock, and only who needs
\* no lock can have changed the file since.
Unchanged(f, basis) == onDisk[f].text = basis \/ onDisk[f].by = "editor"

WritersHoldTheLock ==
    /\ \A r \in Roles : draft[r].text # NoText =>
          lockedBy[reads[r]] = r /\ Unchanged(reads[r], draft[r].basis)
    /\ parent = "writing" =>
          lockedBy[applying.file] = "parent" /\ Unchanged(applying.file, applying.candidate)

\* An apply has readers to restart, a text to go back to, and knows what those who are
\* ready run.  Until they are stopped they run the old text, afterwards none is well.
RunsGood(r) == IsWell(child[r]) /\ child[r].text = good[reads[r]]
Expected == IF applying.recovering THEN good[applying.file] ELSE applying.candidate

ApplyIsKnown ==
    /\ parent \in {"locking", "writing", "stopping"} => applying # NoApply
    /\ parent = "stopping" => applying.ready = {}
    /\ applying # NoApply =>
        /\ good[applying.file] # NoText /\ Readers(applying.file) # {}
        /\ \A r \in applying.ready : /\ reads[r] = applying.file /\ child[r].started
                                    /\ child[r].text = Expected
        /\ \A r \in Readers(applying.file) :
              IF parent = "stopping" /\ ~applying.recovering
              THEN RunsGood(r) ELSE ~IsWell(child[r])

\* Outside an apply, a file has a text to go back to only while all its readers run it.
GoodIsKept ==
    \A r \in Roles : good[reads[r]] # NoText /\ applying.file # reads[r] => RunsGood(r)

\* What a rollback restores is a text with which all Children that read the file have
\* started together: never one that was only loaded, or only by some of them.
GoodIsProven == \A f \in Configs : good[f] # NoText => <<f, good[f]>> \in proven

\* When all readers of a file are well, they run the same text, which is the one a
\* rollback would restore: a rollback never goes back behind what is running.
GoodIsRunning ==
    \A f \in Configs :
        good[f] # NoText /\ (\A r \in Readers(f) : IsWell(child[r]))
        => \A r \in Readers(f) : child[r].text = good[f]

\* What was saved under the file's lock is replaced only by a writer that has read it:
\* a rollback does not undo a save it does not know of.
SavesAreNotLost == "save" \notin overwritten

\* All of it; what does not follow from the rest is inductive.
ApplyIInv ==
    /\ ApplyTypeOK /\ StartsInOrder /\ ProvenIsComplete /\ WritersHoldTheLock
    /\ ApplyIsKnown /\ GoodIsKept /\ GoodIsProven /\ SavesAreNotLost

ApplyInv == ApplyIInv /\ GoodIsRunning
=============================================================================
