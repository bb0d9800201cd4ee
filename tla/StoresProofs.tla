---------------------------- MODULE StoresProofs ----------------------------
(***************************************************************************)
(* What Control keeps about others: a registry is served as it was         *)
(* published last, no download link is used up twice or comes back, no     *)
(* OAuth code is spent twice and no approved client is lost; the locks of  *)
(* the paths exclude and never wait in a circle; an executor's bearer goes *)
(* to the device that was approved for it; and the configuration files     *)
(* that Parent and Children apply keep their promises.  For every set of   *)
(* contents, links, clients, codes, threads, paths, executors, devices and *)
(* texts, every limit and any number of crashes, failed writes, damaged    *)
(* files and edits.                                                        *)
(***************************************************************************)
EXTENDS ExecutorPairing, RegistryRecovery, FileLinks, OAuthGrants, PathLocks,
        ConfigApply, FiniteSetTheorems, WellFoundedInduction, TLAPS

-----------------------------------------------------------------------------
(* The registries of Control                                               *)

(* What a write in progress knows: the record it writes, and how that record's
   generation stands to the last publication.                               *)
RegistryWriting ==
    stage \in {"marker", "primary", "backup"} =>
        /\ Readable(pending) /\ pending.gen # 0 /\ op # "none"
        /\ stage = "backup" => pending = committed
        /\ op \in {"repair", "restore"} => pending = committed
        /\ op = "restore" => stage = "primary"
        /\ op = "repair" => stage # "primary"
        /\ op = "upgrade" => pending.val = committed.val
        /\ (op \in {"put", "upgrade"} /\ stage # "backup") =>
               pending.gen = fence /\ committed.gen < fence
        /\ (op \in {"put", "upgrade"} /\ stage = "primary" /\ Readable(marker)) =>
               marker.gen >= pending.gen
        /\ (op = "put" /\ stage # "backup") =>
               memory = committed.val \/ (wiped /\ memory = Empty)

RegistryIInv ==
        /\ RegistrySafe
        /\ RegistryWriting
        /\ committed.gen <= fence /\ committed # Garbage
        /\ NothingThere => committed = NoFile \/ wiped

-----------------------------------------------------------------------------

LEMMA RegistryFileFacts ==
    /\ \A f \in Files : /\ f.gen \in Nat /\ f.val \in Values
                        /\ f.kind \in {"absent", "garbage", "file"}
    /\ \A f \in Files : ~Readable(f) => f = NoFile \/ f = Garbage
    /\ \A f \in Files : Readable(f) => f = File(f.gen, f.val)
    /\ NoFile \in Files /\ Garbage \in Files /\ NoFile # Garbage
    /\ ~Readable(NoFile) /\ ~Readable(Garbage)
    /\ NoFile.gen = 0 /\ NoFile.val = Empty
    /\ \A g \in Nat, v \in Values :
         /\ File(g, v) \in Files /\ Readable(File(g, v))
         /\ File(g, v).gen = g /\ File(g, v).val = v
         /\ File(g, v) # NoFile /\ File(g, v) # Garbage
<1> USE RegistryAssumption DEF Files, NoFile, Garbage, File, Readable
<1>1. ASSUME NEW f \in Files
      PROVE  /\ f.gen \in Nat /\ f.val \in Values
             /\ f.kind \in {"absent", "garbage", "file"}
             /\ ~Readable(f) => f = NoFile \/ f = Garbage
             /\ Readable(f) => f = File(f.gen, f.val)
  OBVIOUS
<1>2. ASSUME NEW g \in Nat, NEW v \in Values
      PROVE  /\ File(g, v) \in Files /\ Readable(File(g, v))
             /\ File(g, v).gen = g /\ File(g, v).val = v
             /\ File(g, v) # NoFile /\ File(g, v) # Garbage
  OBVIOUS
<1>3. /\ NoFile \in Files /\ Garbage \in Files /\ NoFile # Garbage
      /\ ~Readable(NoFile) /\ ~Readable(Garbage)
      /\ NoFile.gen = 0 /\ NoFile.val = Empty
  OBVIOUS
<1>4. QED
  BY <1>1, <1>2, <1>3

LEMMA RegistryInitEstablishes == RegistryInit => RegistryIInv
<1> SUFFICES ASSUME RegistryInit PROVE RegistryIInv
    OBVIOUS
<1>1. primary = NoFile \/ \E v \in Values : primary = File(0, v)
  BY DEF RegistryInit
<1>2. primary \in Files /\ primary.gen = 0 /\ primary # Garbage
  BY <1>1, RegistryFileFacts
<1>3. RegistryTypeOK
  BY <1>2, RegistryFileFacts, RegistryAssumption DEF RegistryInit, RegistryTypeOK
<1>4. QED
  BY <1>2, <1>3, RegistryFileFacts
     DEF RegistryInit, RegistryIInv, RegistrySafe, FilesAreOrdered, ServesLastPublished,
         RegistryWriting, NothingThere

LEMMA RegistryNextPreserves == RegistryIInv /\ [RegistryNext]_rvars => RegistryIInv'
<1> SUFFICES ASSUME RegistryIInv, [RegistryNext]_rvars PROVE RegistryIInv'
    OBVIOUS
<1> USE RegistryFileFacts, RegistryAssumption
<1> USE DEF RegistryIInv, RegistrySafe, RegistryTypeOK, FilesAreOrdered, ServesLastPublished,
            RegistryWriting, NothingThere
<1>1. CASE LoadPrimary
  BY <1>1 DEF LoadPrimary, Begin, Agree
<1>2. CASE LoadBackup
  BY <1>2 DEF LoadBackup, Begin, Recoverable
<1>3. CASE LoadNothing
  BY <1>3 DEF LoadNothing
<1>4. CASE Refuse
  BY <1>4 DEF Refuse
<1>5. ASSUME NEW v \in Values, Put(v) PROVE RegistryIInv'
  BY <1>5 DEF Put, Begin
<1>6. CASE MarkerWritten
  BY <1>6 DEF MarkerWritten, Healed
<1>7. CASE PrimaryWritten
  <2>0. op = "restore" => pending = committed
    BY <1>7 DEF PrimaryWritten
  <2>1. /\ primary' = pending /\ committed' = pending /\ wiped' = FALSE
        /\ UNCHANGED <<marker, backup, fence, op, pending>>
        /\ stage' \in {"running", "backup"} /\ memory' \in {memory, pending.val}
        /\ stage = "primary"
    BY <1>7, <2>0 DEF PrimaryWritten, Served
  <2>2. faults' \in {0, faults}
    <3> HIDE DEF RegistryIInv
    <3>1. QED BY <1>7 DEF PrimaryWritten, Healed
  <2>3. pending.val \in Values /\ pending.gen \in Nat
    OBVIOUS
  <2>4. RegistryTypeOK'
    <3>1. RegistryTypeOK
      OBVIOUS
    <3>2. /\ {marker, primary, backup, pending, committed}' \subseteq Files
          /\ faults' \in Nat /\ memory' \in Values
      BY <3>1, <2>1, <2>2, <2>3
    <3>3. QED
      BY <3>1, <3>2, <2>1
  <2>5. pending = committed \/ (pending.gen = fence /\ committed.gen < pending.gen)
    <3>1. op \in {"put", "upgrade", "repair", "restore"}
      BY <2>1
    <3>2. CASE op \in {"put", "upgrade"}
      BY <3>2, <2>1
    <3>3. CASE op \in {"repair", "restore"}
      BY <3>3, <2>1
    <3>4. QED
      BY <3>1, <3>2, <3>3
  <2>6. Readable(backup) => backup.gen \in Nat /\ backup.gen <= pending.gen
    BY <2>5
  <2>7. Readable(marker) => marker.gen >= pending.gen
    BY <2>1, <2>5
  <2>8. FilesAreOrdered'
    BY <2>1, <2>5, <2>6, <2>7
  <2>9. ServesLastPublished'
    BY <1>7, <2>1 DEF PrimaryWritten, Served
  <2>10. RegistryWriting'
    BY <1>7, <2>1 DEF PrimaryWritten, Served
  <2>11. (committed.gen <= fence /\ committed # Garbage)' /\ ~NothingThere'
    BY <1>7, <2>1 DEF PrimaryWritten
  <2>12. QED
    BY <2>4, <2>8, <2>9, <2>10, <2>11
<1>8. CASE BackupWritten
  BY <1>8 DEF BackupWritten, Healed, Served
<1>9. CASE WriteFails
  BY <1>9 DEF WriteFails, Served
<1>10. CASE Exits
  BY <1>10 DEF Exits
<1>11. ASSUME NEW left \in {NoFile, Garbage}, Damage(left) PROVE RegistryIInv'
  <2>1. /\ marker' \in {marker, left} /\ primary' \in {primary, left}
        /\ backup' \in {backup, left} /\ ~Readable(left) /\ left \in Files
    BY <1>11 DEF Damage
  <2>2. /\ wiped' = (wiped \/ NothingThere') /\ faults' \in Nat
        /\ UNCHANGED <<stage, op, pending, memory, fence, committed>>
    BY <1>11 DEF Damage
  <2>3. RegistryTypeOK' /\ FilesAreOrdered'
    BY <2>1, <2>2
  <2>4. ServesLastPublished' /\ RegistryWriting'
    BY <2>1, <2>2
  <2>5. QED
    BY <2>2, <2>3, <2>4
<1>12. CASE UNCHANGED rvars
  BY <1>12 DEF rvars
<1>13. QED
  BY <1>1, <1>2, <1>3, <1>4, <1>5, <1>6, <1>7, <1>8, <1>9, <1>10, <1>11, <1>12
     DEF RegistryNext

(* A start serves the last publication, and no damage, failed write or crash
   lets it serve an older one.  (load_registry, write_registry)               *)
THEOREM RegistrySafety == RegistrySpec => []RegistrySafe
<1>1. RegistryIInv => RegistrySafe
  BY DEF RegistryIInv
<1>2. QED
  BY RegistryInitEstablishes, RegistryNextPreserves, <1>1, PTL DEF RegistrySpec

(* What is left of a registry after at most one fault: with none the files agree, or
   a write stands between them and the primary is readable; with one there is the
   primary, or the backup of the fenced generation, or the primary is being written. *)
RegistryAtRest == stage \in {"stopped", "running", "refused", "marker"}
Survives ==
    /\ faults = 0 /\ ~RegistryAtRest =>
         op # "restore" /\ Readable(marker) /\ marker.gen = pending.gen
    /\ committed # NoFile =>
         /\ faults = 0 => IF RegistryAtRest THEN Agree ELSE Readable(primary)
         /\ faults = 1 /\ (RegistryAtRest \/ op = "restore") =>
              Readable(primary) \/ Recoverable
         /\ faults = 1 /\ stage = "backup" =>
              Readable(primary) \/ (Readable(marker) /\ marker.gen = pending.gen)
         /\ stage = "refused" => faults >= 2

LEMMA SurvivesPreserves ==
    RegistryIInv /\ Survives /\ [RegistryNext]_rvars => Survives'
<1> SUFFICES ASSUME RegistryIInv, Survives, [RegistryNext]_rvars PROVE Survives'
    OBVIOUS
<1> USE RegistryFileFacts
<1>0. /\ RegistryTypeOK /\ FilesAreOrdered /\ RegistryWriting
      /\ committed \in Files /\ backup \in Files /\ faults \in Nat
  BY DEF RegistryIInv, RegistrySafe, RegistryTypeOK
<1> USE DEF Survives, RegistryAtRest
<1>1. CASE LoadPrimary
  BY <1>0, <1>1 DEF LoadPrimary, Begin, Agree, FilesAreOrdered
<1>2. CASE LoadBackup
  <2>1. /\ Recoverable /\ ~Readable(primary) /\ stage = "stopped"
        /\ stage' = "primary" /\ op' = "restore"
        /\ UNCHANGED <<marker, primary, backup, committed, faults>>
    BY <1>2 DEF LoadBackup, Begin
  <2>2. faults # 0
    <3>1. committed # NoFile
      BY <1>0, <2>1 DEF Recoverable, FilesAreOrdered
    <3>2. QED
      BY <2>1, <3>1 DEF Agree
  <2>3. Recoverable'
    BY <2>1 DEF Recoverable
  <2>4. QED
    BY <2>1, <2>2, <2>3
<1>3. CASE LoadNothing
  BY <1>0, <1>3 DEF LoadNothing, NothingThere, Agree, Recoverable
<1>4. CASE Refuse
  BY <1>0, <1>4 DEF Refuse, NothingThere, Agree, Recoverable
<1>5. ASSUME NEW v \in Values, Put(v) PROVE Survives'
  BY <1>0, <1>5 DEF Put, Begin, Agree, Recoverable
<1>6. CASE MarkerWritten
  BY <1>0, <1>6 DEF MarkerWritten, Healed, Agree, Recoverable, RegistryWriting, RegistryTypeOK
<1>7. CASE PrimaryWritten
  BY <1>0, <1>7 DEF PrimaryWritten, Served, Healed, Agree, Recoverable, RegistryWriting
<1>8. CASE BackupWritten
  BY <1>0, <1>8
     DEF BackupWritten, Served, Healed, Agree, Recoverable, RegistryWriting, FilesAreOrdered
<1>9. CASE WriteFails
  BY <1>0, <1>9 DEF WriteFails, Served, Agree, Recoverable, RegistryWriting
<1>10. CASE Exits
  BY <1>0, <1>10 DEF Exits, Agree, Recoverable, RegistryWriting, RegistryTypeOK
<1>11. ASSUME NEW left \in {NoFile, Garbage}, Damage(left) PROVE Survives'
  BY <1>0, <1>11 DEF Damage, Agree, Recoverable
<1>12. CASE UNCHANGED rvars
  BY <1>12 DEF rvars, Agree, Recoverable
<1>13. QED
  BY <1>1, <1>2, <1>3, <1>4, <1>5, <1>6, <1>7, <1>8, <1>9, <1>10, <1>11, <1>12
     DEF RegistryNext

(* One fault is always survived, whenever it happens: a start refuses a registry that
   was ever published only after a second one.  (load_registry, write_registry)      *)
THEOREM OneFaultIsSurvived == RegistrySpec => []RefusesOnlyAfterTwoFaults
<1>1. RegistryInit => Survives
  BY RegistryFileFacts DEF RegistryInit, Survives, RegistryAtRest
<1>2. RegistryIInv /\ Survives => RefusesOnlyAfterTwoFaults
  BY DEF Survives, RefusesOnlyAfterTwoFaults
<1>3. QED
  BY RegistryInitEstablishes, RegistryNextPreserves, SurvivesPreserves, <1>1, <1>2, PTL
     DEF RegistrySpec

-----------------------------------------------------------------------------
(* Download links                                                          *)

\* A table that may be answered from: it holds no ended link, it has counted
\* every body handed out, and what it lets out has a payload nobody releases.
Trusted(t, known, ended, bodies, present, leaving) ==
    /\ t \in Tables /\ DOMAIN t \subseteq known \ ended
    /\ \A l \in DOMAIN t : /\ bodies[l] <= t[l]
                           /\ Exhausted(t, l) \/ l \in present \ leaving

TrustedNow(t) == Trusted(t, used, revoked, served, payloads \cup lost, releasing)

LinksTyped ==
    /\ {saved, spare} \subseteq {TableFile(t) : t \in Tables} \cup {Absent, Unreadable}
    /\ phase \in {"idle", "loaded", "saving", "dropped", "written"}
    /\ payloads \subseteq Links /\ used \subseteq Links
    /\ revoked \subseteq used /\ releasing \subseteq used
    /\ served \in [Links -> Nat] /\ \A l \in Links \ used : served[l] = 0
    /\ phase # "idle" =>
          request \in [op : Operations \cup {"refuse"}, link : used]

\* Two readable files agree, and the spare one is gone before the primary changes.
FilesAgree ==
    /\ Valid(saved) /\ Valid(spare) => saved = spare
    /\ phase \in {"dropped", "written"} => spare = Absent
    /\ phase = "written" /\ Valid(saved) => saved = TableFile(table)

\* What the operation under way still owes the links.
RegisterIsFresh ==
    phase # "idle" /\ request.op = "register" =>
        /\ link \notin revoked \cup releasing /\ served[link] = 0
        /\ phase # "written" => link \notin DOMAIN Durable

ChangeIsMade ==
    phase \in {"saving", "dropped", "written"} =>
        /\ request.op = "revoke" => link \notin DOMAIN table
        /\ request.op = "get" =>
              /\ link \in DOMAIN table /\ served[link] < table[link]
              /\ Limit[link] > 0 => table[link] <= Limit[link]

LinksIInv ==
    /\ LinksTyped /\ FilesAgree /\ RegisterIsFresh /\ ChangeIsMade
    /\ TrustedNow(table) /\ TrustedNow(Durable) /\ NeverOverserved

-----------------------------------------------------------------------------
(* Tables: which changes keep one trusted                                  *)

LEMMA TableDomain ==
    ASSUME NEW t
    PROVE  t \in Tables <=> DOMAIN t \subseteq Links /\ t \in [DOMAIN t -> 0 .. MaxCount]
  BY DEF Tables

LEMMA EmptyTrusted ==
    ASSUME NEW u, NEW r, NEW s, NEW p, NEW x PROVE Trusted(NoTable, u, r, s, p, x)
<1>1. DOMAIN NoTable = {}
  BY DEF NoTable
<1>2. NoTable \in [DOMAIN NoTable -> 0 .. MaxCount]
  BY DEF NoTable
<1>3. QED
  BY <1>1, <1>2, TableDomain DEF Trusted

LEMMA WithoutTrusted ==
    ASSUME NEW t, NEW S, NEW u, NEW r, NEW s, NEW p, NEW x, Trusted(t, u, r, s, p, x)
    PROVE  Trusted(Omit(t, S), u, r, s, p, x)
<1>1. DOMAIN Omit(t, S) = DOMAIN t \ S
      /\ \A l \in DOMAIN t \ S : Omit(t, S)[l] = t[l]
  BY DEF Omit
<1>2. t \in [DOMAIN t -> 0 .. MaxCount] /\ DOMAIN t \subseteq Links
  BY TableDomain DEF Trusted
<1>3. Omit(t, S) \in [DOMAIN t \ S -> 0 .. MaxCount]
  BY <1>2 DEF Omit
<1>4. QED
  BY <1>1, <1>2, <1>3, TableDomain DEF Trusted, Exhausted

LEMMA WithTrusted ==
    ASSUME NEW t, NEW u, NEW r, NEW s, NEW p, NEW x, Trusted(t, u, r, s, p, x),
           u \subseteq Links, NEW l \in u \ r, l \in p \ x,
           NEW n \in 0 .. MaxCount, s[l] <= n
    PROVE  /\ Trusted(With(t, l, n), u, r, s, p, x)
           /\ l \in DOMAIN With(t, l, n) /\ With(t, l, n)[l] = n
<1> DEFINE w == With(t, l, n)
<1>1. /\ DOMAIN w = DOMAIN t \cup {l} /\ w[l] = n
      /\ \A k \in DOMAIN t \ {l} : w[k] = t[k]
  BY DEF With
<1>2. t \in [DOMAIN t -> 0 .. MaxCount] /\ DOMAIN t \subseteq Links
  BY TableDomain DEF Trusted
<1>3. w \in [DOMAIN w -> 0 .. MaxCount]
  BY <1>2, <1>1 DEF With
<1>4. w \in Tables
  BY <1>1, <1>2, <1>3, TableDomain
<1>5. QED
  BY <1>1, <1>4 DEF Trusted, Exhausted

\* What may change around a trusted table.
LEMMA StaysTrusted ==
    ASSUME NEW t, NEW u, NEW r, NEW s, NEW p, NEW x, Trusted(t, u, r, s, p, x),
           NEW u2, NEW r2, NEW s2, NEW p2, NEW x2,
           u \subseteq u2, DOMAIN t \cap r2 \subseteq r,
           \A l \in DOMAIN t : s2[l] = s[l] \/ s2[l] <= t[l],
           \A l \in DOMAIN t : l \in p \ x => l \in p2 \ x2 \/ Exhausted(t, l)
    PROVE  Trusted(t, u2, r2, s2, p2, x2)
  BY DEF Trusted

LEMMA LinksFileFacts ==
    ASSUME NEW t PROVE Valid(TableFile(t)) /\ TableFile(t).table = t
  BY DEF TableFile, Valid

LEMMA BadFiles == ~Valid(Absent) /\ ~Valid(Unreadable)
                  /\ Absent.table = NoTable /\ Unreadable.table = NoTable
  BY DEF Absent, Unreadable, Valid

-----------------------------------------------------------------------------
(* The steps                                                               *)

LEMMA LinksInitEstablishes == ASSUME LinksInit PROVE LinksIInv
<1>1. Durable = NoTable
  BY BadFiles DEF LinksInit, Durable
<1>2. TrustedNow(table) /\ TrustedNow(Durable)
  BY <1>1, EmptyTrusted DEF LinksInit, TrustedNow
<1>3. NeverOverserved
  BY LimitsAssumption DEF LinksInit, NeverOverserved
<1>4. LinksTyped /\ FilesAgree
  BY BadFiles DEF LinksInit, LinksTyped, FilesAgree
<1>5. QED
  BY <1>2, <1>3, <1>4 DEF LinksInit, LinksIInv, RegisterIsFresh, ChangeIsMade

\* Whichever file a load reads, it finds the durable table and changes it not.
LEMMA LoadFindsDurable ==
    ASSUME LinksIInv, phase = "idle", ReadPrimary \/ ReadBackup \/ ReadNothing
    PROVE  /\ phase' = "loaded" /\ table' = Durable /\ Durable' = Durable
           /\ payloads' \subseteq payloads /\ payloads \cap DOMAIN Durable \subseteq payloads'
           /\ {saved', spare'} \subseteq {TableFile(t) : t \in Tables} \cup {Absent, Unreadable}
           /\ Valid(saved') /\ Valid(spare') => saved' = spare'
<1>1. CASE ReadPrimary
  BY <1>1, BadFiles DEF ReadPrimary, Loaded, Cleanup, Durable, Valid, LinksIInv, LinksTyped,
     FilesAgree
<1>2. CASE ReadBackup
  BY <1>2, BadFiles DEF ReadBackup, Loaded, Cleanup, Durable, Valid, LinksIInv, LinksTyped
<1>3. CASE ReadNothing
  BY <1>3, BadFiles DEF ReadNothing, Loaded, Cleanup, Durable, Valid, tableFiles, LinksIInv,
     LinksTyped
<1>4. QED
  BY <1>1, <1>2, <1>3

LEMMA BeginPreserves ==
    ASSUME LinksIInv, NEW o \in Operations, NEW l \in Links, BeginTransaction(o, l)
    PROVE  LinksIInv'
<1>1. /\ phase' = "loaded" /\ table' = Durable /\ Durable' = Durable
      /\ payloads' \subseteq payloads /\ payloads \cap DOMAIN Durable \subseteq payloads'
      /\ {saved', spare'} \subseteq {TableFile(t) : t \in Tables} \cup {Absent, Unreadable}
      /\ Valid(saved') /\ Valid(spare') => saved' = spare'
  BY LoadFindsDurable DEF BeginTransaction
<1>2. /\ used \subseteq used' /\ used' \subseteq Links /\ l \in used'
      /\ request' = [op |-> o, link |-> l]
      /\ o = "register" => l \notin used
      /\ UNCHANGED <<revoked, served, releasing, lost>>
  BY DEF BeginTransaction, answered, environment, LinksIInv, LinksTyped
<1>3. TrustedNow(Durable)' /\ TrustedNow(table)'
  <2> DEFINE D == Durable
  <2>1. Trusted(D, used, revoked, served, payloads \cup lost, releasing)
    BY DEF LinksIInv, TrustedNow
  <2>2. Trusted(D, used', revoked', served', payloads' \cup lost', releasing')
    <3> HIDE DEF D
    <3> QED BY <1>1, <1>2, <2>1, StaysTrusted DEF D
  <2>3. QED
    BY <1>1, <2>2 DEF TrustedNow
<1>4. LinksTyped'
  BY <1>1, <1>2 DEF LinksIInv, LinksTyped
<1>5. FilesAgree' /\ ChangeIsMade'
  BY <1>1, <1>2, BadFiles DEF FilesAgree, ChangeIsMade
<1>6. RegisterIsFresh'
  BY <1>1, <1>2 DEF RegisterIsFresh, link, LinksIInv, LinksTyped, TrustedNow, Trusted
<1>7. NeverOverserved'
  BY <1>2 DEF NeverOverserved, LinksIInv
<1>8. QED
  BY <1>3, <1>4, <1>5, <1>6, <1>7 DEF LinksIInv

\* A transaction that gives up, or has nothing to save, leaves the files alone.
LEMMA EndPreserves ==
    ASSUME LinksIInv, TransactionEnds,
           UNCHANGED <<tableFiles, used, revoked, served, lost>>,
           releasing' \subseteq releasing, payloads' \subseteq Links,
           payloads \cap DOMAIN Durable \subseteq payloads'
    PROVE  LinksIInv'
<1>1. Durable' = Durable
  BY DEF tableFiles, Durable
<1>2. TrustedNow(Durable)'
  <2> DEFINE D == Durable
  <2>1. Trusted(D, used, revoked, served, payloads \cup lost, releasing)
    BY DEF LinksIInv, TrustedNow
  <2>2. Trusted(D, used', revoked', served', payloads' \cup lost', releasing')
    <3> HIDE DEF D
    <3> QED BY <2>1, StaysTrusted DEF D
  <2>3. QED
    BY <1>1, <2>2 DEF TrustedNow
<1>3. TrustedNow(table)'
  BY EmptyTrusted DEF TransactionEnds, TrustedNow
<1>4. LinksTyped' /\ FilesAgree' /\ RegisterIsFresh' /\ ChangeIsMade' /\ NeverOverserved'
  BY DEF TransactionEnds, tableFiles, LinksIInv, LinksTyped, FilesAgree, RegisterIsFresh,
         ChangeIsMade, NeverOverserved
<1>5. QED
  BY <1>2, <1>3, <1>4 DEF LinksIInv

\* An operation that has something to save hands a trusted table to the save.
LEMMA SavePreserves ==
    ASSUME LinksIInv, phase = "loaded", NEW o \in Operations \cup {"refuse"}, NEW t,
           SaveAs(o, t), Keep, payloads \subseteq payloads', payloads' \subseteq Links,
           Trusted(t, used, revoked, served, payloads' \cup lost, releasing),
           o = "register" => request.op = "register",
           o = "revoke" => link \notin DOMAIN t,
           o = "get" => /\ link \in DOMAIN t /\ served[link] < t[link]
                        /\ Limit[link] > 0 => t[link] <= Limit[link]
    PROVE  LinksIInv'
<1>1. Durable' = Durable /\ table' = t /\ link' = link
      /\ phase' = "saving" /\ request' = [op |-> o, link |-> link]
      /\ UNCHANGED <<saved, spare, used, revoked, served, lost, releasing>>
  BY DEF Keep, tableFiles, Durable, SaveAs, link, answered, environment
<1>2. TrustedNow(Durable)'
  <2> DEFINE D == Durable
  <2>1. Trusted(D, used, revoked, served, payloads \cup lost, releasing)
    BY DEF LinksIInv, TrustedNow
  <2>2. Trusted(D, used', revoked', served', payloads' \cup lost', releasing')
    <3> HIDE DEF D
    <3> QED BY <1>1, <2>1, StaysTrusted DEF D
  <2>3. QED
    BY <1>1, <2>2 DEF TrustedNow
<1>3. TrustedNow(table)' /\ ChangeIsMade'
  BY <1>1 DEF TrustedNow, ChangeIsMade
<1>4. LinksTyped'
  BY <1>1 DEF LinksIInv, LinksTyped, link
<1>5. RegisterIsFresh'
  BY <1>1 DEF LinksIInv, RegisterIsFresh
<1>6. FilesAgree' /\ NeverOverserved'
  BY <1>1 DEF LinksIInv, FilesAgree, NeverOverserved
<1>7. QED
  BY <1>2, <1>3, <1>4, <1>5, <1>6 DEF LinksIInv

LEMMA OperationPreserves ==
    ASSUME LinksIInv, RegisterLink \/ RevokeLink \/ List \/ ClaimRefused \/ Claim
    PROVE  LinksIInv'
<1> DEFINE now(t) == Trusted(t, used, revoked, served, payloads \cup lost, releasing)
           t0 == table
<1>0. /\ phase = "loaded" /\ Keep /\ link \in used /\ used \subseteq Links
      /\ payloads \subseteq Links
      /\ served \in [Links -> Nat] /\ request.op \in Operations \cup {"refuse"} /\ now(t0)
  BY DEF RegisterLink, RevokeLink, List, ClaimRefused, Claim, Doing, LinksIInv, LinksTyped,
     link, TrustedNow
<1>k. UNCHANGED <<tableFiles, used, revoked, served, lost, releasing>>
  BY <1>0 DEF Keep, answered, environment
<1>a. \A S : now(Omit(t0, S))
  BY <1>0, WithoutTrusted
<1>b. t0 \in Tables /\ \A l \in DOMAIN t0 : l \in Links /\ t0[l] \in 0 .. MaxCount
  BY <1>0, TableDomain DEF Trusted
<1>e. CASE TransactionEnds /\ UNCHANGED payloads
  BY <1>e, <1>k, <1>0, EndPreserves
<1>1. CASE RegisterLink
  <2> DEFINE t == With(Omit(t0, Prunable(t0)), link, 0)
  <2>1. /\ payloads' = payloads \cup {link} /\ SaveAs("register", t)
        /\ request.op = "register"
    BY <1>1 DEF RegisterLink, Save, Doing
  <2>2. link \notin revoked \cup releasing /\ served[link] = 0
    BY <1>0, <2>1 DEF LinksIInv, RegisterIsFresh
  <2>3. Trusted(Omit(t0, Prunable(t0)), used, revoked, served, payloads' \cup lost, releasing)
    <3> DEFINE w == Omit(t0, Prunable(t0))
    <3>1. now(w)
      BY <1>a
    <3>2. Trusted(w, used, revoked, served, payloads' \cup lost, releasing)
      <4> HIDE DEF w
      <4>1. QED BY <3>1, <2>1, StaysTrusted
    <3>3. QED
      BY <3>2
  <2>4. Trusted(t, used, revoked, served, payloads' \cup lost, releasing)
    BY <2>1, <2>2, <2>3, <1>0, WithTrusted, LimitsAssumption
  <2>5. payloads' \subseteq Links /\ payloads \subseteq payloads'
    BY <1>0, <2>1
  <2> HIDE DEF t
  <2>6. QED
    BY <2>1, <2>4, <2>5, <1>0, SavePreserves DEF Operations
<1>2. CASE RevokeLink
  <2>1. CASE link \in DOMAIN table
    <3> DEFINE t == Omit(t0, {link})
    <3>1. SaveAs("revoke", t) /\ UNCHANGED payloads
      BY <1>2, <2>1 DEF RevokeLink, Save, Doing
    <3>2. link \notin DOMAIN t
      BY DEF Omit
    <3>3. now(t)
      BY <1>a
    <3> HIDE DEF t
    <3>4. QED
      BY <3>1, <3>2, <3>3, <1>0, SavePreserves DEF Operations
  <2>2. QED
    BY <1>2, <2>1, <1>e DEF RevokeLink
<1>3. CASE List
  <2>1. CASE Prunable(table) # {}
    <3> DEFINE t == Omit(t0, Prunable(t0))
    <3>1. SaveAs("list", t) /\ UNCHANGED payloads
      BY <1>3, <2>1 DEF List
    <3>2. now(t)
      BY <1>a
    <3> HIDE DEF t
    <3>3. QED
      BY <3>1, <3>2, <1>0, SavePreserves DEF Operations
  <2>2. QED
    BY <1>3, <2>1, <1>e DEF List
<1>4. CASE ClaimRefused
  <2> DEFINE t == Omit(t0, {link})
  <2>1. SaveAs("refuse", t) /\ UNCHANGED payloads
    BY <1>4 DEF ClaimRefused
  <2>2. now(t)
    BY <1>a
  <2> HIDE DEF t
  <2>3. QED
    BY <2>1, <2>2, <1>0, SavePreserves DEF Operations
<1>5. CASE Claim
  <2> DEFINE w == Omit(t0, Prunable(t0))
             t == With(w, link, t0[link] + 1)
  <2>1. link \in DOMAIN t0 /\ ~Exhausted(t0, link) /\ UNCHANGED payloads
    BY <1>5 DEF Claim, Unavailable
  <2>2. now(w)
    BY <1>a
  <2>3. CASE request.op = "get" /\ t0[link] < MaxCount /\ SaveAs("get", t)
    <3>1. link \notin revoked /\ served[link] <= t0[link]
          /\ link \in (payloads \cup lost) \ releasing
      BY <1>0, <2>1 DEF Trusted
    <3>2. t0[link] + 1 \in 0 .. MaxCount /\ served[link] < t0[link] + 1
      BY <1>0, <1>b, <2>1, <2>3, <3>1, LimitsAssumption
    <3>3. now(t) /\ link \in DOMAIN t /\ t[link] = t0[link] + 1
      <4> DEFINE n == t0[link] + 1
      <4>1. n \in 0 .. MaxCount /\ served[link] <= n
        BY <3>2, <1>0, <1>b, <2>1, LimitsAssumption
      <4> HIDE DEF n, w
      <4>2. now(With(w, link, n)) /\ link \in DOMAIN With(w, link, n)
            /\ With(w, link, n)[link] = n
        BY <4>1, <2>2, <1>0, <3>1, WithTrusted
      <4>3. QED
        BY <4>2 DEF n
    <3>4. Limit[link] > 0 => t0[link] + 1 <= Limit[link]
      BY <2>1, <1>0, <1>b, LimitsAssumption DEF Exhausted
    <3> HIDE DEF t
    <3>5. QED
      BY <2>1, <2>3, <3>2, <3>3, <3>4, <1>0, SavePreserves DEF Operations
  <2>4. CASE request.op = "head" /\ SaveAs("head", w)
    <3> HIDE DEF w
    <3>1. QED
      BY <2>1, <2>2, <2>4, <1>0, SavePreserves DEF Operations
  <2>5. QED
    BY <1>5, <2>1, <2>3, <2>4, <1>e DEF Claim, Save
<1>6. QED
  BY <1>1, <1>2, <1>3, <1>4, <1>5

\* Once the spare file is gone, the primary is all there is.
LEMMA DropPreserves ==
    ASSUME LinksIInv, DropBackup PROVE LinksIInv'
<1>1. /\ saved' = saved /\ spare' = Absent /\ phase = "saving" /\ phase' = "dropped"
      /\ UNCHANGED <<payloads, request, table, used, revoked, served, releasing, lost>>
  BY DEF DropBackup, answered, environment
<1>2. Durable' = Durable \/ Durable' = NoTable
  BY <1>1, BadFiles DEF Durable, Valid
<1>3. TrustedNow(table)' /\ TrustedNow(Durable)'
  BY <1>1, <1>2, EmptyTrusted DEF LinksIInv, TrustedNow
<1>4. DOMAIN Durable' \subseteq DOMAIN Durable
  BY <1>2 DEF NoTable
<1>5. RegisterIsFresh'
  BY <1>1, <1>4 DEF LinksIInv, RegisterIsFresh, link
<1>6. LinksTyped' /\ FilesAgree' /\ ChangeIsMade' /\ NeverOverserved'
  BY <1>1, BadFiles DEF LinksIInv, LinksTyped, FilesAgree, ChangeIsMade, NeverOverserved, link
<1>7. QED
  BY <1>3, <1>5, <1>6 DEF LinksIInv

LEMMA WritePreserves ==
    ASSUME LinksIInv, WritePrimary PROVE LinksIInv'
<1>1. /\ saved' = TableFile(table) /\ phase = "dropped" /\ phase' = "written"
      /\ UNCHANGED <<spare, payloads, request, table, used, revoked, served, releasing, lost>>
  BY DEF WritePrimary, answered, environment
<1>2. Durable' = table /\ table \in Tables /\ spare = Absent
  BY <1>1, LinksFileFacts DEF Durable, LinksIInv, TrustedNow, Trusted, FilesAgree
<1>3. TrustedNow(table)' /\ TrustedNow(Durable)'
  BY <1>1, <1>2 DEF LinksIInv, TrustedNow
<1>4. RegisterIsFresh' /\ ChangeIsMade' /\ NeverOverserved' /\ LinksTyped' /\ FilesAgree'
  BY <1>1, <1>2, BadFiles
  DEF LinksIInv, RegisterIsFresh, ChangeIsMade, NeverOverserved, LinksTyped, FilesAgree, link
<1>5. QED
  BY <1>3, <1>4 DEF LinksIInv

\* The caller is answered: what ends now is in neither file.
LEMMA AnswerPreserves ==
    ASSUME LinksIInv, Answer PROVE LinksIInv'
<1>1. /\ phase = "written" /\ phase' = "idle" /\ table' = NoTable /\ saved' = saved
      /\ spare' \in {spare, TableFile(table)} /\ spare = Absent
      /\ Valid(saved) => saved = TableFile(table)
      /\ used' = used /\ lost' = lost /\ link \in used /\ used \subseteq Links
      /\ payloads' \subseteq payloads /\ payloads \cap DOMAIN table \subseteq payloads'
  BY DEF Answer, TransactionEnds, Cleanup, environment, LinksIInv, FilesAgree, LinksTyped, link
<1>2. /\ revoked' = IF request.op = "revoke" THEN revoked \cup {link} ELSE revoked
      /\ served' = IF request.op = "get" THEN [served EXCEPT ![link] = @ + 1] ELSE served
      /\ releasing' = IF request.op = "get" /\ Exhausted(table, link)
                      THEN releasing \cup {link} ELSE releasing
  BY DEF Answer
<1>3. Durable' = table \/ Durable' = NoTable
  BY <1>1, LinksFileFacts, BadFiles DEF Durable
<1>4. Trusted(table, used, revoked, served, payloads \cup lost, releasing)
      /\ served \in [Links -> Nat]
  BY DEF LinksIInv, TrustedNow, LinksTyped
<1>5. /\ request.op = "revoke" => link \notin DOMAIN table
      /\ request.op = "get" => /\ link \in DOMAIN table /\ served[link] < table[link]
                               /\ Limit[link] > 0 => table[link] <= Limit[link]
                               /\ table[link] \in Nat
  <2>1. \A l \in DOMAIN table : table[l] \in 0 .. MaxCount
    BY <1>4, TableDomain DEF Trusted
  <2>2. QED
    BY <1>1, <2>1, LimitsAssumption DEF LinksIInv, ChangeIsMade
<1>6. \A l \in DOMAIN table : served'[l] = served[l] \/ served'[l] <= table[l]
  BY <1>1, <1>2, <1>4, <1>5 DEF Trusted
<1>7. Trusted(table, used', revoked', served', payloads' \cup lost', releasing')
  <2> DEFINE t == table
  <2>1. DOMAIN t \cap revoked' \subseteq revoked
    BY <1>2, <1>5
  <2>2. \A l \in DOMAIN t : l \in (payloads \cup lost) \ releasing =>
            l \in (payloads' \cup lost') \ releasing' \/ Exhausted(t, l)
    BY <1>1, <1>2
  <2> HIDE DEF t
  <2>3. QED
    BY <1>1, <1>4, <1>6, <2>1, <2>2, StaysTrusted DEF t
<1>8. TrustedNow(Durable)' /\ TrustedNow(table)'
  BY <1>1, <1>3, <1>7, EmptyTrusted DEF TrustedNow
<1>9. NeverOverserved'
  BY <1>1, <1>2, <1>4, <1>5, LimitsAssumption DEF NeverOverserved, LinksIInv
<1>10. LinksTyped' /\ FilesAgree' /\ RegisterIsFresh' /\ ChangeIsMade'
  <2>1. table \in Tables
    BY <1>4 DEF Trusted
  <2>2. LinksTyped'
    BY <1>1, <1>2, <2>1 DEF LinksIInv, LinksTyped
  <2>3. FilesAgree'
    BY <1>1, BadFiles DEF FilesAgree
  <2>4. QED
    BY <1>1, <2>2, <2>3 DEF RegisterIsFresh, ChangeIsMade
<1>11. QED
  BY <1>8, <1>9, <1>10 DEF LinksIInv

LEMMA FailurePreserves ==
    ASSUME LinksIInv, SaveFails \/ Crash PROVE LinksIInv'
<1>1. CASE SaveFails
  <2>1. /\ TransactionEnds /\ UNCHANGED <<tableFiles, used, revoked, served, lost, releasing>>
        /\ payloads' \subseteq payloads
        /\ payloads' # payloads => request.op = "register" /\ payloads' = payloads \ {link}
    BY <1>1 DEF SaveFails, Keep, answered, environment
  <2>2. payloads \cap DOMAIN Durable \subseteq payloads'
    BY <1>1, <2>1 DEF SaveFails, LinksIInv, RegisterIsFresh
  <2>3. QED
    BY <2>1, <2>2, EndPreserves DEF LinksIInv, LinksTyped
<1>2. CASE Crash
  BY <1>2, EndPreserves DEF Crash, answered, environment, LinksIInv, LinksTyped
<1>3. QED
  BY <1>1, <1>2

LEMMA ReleasePreserves ==
    ASSUME LinksIInv, NEW l \in Links, Release(l) PROVE LinksIInv'
<1>1. /\ releasing' = releasing \ {l} /\ payloads' = payloads \ {l} /\ l \in releasing
      /\ UNCHANGED <<saved, spare, phase, request, table, used, revoked, served, lost>>
  BY DEF Release, tableFiles, answered, environment
<1>2. Durable' = Durable
  BY <1>1 DEF Durable
<1>3. ASSUME NEW t, Trusted(t, used, revoked, served, payloads \cup lost, releasing)
      PROVE  Trusted(t, used', revoked', served', payloads' \cup lost', releasing')
  BY <1>1, <1>3, StaysTrusted
<1>4. TrustedNow(table)' /\ TrustedNow(Durable)'
  BY <1>1, <1>2, <1>3 DEF LinksIInv, TrustedNow
<1>5. LinksTyped' /\ FilesAgree' /\ RegisterIsFresh' /\ ChangeIsMade' /\ NeverOverserved'
  BY <1>1, <1>2
  DEF LinksIInv, LinksTyped, FilesAgree, RegisterIsFresh, ChangeIsMade, NeverOverserved, link
<1>6. QED
  BY <1>4, <1>5 DEF LinksIInv

\* A damaged primary leaves its copy or nothing to be read, never an older table.
LEMMA DamagePreserves ==
    ASSUME LinksIInv, DamageFile PROVE LinksIInv'
<1>1. /\ {saved', spare'} \subseteq {saved, spare, Absent, Unreadable}
      /\ saved' \in {saved, Absent, Unreadable} /\ spare' \in {spare, Absent, Unreadable}
      /\ spare = Absent => spare' = Absent
      /\ payloads' \subseteq payloads /\ payloads \cup lost = payloads' \cup lost'
      /\ UNCHANGED <<phase, request, table, used, revoked, served, releasing>>
  BY BadFiles DEF DamageFile, answered, tableFiles, Valid
<1>2. Durable' = Durable \/ Durable' = NoTable
  <2>1. saved' = saved \/ (~Valid(saved') /\ saved'.table = NoTable)
    BY <1>1, BadFiles
  <2>2. spare' = spare \/ (~Valid(spare') /\ spare'.table = NoTable)
    BY <1>1, BadFiles
  <2>3. ~Valid(saved) => ~Valid(saved')
    BY <1>1, BadFiles
  <2>4. ~Valid(spare) => spare.table = NoTable
    <3>1. spare \in {Absent, Unreadable} \/ \E t \in Tables : spare = TableFile(t)
      BY DEF LinksIInv, LinksTyped
    <3>2. QED
      BY <3>1, BadFiles, LinksFileFacts
  <2>5. Valid(saved) /\ Valid(spare) => saved = spare
    BY DEF LinksIInv, FilesAgree
  <2>6. QED
    BY <2>1, <2>2, <2>3, <2>4, <2>5 DEF Durable
<1>3. TrustedNow(table)' /\ TrustedNow(Durable)'
  BY <1>1, <1>2, EmptyTrusted DEF LinksIInv, TrustedNow
<1>4. DOMAIN Durable' \subseteq DOMAIN Durable
  BY <1>2 DEF NoTable
<1>5. LinksTyped' /\ FilesAgree'
  BY <1>1, BadFiles DEF LinksIInv, LinksTyped, FilesAgree
<1>6. RegisterIsFresh' /\ ChangeIsMade' /\ NeverOverserved'
  BY <1>1, <1>4 DEF LinksIInv, RegisterIsFresh, ChangeIsMade, NeverOverserved, link
<1>7. QED
  BY <1>3, <1>5, <1>6 DEF LinksIInv

LEMMA LinksNextPreserves ==
    ASSUME LinksIInv, [LinksNext]_lvars PROVE LinksIInv'
<1>1. CASE \E o \in Operations, l \in Links : BeginTransaction(o, l)
  BY <1>1, BeginPreserves
<1>2. CASE RegisterLink \/ RevokeLink \/ List \/ ClaimRefused \/ Claim
  BY <1>2, OperationPreserves
<1>3. CASE DropBackup \/ WritePrimary \/ Answer
  BY <1>3, DropPreserves, WritePreserves, AnswerPreserves
<1>4. CASE SaveFails \/ Crash
  BY <1>4, FailurePreserves
<1>5. CASE \E l \in Links : Release(l)
  BY <1>5, ReleasePreserves
<1>6. CASE DamageFile
  BY <1>6, DamagePreserves
<1>7. CASE (\E l \in Links : ExpireLink(l)) \/ UNCHANGED lvars
  <2>1. UNCHANGED <<saved, spare, payloads, phase, request, table, used, revoked, served,
                    releasing, lost>>
    BY <1>7 DEF ExpireLink, lvars, tableFiles, answered
  <2>2. Durable' = Durable
    BY <2>1 DEF Durable
  <2>3. TrustedNow(table)' /\ TrustedNow(Durable)'
    BY <2>1, <2>2 DEF LinksIInv, TrustedNow
  <2>4. LinksTyped' /\ FilesAgree' /\ RegisterIsFresh' /\ ChangeIsMade' /\ NeverOverserved'
    BY <2>1, <2>2
    DEF LinksIInv, LinksTyped, FilesAgree, RegisterIsFresh, ChangeIsMade, NeverOverserved, link
  <2>5. QED
    BY <2>3, <2>4 DEF LinksIInv
<1>8. QED
  BY <1>1, <1>2, <1>3, <1>4, <1>5, <1>6, <1>7 DEF LinksNext

LEMMA IInvIsSafe == ASSUME LinksIInv PROVE LinksSafe
<1>1. LinksTypeOK /\ NeverOverserved
  BY DEF LinksIInv, LinksTyped, TrustedNow, Trusted, LinksTypeOK
<1>2. EndedIsForgotten
  BY DEF LinksIInv, FilesAgree, TrustedNow, Trusted, EndedIsForgotten
<1>3. UsableHasPayload
  BY DEF LinksIInv, TrustedNow, Trusted, UsableHasPayload
<1>4. QED
  BY <1>1, <1>2, <1>3 DEF LinksSafe

(* Through failing saves, crashes and damaged files an ended link is never found
   again, none hands out more bodies than it allows, and one that may be used has
   its payload.  (file_downloads.py, save_locked and claim_download)             *)
THEOREM LinksAreSafe == LinksSpec => []LinksSafe
<1>1. LinksInit => LinksIInv
  BY LinksInitEstablishes
<1>2. LinksIInv /\ [LinksNext]_lvars => LinksIInv'
  BY LinksNextPreserves
<1>3. LinksIInv => LinksSafe
  BY IInvIsSafe
<1>4. QED
  BY <1>1, <1>2, <1>3, PTL DEF LinksSpec

-----------------------------------------------------------------------------
(* OAuth clients and codes                                                 *)

OAuthTypeOK ==
    /\ client \in [Clients -> [status : {"none", "pending", "approved"}, old : BOOLEAN]]
    /\ stored \subseteq Clients /\ forms \subseteq Clients /\ allowed \subseteq Clients
    /\ code \in [Codes -> Clients \cup {NoClient}] /\ staleCodes \subseteq Codes
    /\ granted \in [Codes -> Nat] /\ accepting \in {"open", "stopping", "closed"}

\* While the service is not closed, memory knows every client of the file: a
\* write of the file from memory drops none.
MemoryCoversFile ==
    accepting # "closed" => \A c \in stored : client[c].status = "approved"

OAuthIInv == OAuthTypeOK /\ OAuthInv /\ MemoryCoversFile

-----------------------------------------------------------------------------

LEMMA PruningFacts ==
    ASSUME OAuthTypeOK
    PROVE  /\ PrunedClients \in
                [Clients -> [status : {"none", "pending", "approved"}, old : BOOLEAN]]
           /\ \A c \in Clients : PrunedClients[c].status = "approved"
                                   <=> client[c].status = "approved"
           /\ PrunedCodes \in [Codes -> Clients \cup {NoClient}]
           /\ \A k \in Codes : PrunedCodes[k] \in {code[k], NoClient}
<1>1. \A c \in Clients :
        /\ PrunedClients[c] \in [status : {"none", "pending", "approved"}, old : BOOLEAN]
        /\ PrunedClients[c].status = "approved" <=> client[c].status = "approved"
  BY DEF OAuthTypeOK, PrunedClients, Unregistered
<1>2. QED
  BY <1>1 DEF OAuthTypeOK, PrunedClients, PrunedCodes

\* Codes that are pending in a part of what was pending are as few.
LEMMA FewerPending ==
    ASSUME NEW f, NEW g,
           \A k \in Codes : g[k] # NoClient => f[k] # NoClient,
           Cardinality({k \in Codes : f[k] # NoClient}) <= MaxCodes
    PROVE  Cardinality({k \in Codes : g[k] # NoClient}) <= MaxCodes
<1> DEFINE F == {k \in Codes : f[k] # NoClient}
           G == {k \in Codes : g[k] # NoClient}
<1>1. IsFiniteSet(F)
  BY FiniteCodes, FS_Subset
<1>2. G \subseteq F
  OBVIOUS
<1>3. IsFiniteSet(G) /\ Cardinality(G) <= Cardinality(F)
  BY <1>1, <1>2, FS_Subset
<1>4. Cardinality(F) \in Nat /\ Cardinality(G) \in Nat
  BY <1>1, <1>3, FS_CardinalityType
<1>5. QED
  BY <1>3, <1>4, MaxCodesAssumption

LEMMA OneMorePending ==
    ASSUME NEW f, NEW g, NEW n \in Codes,
           f[n] = NoClient, g[n] # NoClient,
           \A k \in Codes \ {n} : g[k] = f[k],
           Cardinality({k \in Codes : f[k] # NoClient}) < MaxCodes
    PROVE  Cardinality({k \in Codes : g[k] # NoClient}) <= MaxCodes
<1> DEFINE F == {k \in Codes : f[k] # NoClient}
           G == {k \in Codes : g[k] # NoClient}
<1>1. IsFiniteSet(F)
  BY FiniteCodes, FS_Subset
<1>2. G = F \cup {n} /\ n \notin F
  OBVIOUS
<1>3. Cardinality(G) = Cardinality(F) + 1
  BY <1>1, <1>2, FS_AddElement
<1>4. Cardinality(F) \in Nat
  BY <1>1, FS_CardinalityType
<1>5. QED
  BY <1>3, <1>4, MaxCodesAssumption

LEMMA OAuthInitEstablishes ==
    ASSUME OAuthInit PROVE OAuthIInv
<1>1. OAuthTypeOK /\ MemoryCoversFile /\ ApprovalIsDurable
  BY DEF OAuthInit, OAuthTypeOK, MemoryCoversFile, ApprovalIsDurable, Unregistered,
         RegisteredClients, Pending
<1>2. Pending = {} /\ \A k \in Codes : granted[k] = 0
  BY DEF OAuthInit, Pending
<1>3. CodesAreSpentOnce
  BY <1>2, FS_EmptySet, MaxCodesAssumption DEF CodesAreSpentOnce
<1>4. QED
  BY <1>1, <1>3 DEF OAuthIInv, OAuthInv

LEMMA OAuthNextPreserves ==
    ASSUME OAuthIInv, [OAuthNext]_oauthvars
    PROVE  OAuthIInv'
<1> USE DEF OAuthIInv, OAuthInv
<1>t. OAuthTypeOK /\ ApprovalIsDurable /\ CodesAreSpentOnce /\ MemoryCoversFile
  OBVIOUS
<1>p. /\ PrunedClients \in
             [Clients -> [status : {"none", "pending", "approved"}, old : BOOLEAN]]
      /\ \A c \in Clients : PrunedClients[c].status = "approved"
                              <=> client[c].status = "approved"
      /\ PrunedCodes \in [Codes -> Clients \cup {NoClient}]
      /\ \A k \in Codes : PrunedCodes[k] \in {code[k], NoClient}
  BY <1>t, PruningFacts
<1>n. Cardinality({k \in Codes : code[k] # NoClient}) <= MaxCodes
  BY DEF CodesAreSpentOnce, Pending
<1>m. Cardinality({k \in Codes : PrunedCodes[k] # NoClient}) <= MaxCodes
  <2>1. \A k \in Codes : PrunedCodes[k] # NoClient => code[k] # NoClient
    BY <1>p
  <2>2. QED
    BY <2>1, <1>n, FewerPending
<1>1. CASE UNCHANGED oauthvars
  BY <1>1 DEF oauthvars, OAuthTypeOK, ApprovalIsDurable, CodesAreSpentOnce,
              MemoryCoversFile, Pending, RegisteredClients
<1>2. CASE Age
  <2>1. /\ UNCHANGED <<stored, forms, code, accepting, granted, allowed>>
        /\ OAuthTypeOK'
        /\ \A d \in Clients : client'[d].status = "approved"
                                 <=> client[d].status = "approved"
    <3>1. UNCHANGED <<stored, forms, code, accepting, granted, allowed>>
      BY <1>2 DEF Age
    <3>2. CASE \E c \in RegisteredClients : /\ client' = [client EXCEPT ![c].old = TRUE]
                                            /\ UNCHANGED staleCodes
      <4>1. PICK c \in Clients : client' = [client EXCEPT ![c].old = TRUE]
        BY <3>2 DEF RegisteredClients
      <4>2. /\ client' \in [Clients -> [status : {"none", "pending", "approved"},
                                        old : BOOLEAN]]
            /\ \A d \in Clients : client'[d].status = client[d].status
        BY <1>t, <4>1 DEF OAuthTypeOK
      <4>3. staleCodes' = staleCodes
        BY <3>2
      <4>. QED  BY <1>t, <3>1, <4>2, <4>3 DEF OAuthTypeOK
    <3>3. CASE \E k \in Pending : staleCodes' = staleCodes \cup {k} /\ UNCHANGED client
      BY <1>t, <3>1, <3>3 DEF OAuthTypeOK, Pending
    <3>. QED  BY <1>2, <3>2, <3>3 DEF Age
  <2>2. ApprovalIsDurable' /\ MemoryCoversFile' /\ CodesAreSpentOnce'
    BY <1>t, <2>1 DEF ApprovalIsDurable, MemoryCoversFile, CodesAreSpentOnce, Pending,
                      RegisteredClients, OAuthTypeOK
  <2>3. QED
    BY <2>1, <2>2
<1>3. CASE StopAdmission
  BY <1>3, <1>t DEF StopAdmission, OAuthTypeOK, ApprovalIsDurable, CodesAreSpentOnce,
              MemoryCoversFile, Pending, RegisteredClients, Open
<1>4. ASSUME Close \/ Restart PROVE OAuthIInv'
  <2>1. /\ UNCHANGED <<stored, granted, allowed>>
        /\ code' = [k \in Codes |-> NoClient]
        /\ OAuthTypeOK'
        /\ \A c \in Clients : client'[c].status = "approved" => c \in stored'
    <3>1. CASE Close
      BY <3>1, <1>t DEF Close, OAuthTypeOK, Unregistered
    <3>2. CASE Restart
      <4>1. client' \in [Clients -> [status : {"none", "pending", "approved"},
                                     old : BOOLEAN]]
        BY <3>2 DEF Restart, Unregistered
      <4>2. /\ UNCHANGED <<stored, granted, allowed>>
            /\ code' = [k \in Codes |-> NoClient] /\ forms' = {} /\ staleCodes' = {}
            /\ accepting' = "open"
        BY <3>2 DEF Restart
      <4>3. \A c \in Clients : client'[c].status = "approved" => c \in stored'
        BY <3>2 DEF Restart, Unregistered
      <4>4. QED
        BY <4>1, <4>2, <4>3, <1>t DEF OAuthTypeOK
    <3>3. QED
      BY <1>4, <3>1, <3>2
  <2>6. MemoryCoversFile'
    <3>1. CASE Close
      BY <3>1 DEF Close, MemoryCoversFile
    <3>2. CASE Restart
      <4>1. \A c \in stored : c \in Clients /\ client'[c].status = "approved"
        BY <3>2, <1>t DEF Restart, OAuthTypeOK
      <4>2. QED
        BY <4>1, <2>1 DEF MemoryCoversFile
    <3>3. QED
      BY <1>4, <3>1, <3>2
  <2>2. Pending' = {}
    BY <2>1 DEF Pending
  <2>3. ApprovalIsDurable'
    BY <1>t, <2>1, <2>2 DEF ApprovalIsDurable, RegisteredClients
  <2>4. CodesAreSpentOnce'
    BY <1>t, <2>1, <2>2, FS_EmptySet, MaxCodesAssumption DEF CodesAreSpentOnce
  <2>5. QED
    BY <2>1, <2>3, <2>4, <2>6
<1>5. ASSUME NEW c \in Clients, RegisterClient(c) PROVE OAuthIInv'
  <2>1. /\ UNCHANGED <<stored, code, accepting, granted, allowed>>
        /\ OAuthTypeOK'
        /\ \A d \in Clients : client'[d].status = "approved"
                                 <=> client[d].status = "approved"
    <3>1. CASE PrunedClients[c].status = "none"
      <4>1. client' = [PrunedClients EXCEPT ![c] = [status |-> "pending", old |-> FALSE]]
        BY <1>5, <3>1 DEF RegisterClient
      <4>2. /\ client' \in [Clients -> [status : {"none", "pending", "approved"},
                                         old : BOOLEAN]]
            /\ client'[c].status = "pending" /\ client[c].status # "approved"
            /\ \A d \in Clients \ {c} : client'[d] = PrunedClients[d]
        BY <4>1, <1>p, <3>1
      <4>3. UNCHANGED <<stored, code, accepting, granted, allowed, forms, staleCodes>>
        BY <1>5 DEF RegisterClient
      <4>4. \A d \in Clients : client'[d].status = "approved"
                                 <=> client[d].status = "approved"
        BY <4>2, <1>p
      <4>5. OAuthTypeOK'
        BY <4>2, <4>3, <1>t DEF OAuthTypeOK
      <4>6. QED
        BY <4>3, <4>4, <4>5
    <3>2. CASE PrunedClients[c].status # "none"
      BY <1>5, <1>t, <1>p, <3>2 DEF RegisterClient, OAuthTypeOK
    <3>3. QED
      BY <3>1, <3>2
  <2>2. ApprovalIsDurable' /\ MemoryCoversFile' /\ CodesAreSpentOnce'
    BY <1>t, <2>1 DEF ApprovalIsDurable, MemoryCoversFile, CodesAreSpentOnce, Pending,
                      RegisteredClients, OAuthTypeOK
  <2>3. QED
    BY <2>1, <2>2
<1>6. ASSUME NEW c \in Clients, Validate(c) PROVE OAuthIInv'
  <2>1. /\ UNCHANGED <<stored, code, accepting, granted, allowed>>
        /\ OAuthTypeOK'
        /\ \A d \in Clients : client'[d].status = "approved"
                                 <=> client[d].status = "approved"
    BY <1>6, <1>t, <1>p DEF Validate, OAuthTypeOK
  <2>2. ApprovalIsDurable' /\ MemoryCoversFile' /\ CodesAreSpentOnce'
    BY <1>t, <2>1 DEF ApprovalIsDurable, MemoryCoversFile, CodesAreSpentOnce, Pending,
                      RegisteredClients, OAuthTypeOK
  <2>3. QED
    BY <2>1, <2>2
<1>7. ASSUME NEW c \in Clients, Issue(c) PROVE OAuthIInv'
  <2>1. CASE UNCHANGED <<client, stored, allowed, staleCodes>> /\ code' = PrunedCodes
    <3>1. UNCHANGED <<accepting, granted>> /\ OAuthTypeOK'
      BY <1>7, <2>1, <1>t, <1>p DEF Issue, OAuthTypeOK
    <3>2. ApprovalIsDurable' /\ MemoryCoversFile'
      BY <1>t, <1>p, <2>1, <3>1
         DEF ApprovalIsDurable, MemoryCoversFile, Pending, RegisteredClients
    <3>3. CodesAreSpentOnce'
      BY <1>t, <1>p, <1>m, <2>1, <3>1 DEF CodesAreSpentOnce, Pending
    <3>4. QED
      BY <2>1, <3>1, <3>2, <3>3
  <2>2. ASSUME NEW n \in Codes,
               Cardinality({k \in Codes : PrunedCodes[k] # NoClient}) < MaxCodes,
               c \in RegisteredClients, allowed' = allowed \cup {c},
               \/ /\ client[c].status = "pending"
                  /\ stored' = {d \in RegisteredClients : client[d].status = "approved"}
                                  \cup {c}
               \/ client[c].status = "approved" /\ UNCHANGED stored,
               client' = [client EXCEPT ![c].status = "approved"],
               PrunedCodes[n] = NoClient, granted[n] = 0,
               code' = [PrunedCodes EXCEPT ![n] = c], staleCodes' = staleCodes \ {n}
        PROVE  OAuthIInv'
    <3>1. /\ accepting' = accepting /\ granted' = granted /\ accepting # "closed"
          /\ forms' \subseteq Clients
      BY <1>7, <1>t DEF Issue, Open, OAuthTypeOK
    <3>2. \A d \in Clients : client'[d].status
             = IF d = c THEN "approved" ELSE client[d].status
      BY <2>2, <1>t DEF OAuthTypeOK
    <3>3. \A d \in stored : d \in Clients /\ client[d].status = "approved"
      BY <3>1, <1>t DEF MemoryCoversFile, OAuthTypeOK
    <3>4. {d \in RegisteredClients : client[d].status = "approved"} = stored
      BY <3>3, <1>t DEF RegisteredClients, ApprovalIsDurable
    <3>5. stored' = stored \cup {c}
      <4>1. CASE client[c].status = "pending"
        BY <2>2, <3>4, <4>1
      <4>2. CASE client[c].status = "approved" /\ stored' = stored
        BY <3>4, <4>2, <2>2
      <4>3. QED
        BY <2>2, <4>1, <4>2
    <3>6. OAuthTypeOK'
      <4>1. client' \in [Clients -> [status : {"none", "pending", "approved"},
                                     old : BOOLEAN]]
        BY <2>2, <1>t DEF OAuthTypeOK
      <4>2. code' \in [Codes -> Clients \cup {NoClient}]
        BY <2>2, <1>p
      <4>3. QED
        BY <2>2, <3>1, <3>5, <4>1, <4>2, <1>t DEF OAuthTypeOK
    <3>7. MemoryCoversFile'
      BY <3>2, <3>3, <3>5 DEF MemoryCoversFile
    <3>8. \A k \in Codes : code'[k] = IF k = n THEN c ELSE PrunedCodes[k]
      BY <2>2, <1>p
    <3>9. ApprovalIsDurable'
      <4>1. \A k \in Codes : code'[k] # NoClient => code'[k] \in stored'
        BY <3>5, <3>8, <1>p, <1>t DEF ApprovalIsDurable, Pending
      <4>2. stored' = allowed'
        BY <2>2, <3>5, <1>t DEF ApprovalIsDurable
      <4>3. \A d \in Clients : client'[d].status = "approved" => d \in stored'
        BY <3>2, <3>4, <3>5 DEF RegisteredClients
      <4>4. QED
        BY <4>1, <4>2, <4>3 DEF ApprovalIsDurable, Pending, RegisteredClients
    <3>10. CodesAreSpentOnce'
      <4>1. c # NoClient
        BY NoClientAssumption
      <4>2. Cardinality({k \in Codes : code'[k] # NoClient}) <= MaxCodes
        <5>1. /\ PrunedCodes[n] = NoClient /\ code'[n] # NoClient
              /\ \A k \in Codes \ {n} : code'[k] = PrunedCodes[k]
              /\ Cardinality({k \in Codes : PrunedCodes[k] # NoClient}) < MaxCodes
          BY <2>2, <3>8, <4>1
        <5>2. QED
          BY <5>1, OneMorePending
      <4>3. \A k \in Codes : granted'[k] <= 1 /\ (granted'[k] = 1 => code'[k] = NoClient)
        BY <2>2, <3>1, <3>8, <1>p, <1>t DEF CodesAreSpentOnce
      <4>4. QED
        BY <4>2, <4>3 DEF CodesAreSpentOnce, Pending
    <3>11. QED
      BY <3>5, <3>6, <3>7, <3>9, <3>10
  <2>3. QED
    BY <1>7, <2>1, <2>2 DEF Issue
<1>8. ASSUME NEW k \in Codes, NEW c \in Clients, NEW shown \in BOOLEAN,
             Exchange(k, c, shown)
      PROVE  OAuthIInv'
  <2>1. /\ UNCHANGED <<client, stored, forms, staleCodes, accepting, allowed>>
        /\ code' \in [Codes -> Clients \cup {NoClient}]
        /\ \A j \in Codes : code'[j] \in {PrunedCodes[j], NoClient}
    BY <1>8, <1>p DEF Exchange
  <2>2. \/ granted' = granted
        \/ /\ code[k] # NoClient /\ code'[k] = NoClient
           /\ granted' = [granted EXCEPT ![k] = @ + 1]
    BY <1>8, <1>p DEF Exchange
  <2>3. OAuthTypeOK'
    <3>1. granted' \in [Codes -> Nat]
      <4>1. granted \in [Codes -> Nat] /\ granted[k] + 1 \in Nat
        BY <1>t DEF OAuthTypeOK
      <4>2. QED
        BY <2>2, <4>1
    <3>2. QED
      BY <2>1, <3>1, <1>t DEF OAuthTypeOK
  <2>4. ApprovalIsDurable' /\ MemoryCoversFile'
    BY <2>1, <1>p, <1>t DEF ApprovalIsDurable, MemoryCoversFile, Pending, RegisteredClients
  <2>5. CodesAreSpentOnce'
    <3>1. \A j \in Codes : granted'[j] <= 1 /\ (granted'[j] = 1 => code'[j] = NoClient)
      <4>1. \A j \in Codes : /\ granted[j] \in Nat /\ granted[j] <= 1
                             /\ granted[j] = 1 => code[j] = NoClient
        BY <1>t DEF CodesAreSpentOnce, OAuthTypeOK
      <4>2. \A j \in Codes : code[j] = NoClient => code'[j] = NoClient
        BY <2>1, <1>p
      <4>3. CASE granted' = granted
        BY <4>1, <4>2, <4>3
      <4>4. CASE code[k] # NoClient /\ code'[k] = NoClient
                 /\ granted' = [granted EXCEPT ![k] = @ + 1]
        <5>1. granted[k] = 0
          BY <4>1, <4>4
        <5>2. \A j \in Codes : granted'[j] = IF j = k THEN 1 ELSE granted[j]
          BY <4>4, <5>1, <1>t DEF OAuthTypeOK
        <5>3. QED
          BY <4>1, <4>2, <4>4, <5>2
      <4>5. QED
        BY <2>2, <4>3, <4>4
    <3>2. \A j \in Codes : code'[j] # NoClient => PrunedCodes[j] # NoClient
      BY <2>1
    <3>3. Cardinality({j \in Codes : code'[j] # NoClient}) <= MaxCodes
      BY <3>2, <1>m, FewerPending
    <3>4. QED
      BY <3>1, <3>3 DEF CodesAreSpentOnce, Pending
  <2>6. QED
    BY <2>1, <2>3, <2>4, <2>5
<1>9. QED
  BY <1>1, <1>2, <1>3, <1>4, <1>5, <1>6, <1>7, <1>8 DEF OAuthNext

-----------------------------------------------------------------------------

\* oauth/service.py, oauth/persistence.py: however requests, expiries and
\* restarts interleave, a code buys one token, pending codes respect their limit,
\* and a client with a code is in the registry file, which holds exactly the
\* clients the user approved.
THEOREM OAuthCorrect ==
    OAuthSpec => []OAuthInv
<1>1. OAuthInit => OAuthIInv
  BY OAuthInitEstablishes
<1>2. OAuthIInv /\ [OAuthNext]_oauthvars => OAuthIInv'
  BY OAuthNextPreserves
<1>3. OAuthIInv => OAuthInv
  BY DEF OAuthIInv
<1>4. QED
  BY <1>1, <1>2, <1>3, PTL DEF OAuthSpec

-----------------------------------------------------------------------------
(* Path locks: the least and the greatest of a set                           *)

HasSmallest(T) == \E U \in T : \A V \in T : ~(V \subseteq U /\ V # U)

\* Among some of the subsets of a finite set, one contains none of the others.
LEMMA SmallestSubset ==
    ASSUME NEW S, IsFiniteSet(S), NEW T, T \subseteq SUBSET S, T # {}
    PROVE  HasSmallest(T)
  <1>. SUFFICES \E U \in T : \A V \in T : ~(V \subseteq U /\ V # U)
    BY DEF HasSmallest
  <1>1. IsWellFoundedOn(StrictSubsetOrdering(S), FiniteSubsetsOf(S))
    BY FS_StrictSubsetOrderingWellFounded
  <1>2. T \subseteq FiniteSubsetsOf(S)
    BY FS_FiniteSubsetsOfFinite
  <1>3. \E U \in T : \A V \in T : ~(<<V, U>> \in StrictSubsetOrdering(S))
    BY <1>1, <1>2, WFMin
  <1>4. \A U, V \in SUBSET S : V \subseteq U /\ V # U => <<V, U>> \in StrictSubsetOrdering(S)
    BY DEF StrictSubsetOrdering
  <1>. QED  BY <1>3, <1>4

\* Every finite set of naturals that is not empty has a least and a greatest element.
LEMMA ExtremesExist ==
    ASSUME NEW S, S \subseteq Nat, IsFiniteSet(S), S # {}
    PROVE  /\ \E x \in S : \A y \in S : x <= y
           /\ \E x \in S : \A y \in S : x >= y
  <1>1. \E x \in S : \A y \in S : x <= y
    <2>. DEFINE down == [x \in S |-> {z \in S : z <= x}]
    <2>1. \A T : T = {down[x] : x \in S} => T \subseteq SUBSET S /\ T # {}
      OBVIOUS
    <2>2. \A x \in S : \A z : z \in down[x] <=> z \in S /\ z <= x
      OBVIOUS
    <2>. HIDE DEF down
    <2>3. PICK x \in S : \A y \in S : down[y] \subseteq down[x] => down[y] = down[x]
      <3>1. PICK T : T = {down[x] : x \in S}
        OBVIOUS
      <3>2. T \subseteq SUBSET S /\ T # {}
        BY <2>1, <3>1
      <3>3. PICK U \in T : \A V \in T : ~(V \subseteq U /\ V # U)
        <4>1. HasSmallest(T)
          BY <3>2, SmallestSubset
        <4>. QED  BY <4>1 DEF HasSmallest
      <3>4. PICK x \in S : U = down[x]
        BY <3>1, <3>3
      <3>. QED  BY <3>1, <3>3, <3>4
    <2>4. ASSUME NEW y \in S, ~(x <= y) PROVE FALSE
      <3>1. x \in Nat /\ y \in Nat /\ y < x
        BY <2>4
      <3>2. \A z \in Nat : z <= y => z <= x
        BY <3>1
      <3>3. down[y] \subseteq down[x]
        BY <2>2, <3>1, <3>2
      <3>4. x \in down[x] /\ x \notin down[y]
        BY <2>2, <3>1
      <3>. QED  BY <2>3, <3>3, <3>4
    <2>. QED  BY <2>4
  <1>2. \E x \in S : \A y \in S : x >= y
    <2>. DEFINE up == [x \in S |-> {z \in S : z >= x}]
    <2>1. \A T : T = {up[x] : x \in S} => T \subseteq SUBSET S /\ T # {}
      OBVIOUS
    <2>2. \A x \in S : \A z : z \in up[x] <=> z \in S /\ z >= x
      OBVIOUS
    <2>. HIDE DEF up
    <2>3. PICK x \in S : \A y \in S : up[y] \subseteq up[x] => up[y] = up[x]
      <3>1. PICK T : T = {up[x] : x \in S}
        OBVIOUS
      <3>2. T \subseteq SUBSET S /\ T # {}
        BY <2>1, <3>1
      <3>3. PICK U \in T : \A V \in T : ~(V \subseteq U /\ V # U)
        <4>1. HasSmallest(T)
          BY <3>2, SmallestSubset
        <4>. QED  BY <4>1 DEF HasSmallest
      <3>4. PICK x \in S : U = up[x]
        BY <3>1, <3>3
      <3>. QED  BY <3>1, <3>3, <3>4
    <2>4. ASSUME NEW y \in S, ~(x >= y) PROVE FALSE
      <3>1. x \in Nat /\ y \in Nat /\ y > x
        BY <2>4
      <3>2. \A z \in Nat : z >= y => z >= x
        BY <3>1
      <3>3. up[y] \subseteq up[x]
        BY <2>2, <3>1, <3>2
      <3>4. x \in up[x] /\ x \notin up[y]
        BY <2>2, <3>1
      <3>. QED  BY <2>3, <3>3, <3>4
    <2>. QED  BY <2>4
  <1>. QED  BY <1>1, <1>2

LEMMA MinMaxFacts ==
    ASSUME NEW S, S \subseteq Nat, IsFiniteSet(S), S # {}
    PROVE  /\ Min(S) \in S /\ \A y \in S : Min(S) <= y
           /\ Max(S) \in S /\ \A y \in S : Max(S) >= y
  BY ExtremesExist DEF Min, Max

-----------------------------------------------------------------------------
(* Path locks: what holds in every state                                     *)

Shards == {ShardOf[p] : p \in Paths}

\* The threads that use the entry of a path.
Using(q, p) == {t \in Threads : ProcessOf[t] = q /\ p \in Registered(t)}

LockTyped ==
    /\ turn \in [Threads -> {"idle", "taking", "held", "leaving"}]
    /\ wants \in [Threads -> SUBSET Paths] /\ locked \in [Threads -> SUBSET Paths]
    /\ files \in [Threads -> SUBSET Shards]
    /\ entry \in [Threads -> [Paths -> Entries \cup {NoEntry}]]
    /\ registry \in [Processes -> [Paths -> Entries \cup {NoEntry}]]
    /\ users \in [Entries -> Nat]

Ordered(taken, all) == \A a \in taken, b \in all \ taken : a < b

\* A call registers, locks and takes lock files in this order, each in order, and
\* leaves in the opposite one.
CallSound(t) ==
    /\ turn[t] = "idle" => wants[t] = {}
    /\ Registered(t) \subseteq wants[t] /\ locked[t] \subseteq wants[t]
    /\ files[t] \subseteq ShardsOf(t)
    /\ locked[t] # {} => Registered(t) = wants[t]
    /\ files[t] # {} => locked[t] = wants[t]
    /\ turn[t] = "held" => files[t] = ShardsOf(t)
    /\ turn[t] = "taking" =>
         Ordered(locked[t], wants[t]) /\ Ordered(files[t], ShardsOf(t))

\* What a thread has registered with is in the registry of its process.
EntrySound(t) == \A p \in Registered(t) : entry[t][p] = registry[ProcessOf[t]][p]

EntriesDiffer ==
    \A q, r \in Processes, p, o \in Paths :
      registry[q][p] # NoEntry /\ registry[q][p] = registry[r][o] => q = r /\ p = o

FilesExclude == \A t, u \in Threads : t # u => files[t] \cap files[u] = {}

Counted(q, p) ==
    IF registry[q][p] = NoEntry THEN Using(q, p) = {}
    ELSE users[registry[q][p]] = Cardinality(Using(q, p)) /\ Using(q, p) # {}

LocksIInv ==
    /\ LockTyped /\ EntriesDiffer /\ FilesExclude
    /\ \A q \in Processes, p \in Paths : Counted(q, p)
    /\ \A t \in Threads : CallSound(t) /\ EntrySound(t)

LEMMA LockConstants ==
    /\ IsFiniteSet(Threads) /\ IsFiniteSet(Paths) /\ NoEntry \notin Entries
    /\ Paths \subseteq Nat /\ Shards \subseteq Nat /\ IsFiniteSet(Shards)
    /\ \A t \in Threads : ProcessOf[t] \in Processes
    /\ \A p \in Paths : ShardOf[p] \in Shards
  <1>1. ShardOf \in Surjection(Paths, Shards)
    BY PathLocksAssumption DEF Shards, Surjection
  <1>2. IsFiniteSet(Shards)
    BY <1>1, EntriesAssumption, FS_Surjection
  <1>. QED  BY <1>2, EntriesAssumption, PathLocksAssumption DEF Shards, Processes

LEMMA RegisteredFacts ==
    \A t \in Threads : Registered(t) \subseteq Paths /\ \A p \in Paths :
      p \in Registered(t) <=> entry[t][p] # NoEntry
  BY DEF Registered

LEMMA UsingIsFinite ==
    ASSUME NEW q, NEW p PROVE IsFiniteSet(Using(q, p)) /\ Cardinality(Using(q, p)) \in Nat
  <1>1. Using(q, p) \subseteq Threads
    BY DEF Using
  <1>2. IsFiniteSet(Using(q, p))
    BY <1>1, LockConstants, FS_Subset
  <1>. QED  BY <1>2, FS_CardinalityType

\* The resource a thread asks for next is the least of those it lacks.
LEMMA NextFacts ==
    ASSUME LockTyped, NEW t \in Threads
    PROVE  /\ locked[t] \subseteq wants[t] /\ locked[t] # wants[t] =>
                /\ NextPath(t) \in wants[t] \ locked[t]
                /\ \A p \in wants[t] \ locked[t] : NextPath(t) <= p
           /\ files[t] \subseteq ShardsOf(t) /\ files[t] # ShardsOf(t) =>
                /\ NextShard(t) \in ShardsOf(t) \ files[t]
                /\ \A s \in ShardsOf(t) \ files[t] : NextShard(t) <= s
           /\ ShardsOf(t) \subseteq Shards /\ wants[t] \subseteq Paths
  <1>1. wants[t] \subseteq Paths /\ ShardsOf(t) \subseteq Shards
    BY DEF LockTyped, ShardsOf, Shards
  <1>2. IsFiniteSet(wants[t] \ locked[t]) /\ IsFiniteSet(ShardsOf(t) \ files[t])
    BY <1>1, LockConstants, FS_Subset
  <1>3. wants[t] \ locked[t] \subseteq Nat /\ ShardsOf(t) \ files[t] \subseteq Nat
    BY <1>1, LockConstants
  <1>4. locked[t] \subseteq wants[t] /\ locked[t] # wants[t] => wants[t] \ locked[t] # {}
    OBVIOUS
  <1>5. files[t] \subseteq ShardsOf(t) /\ files[t] # ShardsOf(t) => ShardsOf(t) \ files[t] # {}
    OBVIOUS
  <1>. QED  BY <1>1, <1>2, <1>3, <1>4, <1>5, MinMaxFacts DEF NextPath, NextShard

\* There is a new entry when one is needed: entries number the thread's uses of a path.
LEMMA NewEntryFacts ==
    ASSUME LocksIInv, NEW t \in Threads, NEW p \in Paths, entry[t][p] = NoEntry
    PROVE  /\ NewEntry \in Entries
           /\ \A u \in Threads, o \in Paths : entry[u][o] # NewEntry
           /\ \A q \in Processes, o \in Paths : registry[q][o] # NewEntry
  <1>. DEFINE U == (Threads \X Paths) \ {<<t, p>>}
              f == [x \in U |-> entry[x[1]][x[2]]]
              R == {f[x] : x \in U}
              Free == {e \in Entries : /\ \A u \in Threads, o \in Paths : entry[u][o] # e
                              /\ \A q \in Processes, o \in Paths : registry[q][o] # e}
  <1>1. /\ Cardinality(Threads) \in Nat /\ Cardinality(Paths) \in Nat
        /\ Cardinality(Threads) * Cardinality(Paths) \in Nat
        /\ IsFiniteSet(Threads \X Paths)
        /\ Cardinality(Threads \X Paths) = Cardinality(Threads) * Cardinality(Paths)
    BY EntriesAssumption, FS_CardinalityType, FS_Product
  <1>2. /\ IsFiniteSet(Entries) /\ Entries \subseteq Nat
        /\ Cardinality(Entries) = Cardinality(Threads) * Cardinality(Paths)
    <2>. DEFINE n == Cardinality(Threads) * Cardinality(Paths)
    <2>1. n \in Nat
      BY <1>1
    <2>2. Entries = 1 .. n
      BY DEF Entries
    <2>. HIDE DEF n
    <2>3. IsFiniteSet(1 .. n) /\ Cardinality(1 .. n) = n
      BY <2>1, FS_Interval
    <2>. QED  BY <2>1, <2>2, <2>3 DEF n
  <1>3. <<t, p>> \in Threads \X Paths
    OBVIOUS
  <1>4. IsFiniteSet(U) /\ Cardinality(U) = Cardinality(Threads) * Cardinality(Paths) - 1
    BY <1>1, <1>3, FS_RemoveElement
  <1>5. f \in Surjection(U, R)
    BY DEF Surjection
  <1>6. IsFiniteSet(R) /\ Cardinality(R) <= Cardinality(U) /\ Cardinality(R) \in Nat
    <2>. HIDE DEF U, f, R
    <2>. QED  BY <1>4, <1>5, FS_Surjection, FS_CardinalityType
  <1>7. ASSUME NEW u \in Threads, NEW o \in Paths, entry[u][o] \in Entries
        PROVE  entry[u][o] \in R
    <2>1. <<u, o>> # <<t, p>>
      BY <1>7, EntriesAssumption
    <2>2. <<u, o>> \in U /\ f[<<u, o>>] = entry[u][o]
      BY <2>1
    <2>. QED  BY <2>2
  <1>8. ASSUME NEW q \in Processes, NEW o \in Paths, registry[q][o] \in Entries
        PROVE  registry[q][o] \in R
    <2>1. registry[q][o] # NoEntry /\ Using(q, o) # {}
      BY <1>8, EntriesAssumption DEF LocksIInv, Counted
    <2>2. PICK u \in Using(q, o) : TRUE
      BY <2>1
    <2>3. u \in Threads /\ ProcessOf[u] = q /\ o \in Registered(u)
      BY <2>2 DEF Using
    <2>4. entry[u][o] = registry[q][o]
      BY <2>3 DEF LocksIInv, EntrySound
    <2>. QED  BY <1>7, <1>8, <2>3, <2>4
  <1>. HIDE DEF R, U, f
  <1>9. PICK e \in Entries : e \notin R
    <2>1. CASE Entries \subseteq R
      <3>1. Cardinality(Entries) <= Cardinality(R)
        BY <1>6, <2>1, FS_Subset
      <3>. QED  BY <1>1, <1>2, <1>4, <1>6, <3>1
    <2>. QED  BY <2>1
  <1>10. e \in Free
    BY <1>7, <1>8, <1>9
  <1>11. Free \subseteq Nat /\ IsFiniteSet(Free) /\ Free # {}
    <2>1. Free \subseteq Entries
      OBVIOUS
    <2>. HIDE DEF Free
    <2>. QED  BY <1>2, <1>10, <2>1, FS_Subset
  <1>12. NewEntry = Min(Free)
    BY DEF NewEntry
  <1>13. NewEntry \in Free
    <2>. HIDE DEF Free
    <2>. QED  BY <1>11, <1>12, MinMaxFacts
  <1>. QED  BY <1>13

LEMMA LocksStart == PathLocksInit => LocksIInv
  <1>. SUFFICES ASSUME PathLocksInit PROVE LocksIInv
    OBVIOUS
  <1>1. \A t \in Threads : Registered(t) = {}
    BY DEF PathLocksInit, Registered
  <1>2. \A q \in Processes, p \in Paths : Using(q, p) = {} /\ registry[q][p] = NoEntry
    BY <1>1 DEF PathLocksInit, Using
  <1>3. LockTyped /\ EntriesDiffer /\ FilesExclude
    BY <1>2 DEF PathLocksInit, LockTyped, EntriesDiffer, FilesExclude
  <1>4. \A t \in Threads : CallSound(t) /\ EntrySound(t)
    BY <1>1 DEF PathLocksInit, CallSound, EntrySound, Ordered, ShardsOf
  <1>. QED  BY <1>2, <1>3, <1>4 DEF LocksIInv, Counted

\* What a step that leaves the entries alone keeps.
LEMMA EntriesUntouched ==
    ASSUME LocksIInv, UNCHANGED <<entry, registry, users>>
    PROVE  /\ EntriesDiffer' /\ \A q \in Processes, p \in Paths : Counted(q, p)'
           /\ \A t \in Threads : EntrySound(t)' /\ Registered(t)' = Registered(t)
  <1>1. \A t \in Threads : Registered(t)' = Registered(t)
    BY DEF Registered
  <1>2. \A q, p : Using(q, p)' = Using(q, p)
    BY <1>1 DEF Using
  <1>3. EntriesDiffer'
    BY DEF LocksIInv, EntriesDiffer
  <1>4. \A q \in Processes, p \in Paths : Counted(q, p)'
    BY <1>2 DEF LocksIInv, Counted
  <1>5. \A t \in Threads : EntrySound(t)'
    BY <1>1 DEF LocksIInv, EntrySound
  <1>. QED  BY <1>1, <1>3, <1>4, <1>5

\* Of a step of one thread the others' calls feel nothing.
LEMMA OthersUntouched ==
    ASSUME LocksIInv, NEW u \in Threads, turn'[u] = turn[u], wants'[u] = wants[u],
           entry'[u] = entry[u], locked'[u] = locked[u], files'[u] = files[u]
    PROVE  CallSound(u)'
  <1>1. Registered(u)' = Registered(u) /\ ShardsOf(u)' = ShardsOf(u)
    BY DEF Registered, ShardsOf
  <1>2. CallSound(u)
    BY DEF LocksIInv
  <1>. QED  BY <1>1, <1>2 DEF CallSound, Ordered

-----------------------------------------------------------------------------
(* Path locks: every step keeps it                                           *)

\* What is left to show of a step that leaves the entries alone.
LEMMA StepKeepsLocks ==
    ASSUME LocksIInv, UNCHANGED <<entry, registry, users>>, NEW t \in Threads,
           LockTyped', FilesExclude', CallSound(t)',
           \A u \in Threads \ {t} : /\ turn'[u] = turn[u] /\ wants'[u] = wants[u]
                                    /\ locked'[u] = locked[u] /\ files'[u] = files[u]
    PROVE  LocksIInv'
  <1>1. \A u \in Threads : CallSound(u)'
    BY OthersUntouched
  <1>2. /\ EntriesDiffer' /\ \A q \in Processes, p \in Paths : Counted(q, p)'
        /\ \A u \in Threads : EntrySound(u)'
    BY EntriesUntouched
  <1>. QED  BY <1>1, <1>2 DEF LocksIInv

LEMMA CallKeeps == ASSUME LocksIInv, NEW t \in Threads, Call(t) PROVE LocksIInv'
  <1>1. LockTyped /\ FilesExclude /\ CallSound(t) /\ turn[t] = "idle"
    BY DEF LocksIInv, Call
  <1>2. PICK want \in SUBSET Paths \ {{}} : wants' = [wants EXCEPT ![t] = want]
    BY DEF Call
  <1>3. LockTyped' /\ FilesExclude' /\ UNCHANGED <<entry, registry, users>>
    BY <1>1, <1>2 DEF LockTyped, FilesExclude, Call
  <1>4. /\ turn'[t] = "taking" /\ files'[t] = {} /\ locked'[t] = {}
        /\ Registered(t)' = {}
    <2>1. wants[t] = {} /\ Registered(t) = {} /\ ShardsOf(t) = {}
      BY <1>1 DEF CallSound, ShardsOf
    <2>2. files[t] = {} /\ locked[t] = {}
      BY <1>1, <2>1 DEF CallSound
    <2>. QED  BY <1>1, <2>1, <2>2 DEF Call, LockTyped, Registered
  <1>5. CallSound(t)'
    BY <1>4 DEF CallSound, Ordered
  <1>6. \A u \in Threads \ {t} : /\ turn'[u] = turn[u] /\ wants'[u] = wants[u]
                                 /\ locked'[u] = locked[u] /\ files'[u] = files[u]
    BY <1>1, <1>2 DEF Call, LockTyped
  <1>. QED  BY <1>3, <1>5, <1>6, StepKeepsLocks

LEMMA TakeLockKeeps == ASSUME LocksIInv, NEW t \in Threads, TakeLock(t) PROVE LocksIInv'
  <1>. DEFINE p == NextPath(t)
  <1>1. /\ LockTyped /\ FilesExclude /\ CallSound(t) /\ turn[t] = "taking"
        /\ Registered(t) = wants[t] /\ locked[t] # wants[t]
        /\ UNCHANGED <<entry, registry, users, turn, wants, files>>
    BY DEF LocksIInv, TakeLock
  <1>2. p \in wants[t] \ locked[t] /\ \A o \in wants[t] \ locked[t] : p <= o
    BY <1>1, NextFacts DEF CallSound
  <1>3. wants[t] \subseteq Nat /\ wants[t] \subseteq Paths
    BY <1>1, LockConstants DEF LockTyped
  <1>4. locked' = [locked EXCEPT ![t] = locked[t] \cup {p}]
    BY DEF TakeLock
  <1>. HIDE DEF p
  <1>5. LockTyped' /\ FilesExclude'
    BY <1>1, <1>2, <1>3, <1>4 DEF LockTyped, FilesExclude
  <1>6. locked'[t] = locked[t] \cup {p} /\ wants'[t] = wants[t] /\ files'[t] = files[t]
    BY <1>1, <1>4 DEF LockTyped
  <1>7. files[t] = {}
    BY <1>1 DEF CallSound
  <1>8. Registered(t)' = wants[t] /\ ShardsOf(t)' = ShardsOf(t)
    BY <1>1 DEF Registered, ShardsOf
  <1>9. Ordered(locked'[t], wants[t])
    <2>1. Ordered(locked[t], wants[t]) /\ locked[t] \subseteq wants[t]
      BY <1>1 DEF CallSound
    <2>. SUFFICES ASSUME NEW a \in locked[t] \cup {p}, NEW b \in wants[t] \ (locked[t] \cup {p})
                  PROVE  a < b
      BY <1>6 DEF Ordered
    <2>2. a \in Nat /\ b \in Nat
      BY <1>2, <1>3, <2>1
    <2>3. CASE a \in locked[t]
      BY <2>1, <2>3 DEF Ordered
    <2>4. CASE a = p
      BY <1>2, <2>2, <2>4
    <2>. QED  BY <2>3, <2>4
  <1>10. CallSound(t)'
    <2>1. Ordered({}, ShardsOf(t)) /\ turn'[t] = "taking"
      BY <1>1 DEF Ordered
    <2>2. locked'[t] \subseteq wants[t]
      BY <1>1, <1>2, <1>6 DEF CallSound
    <2>. QED  BY <1>6, <1>7, <1>8, <1>9, <2>1, <2>2 DEF CallSound
  <1>11. \A u \in Threads \ {t} : /\ turn'[u] = turn[u] /\ wants'[u] = wants[u]
                                  /\ locked'[u] = locked[u] /\ files'[u] = files[u]
    BY <1>1, <1>4 DEF LockTyped
  <1>. QED  BY <1>1, <1>5, <1>10, <1>11, StepKeepsLocks

LEMMA TakeFileKeeps == ASSUME LocksIInv, NEW t \in Threads, TakeFile(t) PROVE LocksIInv'
  <1>. DEFINE s == NextShard(t)
  <1>1. /\ LockTyped /\ FilesExclude /\ CallSound(t) /\ turn[t] = "taking"
        /\ locked[t] = wants[t] /\ files[t] # ShardsOf(t)
        /\ UNCHANGED <<entry, registry, users, locked, wants>>
    BY DEF LocksIInv, TakeFile
  <1>2. /\ s \in ShardsOf(t) \ files[t] /\ \A o \in ShardsOf(t) \ files[t] : s <= o
        /\ ShardsOf(t) \subseteq Shards
    BY <1>1, NextFacts DEF CallSound
  <1>3. ShardsOf(t) \subseteq Nat
    BY <1>2, LockConstants
  <1>4. Registered(t)' = Registered(t) /\ ShardsOf(t)' = ShardsOf(t)
    BY <1>1 DEF Registered, ShardsOf
  <1>5. CASE FileFree(s) /\ files' = [files EXCEPT ![t] = files[t] \cup {s}] /\ turn' = turn
    <2>. HIDE DEF s
    <2>1. LockTyped'
      BY <1>1, <1>2, <1>5 DEF LockTyped
    <2>2. FilesExclude'
      BY <1>1, <1>2, <1>5 DEF LockTyped, FilesExclude, FileFree
    <2>3. files'[t] = files[t] \cup {s} /\ wants'[t] = wants[t] /\ locked'[t] = wants[t]
      BY <1>1, <1>5 DEF LockTyped
    <2>4. Ordered(files'[t], ShardsOf(t))
      <3>1. Ordered(files[t], ShardsOf(t)) /\ files[t] \subseteq ShardsOf(t)
        BY <1>1 DEF CallSound
      <3>. SUFFICES ASSUME NEW a \in files[t] \cup {s},
                           NEW b \in ShardsOf(t) \ (files[t] \cup {s})
                    PROVE  a < b
        BY <2>3 DEF Ordered
      <3>2. a \in Nat /\ b \in Nat
        BY <1>2, <1>3, <3>1
      <3>3. CASE a \in files[t]
        BY <3>1, <3>3 DEF Ordered
      <3>4. CASE a = s
        BY <1>2, <3>2, <3>4
      <3>. QED  BY <3>3, <3>4
    <2>5. CallSound(t)'
      <3>1. files'[t] \subseteq ShardsOf(t) /\ turn'[t] = "taking"
        BY <1>1, <1>2, <1>5, <2>3 DEF CallSound
      <3>2. /\ Registered(t) \subseteq wants[t]
            /\ locked[t] # {} => Registered(t) = wants[t]
            /\ Ordered(wants[t], wants[t])
        BY <1>1 DEF CallSound, Ordered
      <3>. QED  BY <1>4, <1>1, <2>3, <2>4, <3>1, <3>2 DEF CallSound
    <2>6. \A u \in Threads \ {t} : /\ turn'[u] = turn[u] /\ wants'[u] = wants[u]
                                   /\ locked'[u] = locked[u] /\ files'[u] = files[u]
      BY <1>1, <1>5 DEF LockTyped
    <2>. QED  BY <1>1, <2>1, <2>2, <2>5, <2>6, StepKeepsLocks
  <1>6. CASE turn' = [turn EXCEPT ![t] = "leaving"] /\ files' = files
    <2>1. LockTyped' /\ FilesExclude' /\ turn'[t] = "leaving"
      BY <1>1, <1>6 DEF LockTyped, FilesExclude
    <2>2. CallSound(t)'
      BY <1>1, <1>4, <1>6, <2>1 DEF CallSound
    <2>3. \A u \in Threads \ {t} : /\ turn'[u] = turn[u] /\ wants'[u] = wants[u]
                                   /\ locked'[u] = locked[u] /\ files'[u] = files[u]
      BY <1>1, <1>6 DEF LockTyped
    <2>. QED  BY <1>1, <2>1, <2>2, <2>3, StepKeepsLocks
  <1>. QED  BY <1>5, <1>6 DEF TakeFile

\* Enter, Leave and Return change the turn alone, and what they rest on is that the
\* call has all it asked for, or nothing.
LEMMA TurnKeeps ==
    ASSUME LocksIInv, NEW t \in Threads, Enter(t) \/ Leave(t) PROVE LocksIInv'
  <1>1. /\ LockTyped /\ FilesExclude /\ CallSound(t)
        /\ UNCHANGED <<entry, registry, users, locked, wants, files>>
    BY DEF LocksIInv, Enter, Leave
  <1>2. PICK x \in {"held", "leaving"} :
          turn' = [turn EXCEPT ![t] = x] /\ (x = "held" => files[t] = ShardsOf(t))
    BY DEF Enter, Leave
  <1>3. LockTyped' /\ FilesExclude' /\ turn'[t] = x
    BY <1>1, <1>2 DEF LockTyped, FilesExclude
  <1>4. Registered(t)' = Registered(t) /\ ShardsOf(t)' = ShardsOf(t)
    BY <1>1 DEF Registered, ShardsOf
  <1>5. CallSound(t)'
    BY <1>1, <1>2, <1>3, <1>4 DEF CallSound
  <1>6. \A u \in Threads \ {t} : /\ turn'[u] = turn[u] /\ wants'[u] = wants[u]
                                 /\ locked'[u] = locked[u] /\ files'[u] = files[u]
    BY <1>1, <1>2 DEF LockTyped
  <1>. QED  BY <1>1, <1>3, <1>5, <1>6, StepKeepsLocks

LEMMA ReturnKeeps == ASSUME LocksIInv, NEW t \in Threads, Return(t) PROVE LocksIInv'
  <1>1. /\ LockTyped /\ FilesExclude /\ CallSound(t)
        /\ locked[t] = {} /\ Registered(t) = {}
        /\ UNCHANGED <<entry, registry, users, locked, files>>
    BY DEF LocksIInv, Return
  <1>2. files[t] = {}
    <2>1. CASE files[t] # {}
      <3>1. wants[t] = {} /\ files[t] \subseteq ShardsOf(t)
        BY <1>1, <2>1 DEF CallSound
      <3>. QED  BY <2>1, <3>1 DEF ShardsOf
    <2>. QED  BY <2>1
  <1>3. LockTyped' /\ FilesExclude' /\ turn'[t] = "idle" /\ wants'[t] = {}
    BY <1>1 DEF LockTyped, FilesExclude, Return
  <1>4. Registered(t)' = {} /\ files'[t] = {} /\ locked'[t] = {}
    BY <1>1, <1>2 DEF Registered
  <1>5. CallSound(t)'
    BY <1>3, <1>4 DEF CallSound
  <1>6. \A u \in Threads \ {t} : /\ turn'[u] = turn[u] /\ wants'[u] = wants[u]
                                 /\ locked'[u] = locked[u] /\ files'[u] = files[u]
    BY <1>1 DEF LockTyped, Return
  <1>. QED  BY <1>1, <1>3, <1>5, <1>6, StepKeepsLocks

LEMMA UnlockKeeps == ASSUME LocksIInv, NEW t \in Threads, Unlock(t) PROVE LocksIInv'
  <1>1. /\ LockTyped /\ FilesExclude /\ CallSound(t) /\ turn[t] = "leaving"
        /\ locked[t] # {} /\ UNCHANGED <<entry, registry, users, turn, wants>>
    BY DEF LocksIInv, Unlock
  <1>2. PICK less \in SUBSET files[t], fewer \in SUBSET locked[t] :
          /\ files' = [files EXCEPT ![t] = less] /\ locked' = [locked EXCEPT ![t] = fewer]
          /\ less # {} => fewer = locked[t]
    <2>1. CASE files[t] # {}
      <3>1. files' = [files EXCEPT ![t] = files[t] \ {Max(files[t])}] /\ locked' = locked
        BY <2>1 DEF Unlock
      <3>2. locked' = [locked EXCEPT ![t] = locked[t]]
        BY <1>1, <3>1 DEF LockTyped
      <3>. QED  BY <3>1, <3>2
    <2>2. CASE files[t] = {}
      <3>1. locked' = [locked EXCEPT ![t] = locked[t] \ {Max(locked[t])}] /\ files' = files
        BY <2>2 DEF Unlock
      <3>2. files' = [files EXCEPT ![t] = {}]
        BY <1>1, <2>2, <3>1 DEF LockTyped
      <3>. QED  BY <3>1, <3>2
    <2>. QED  BY <2>1, <2>2
  <1>3. LockTyped' /\ FilesExclude'
    BY <1>1, <1>2 DEF LockTyped, FilesExclude
  <1>4. files'[t] = less /\ locked'[t] = fewer /\ turn'[t] = "leaving" /\ wants'[t] = wants[t]
    BY <1>1, <1>2 DEF LockTyped
  <1>5. Registered(t)' = Registered(t) /\ ShardsOf(t)' = ShardsOf(t)
    BY <1>1 DEF Registered, ShardsOf
  <1>6. CallSound(t)'
    BY <1>1, <1>2, <1>4, <1>5 DEF CallSound
  <1>7. \A u \in Threads \ {t} : /\ turn'[u] = turn[u] /\ wants'[u] = wants[u]
                                 /\ locked'[u] = locked[u] /\ files'[u] = files[u]
    BY <1>1, <1>2 DEF LockTyped
  <1>. QED  BY <1>1, <1>3, <1>6, <1>7, StepKeepsLocks

\* A thread that has not registered everything, or has given its locks back, holds
\* no lock and no lock file.
LEMMA HoldsNothing ==
    ASSUME LocksIInv, NEW t \in Threads, Registered(t) # wants[t] \/ locked[t] = {}
    PROVE  locked[t] = {} /\ files[t] = {}
  <1>1. CallSound(t)
    BY DEF LocksIInv
  <1>2. locked[t] = {}
    BY <1>1 DEF CallSound
  <1>3. CASE files[t] # {}
    <2>1. wants[t] = {} /\ files[t] \subseteq ShardsOf(t)
      BY <1>1, <1>2, <1>3 DEF CallSound
    <2>. QED  BY <1>3, <2>1 DEF ShardsOf
  <1>. QED  BY <1>2, <1>3

\* What a step that changes one thread's registration of one path does to the users
\* of the paths.
UsesAfter(t, p, e) ==
    /\ \A u \in Threads, o \in Paths : u # t \/ o # p => entry'[u][o] = entry[u][o]
    /\ entry'[t][p] = e
    /\ \A u \in Threads : Registered(u)' =
         IF u # t THEN Registered(u)
         ELSE IF e = NoEntry THEN Registered(t) \ {p} ELSE Registered(t) \cup {p}
    /\ \A r \in Processes, o \in Paths : Using(r, o)' =
         IF r # ProcessOf[t] \/ o # p THEN Using(r, o)
         ELSE IF e = NoEntry THEN Using(r, o) \ {t} ELSE Using(r, o) \cup {t}

LEMMA UsingAfter ==
    ASSUME LockTyped, NEW t \in Threads, NEW p \in Paths, NEW e \in Entries \cup {NoEntry},
           entry' = [entry EXCEPT ![t][p] = e]
    PROVE  UsesAfter(t, p, e)
  <1>1. /\ \A u \in Threads, o \in Paths : u # t \/ o # p => entry'[u][o] = entry[u][o]
        /\ entry'[t][p] = e
    BY DEF LockTyped
  <1>2. \A u \in Threads, o \in Paths :
          /\ o \in Registered(u)' <=> entry'[u][o] # NoEntry
          /\ o \in Registered(u) <=> entry[u][o] # NoEntry
    BY DEF Registered
  <1>3. \A u \in Threads : Registered(u) \subseteq Paths /\ Registered(u)' \subseteq Paths
    BY DEF Registered
  <1>4. \A u \in Threads, o \in Paths :
          o \in Registered(u)' <=> IF u = t /\ o = p THEN e # NoEntry ELSE o \in Registered(u)
    BY <1>1, <1>2
  <1>5. \A u \in Threads : Registered(u)' =
          IF u # t THEN Registered(u)
          ELSE IF e = NoEntry THEN Registered(t) \ {p} ELSE Registered(t) \cup {p}
    <2>1. ASSUME NEW u \in Threads, u # t PROVE Registered(u)' = Registered(u)
      BY <1>3, <1>4, <2>1
    <2>2. e = NoEntry => Registered(t)' = Registered(t) \ {p}
      BY <1>3, <1>4
    <2>3. e # NoEntry => Registered(t)' = Registered(t) \cup {p}
      BY <1>3, <1>4
    <2>. QED  BY <2>1, <2>2, <2>3
  <1>6. ASSUME NEW r \in Processes, NEW o \in Paths
        PROVE  Using(r, o)' =
                IF r # ProcessOf[t] \/ o # p THEN Using(r, o)
                ELSE IF e = NoEntry THEN Using(r, o) \ {t} ELSE Using(r, o) \cup {t}
    <2>1. Using(r, o)' = {u \in Threads : ProcessOf[u] = r /\ o \in Registered(u)'}
      BY DEF Using
    <2>2. CASE r # ProcessOf[t] \/ o # p
      <3>1. \A u \in Threads : ProcessOf[u] = r
            => (o \in Registered(u)' <=> o \in Registered(u))
        BY <1>4, <2>2
      <3>. QED  BY <2>1, <2>2, <3>1 DEF Using
    <2>3. CASE r = ProcessOf[t] /\ o = p /\ e = NoEntry
      <3>1. \A u \in Threads : o \in Registered(u)' <=> o \in Registered(u) /\ u # t
        BY <1>4, <2>3
      <3>. QED  BY <2>1, <2>3, <3>1 DEF Using
    <2>4. CASE r = ProcessOf[t] /\ o = p /\ e # NoEntry
      <3>1. \A u \in Threads : o \in Registered(u)' <=> o \in Registered(u) \/ u = t
        BY <1>4, <2>4
      <3>. QED  BY <2>1, <2>4, <3>1 DEF Using
    <2>. QED  BY <2>2, <2>3, <2>4
  <1>. QED  BY <1>1, <1>5, <1>6 DEF UsesAfter

LEMMA RegisterKeeps == ASSUME LocksIInv, NEW t \in Threads, Register(t) PROVE LocksIInv'
  <1>1. /\ LockTyped /\ CallSound(t) /\ turn[t] = "taking" /\ Registered(t) # wants[t]
        /\ UNCHANGED <<turn, wants, locked, files>>
    BY DEF LocksIInv, Register
  <1>2. PICK p \in Paths : /\ p = Min(wants[t] \ Registered(t))
                          /\ p \in wants[t] /\ p \notin Registered(t)
    <2>1. wants[t] \subseteq Paths /\ wants[t] \ Registered(t) # {}
      BY <1>1 DEF LockTyped, CallSound
    <2>2. IsFiniteSet(wants[t] \ Registered(t)) /\ wants[t] \ Registered(t) \subseteq Nat
      BY <2>1, LockConstants, FS_Subset
    <2>. QED  BY <2>1, <2>2, MinMaxFacts
  <1>3. PICK q \in Processes : q = ProcessOf[t]
    BY LockConstants
  <1>4. LET known == registry[q][p] # NoEntry
            e == IF known THEN registry[q][p] ELSE NewEntry
        IN /\ entry' = [entry EXCEPT ![t][p] = e]
           /\ registry' = [registry EXCEPT ![q][p] = e]
           /\ users' = [users EXCEPT ![e] = IF known THEN users[e] + 1 ELSE 1]
    BY <1>2, <1>3 DEF Register
  <1>5. entry[t][p] = NoEntry /\ t \notin Using(q, p)
    BY <1>2 DEF Registered, Using
  <1>6. IsFiniteSet(Using(q, p)) /\ Cardinality(Using(q, p)) \in Nat
    BY UsingIsFinite
  <1>7. PICK e \in Entries :
          /\ entry' = [entry EXCEPT ![t][p] = e] /\ registry' = [registry EXCEPT ![q][p] = e]
          /\ users' = [users EXCEPT ![e] = Cardinality(Using(q, p)) + 1]
          /\ \A r \in Processes, o \in Paths : r # q \/ o # p => registry[r][o] # e
          /\ \A u \in Using(q, p) : registry[q][p] = e
    <2>1. CASE registry[q][p] # NoEntry
      <3>1. registry[q][p] \in Entries
        BY <1>1, <1>2, <2>1 DEF LockTyped
      <3>2. \A r \in Processes, o \in Paths : r # q \/ o # p => registry[r][o] # registry[q][p]
        BY <1>2, <2>1 DEF LocksIInv, EntriesDiffer
      <3>3. users[registry[q][p]] = Cardinality(Using(q, p))
        BY <1>2, <2>1 DEF LocksIInv, Counted
      <3>. QED  BY <1>4, <2>1, <3>1, <3>2, <3>3
    <2>2. CASE registry[q][p] = NoEntry
      <3>1. /\ NewEntry \in Entries
            /\ \A r \in Processes, o \in Paths : registry[r][o] # NewEntry
        BY <1>2, <1>5, NewEntryFacts
      <3>2. Using(q, p) = {}
        BY <1>2, <2>2 DEF LocksIInv, Counted
      <3>3. Cardinality(Using(q, p)) = 0
        BY <3>2, FS_EmptySet
      <3>4. users' = [users EXCEPT ![NewEntry] = Cardinality(Using(q, p)) + 1]
        BY <1>4, <2>2, <3>3
      <3>5. /\ entry' = [entry EXCEPT ![t][p] = NewEntry]
            /\ registry' = [registry EXCEPT ![q][p] = NewEntry]
        BY <1>4, <2>2
      <3>. QED  BY <3>1, <3>2, <3>4, <3>5
    <2>. QED  BY <2>1, <2>2
  <1>8. e # NoEntry
    BY EntriesAssumption
  <1>9. LockTyped'
    <2>1. Cardinality(Using(q, p)) + 1 \in Nat
      BY <1>6
    <2>2. users' \in [Entries -> Nat]
      BY <1>1, <1>7, <2>1 DEF LockTyped
    <2>3. /\ entry' \in [Threads -> [Paths -> Entries \cup {NoEntry}]]
          /\ registry' \in [Processes -> [Paths -> Entries \cup {NoEntry}]]
      BY <1>1, <1>2, <1>7 DEF LockTyped
    <2>. QED  BY <1>1, <2>2, <2>3 DEF LockTyped
  <1>10. /\ registry'[q][p] = e
         /\ \A r \in Processes, o \in Paths : r # q \/ o # p => registry'[r][o] = registry[r][o]
    BY <1>1, <1>2, <1>7 DEF LockTyped
  <1>11. EntriesDiffer'
    <2>. SUFFICES ASSUME NEW r \in Processes, NEW s \in Processes, NEW o \in Paths,
                         NEW z \in Paths,
                         registry'[r][o] # NoEntry, registry'[r][o] = registry'[s][z]
                  PROVE  r = s /\ o = z
      BY DEF EntriesDiffer
    <2>1. CASE r = q /\ o = p
      BY <1>7, <1>10, <2>1
    <2>2. CASE s = q /\ z = p
      BY <1>7, <1>10, <2>2
    <2>3. CASE ~(r = q /\ o = p) /\ ~(s = q /\ z = p)
      BY <1>10, <2>3 DEF LocksIInv, EntriesDiffer
    <2>. QED  BY <2>1, <2>2, <2>3
  <1>12. /\ \A u \in Threads, o \in Paths : u # t \/ o # p => entry'[u][o] = entry[u][o]
         /\ entry'[t][p] = e
         /\ \A u \in Threads : Registered(u)' =
              IF u # t THEN Registered(u) ELSE Registered(t) \cup {p}
         /\ \A r \in Processes, o \in Paths : Using(r, o)' =
              IF r # q \/ o # p THEN Using(r, o) ELSE Using(r, o) \cup {t}
    <2>1. e \in Entries \cup {NoEntry} /\ entry' = [entry EXCEPT ![t][p] = e]
      BY <1>7
    <2>2. UsesAfter(t, p, e)
      BY <1>1, <2>1, UsingAfter
    <2>. QED  BY <1>3, <1>8, <2>2 DEF UsesAfter
  <1>13. ASSUME NEW r \in Processes, NEW o \in Paths PROVE Counted(r, o)'
    <2>1. CASE r = q /\ o = p
      <3>1. /\ Using(r, o)' = Using(q, p) \cup {t}
            /\ Cardinality(Using(q, p) \cup {t}) = Cardinality(Using(q, p)) + 1
        BY <1>5, <1>6, <1>12, <2>1, FS_AddElement
      <3>2. users'[e] = Cardinality(Using(q, p)) + 1
        BY <1>1, <1>7 DEF LockTyped
      <3>. QED  BY <1>8, <1>10, <2>1, <3>1, <3>2 DEF Counted
    <2>2. CASE ~(r = q /\ o = p)
      <3>1. Using(r, o)' = Using(r, o) /\ registry'[r][o] = registry[r][o]
        BY <1>10, <1>12, <2>2
      <3>2. registry[r][o] # NoEntry => users'[registry[r][o]] = users[registry[r][o]]
        BY <1>1, <1>7, <2>2 DEF LockTyped
      <3>. QED  BY <3>1, <3>2 DEF LocksIInv, Counted
    <2>. QED  BY <2>1, <2>2
  <1>14. ASSUME NEW u \in Threads PROVE EntrySound(u)'
    <2>. SUFFICES ASSUME NEW o \in Registered(u)'
                  PROVE  entry'[u][o] = registry'[ProcessOf[u]][o]
      BY DEF EntrySound
    <2>1. o \in Paths /\ ProcessOf[u] \in Processes
      BY LockConstants DEF Registered
    <2>2. CASE u = t /\ o = p
      BY <1>3, <1>10, <1>12, <2>2
    <2>3. CASE ~(u = t /\ o = p)
      <3>1. o \in Registered(u) /\ entry'[u][o] = entry[u][o]
        BY <1>12, <2>1, <2>3
      <3>2. entry[u][o] = registry[ProcessOf[u]][o]
        BY <3>1 DEF LocksIInv, EntrySound
      <3>3. CASE ProcessOf[u] = q /\ o = p
        <4>1. u \in Using(q, p)
          BY <3>1, <3>3 DEF Using
        <4>. QED  BY <1>7, <1>10, <3>1, <3>2, <3>3, <4>1
      <3>4. CASE ~(ProcessOf[u] = q /\ o = p)
        BY <1>10, <2>1, <3>1, <3>2, <3>4
      <3>. QED  BY <3>3, <3>4
    <2>. QED  BY <2>2, <2>3
  <1>15. CallSound(t)'
    <2>1. locked[t] = {} /\ files[t] = {}
      BY <1>1, HoldsNothing
    <2>2. Registered(t)' = Registered(t) \cup {p} /\ ShardsOf(t)' = ShardsOf(t)
      BY <1>1, <1>12 DEF ShardsOf
    <2>. QED  BY <1>1, <1>2, <2>1, <2>2 DEF CallSound, Ordered
  <1>16. ASSUME NEW u \in Threads PROVE CallSound(u)'
    <2>1. CASE u # t
      <3>1. entry'[u] = entry[u]
        BY <1>1, <1>7, <2>1 DEF LockTyped
      <3>. QED  BY <1>1, <3>1, OthersUntouched
    <2>. QED  BY <1>15, <2>1
  <1>17. FilesExclude'
    BY <1>1 DEF LocksIInv, FilesExclude
  <1>. QED  BY <1>9, <1>11, <1>13, <1>14, <1>16, <1>17 DEF LocksIInv

LEMMA UnregisterKeeps == ASSUME LocksIInv, NEW t \in Threads, Unregister(t) PROVE LocksIInv'
  <1>1. /\ LockTyped /\ CallSound(t) /\ turn[t] = "leaving" /\ locked[t] = {}
        /\ Registered(t) # {} /\ UNCHANGED <<turn, wants, locked, files>>
    BY DEF LocksIInv, Unregister
  <1>2. PICK p \in Paths : p = Max(Registered(t)) /\ p \in Registered(t)
    <2>1. Registered(t) \subseteq Paths
      BY DEF Registered
    <2>2. IsFiniteSet(Registered(t)) /\ Registered(t) \subseteq Nat
      BY <2>1, LockConstants, FS_Subset
    <2>. QED  BY <1>1, <2>1, <2>2, MinMaxFacts
  <1>3. PICK q \in Processes : q = ProcessOf[t]
    BY LockConstants
  <1>4. PICK e \in Entries : e = entry[t][p] /\ e = registry[q][p]
    <2>1. entry[t][p] \in Entries
      BY <1>1, <1>2 DEF LockTyped, Registered
    <2>. QED  BY <1>2, <1>3, <2>1 DEF LocksIInv, EntrySound
  <1>5. /\ entry' = [entry EXCEPT ![t][p] = NoEntry]
        /\ users' = [users EXCEPT ![e] = users[e] - 1]
        /\ registry' = IF users[e] <= 1 THEN [registry EXCEPT ![q][p] = NoEntry] ELSE registry
    BY <1>2, <1>3, <1>4 DEF Unregister
  <1>6. e # NoEntry
    BY EntriesAssumption
  <1>7. /\ IsFiniteSet(Using(q, p)) /\ Cardinality(Using(q, p)) \in Nat
        /\ t \in Using(q, p) /\ users[e] = Cardinality(Using(q, p))
    <2>1. t \in Using(q, p)
      BY <1>2, <1>3 DEF Using
    <2>2. Counted(q, p)
      BY <1>2 DEF LocksIInv
    <2>3. users[e] = Cardinality(Using(q, p))
      BY <1>4, <1>6, <2>2 DEF Counted
    <2>. QED  BY <2>1, <2>3, UsingIsFinite
  <1>8. /\ IsFiniteSet(Using(q, p) \ {t})
        /\ Cardinality(Using(q, p) \ {t}) = users[e] - 1 /\ users[e] - 1 \in Nat
        /\ Using(q, p) \ {t} = {} <=> users[e] - 1 = 0
    <2>1. /\ IsFiniteSet(Using(q, p) \ {t})
          /\ Cardinality(Using(q, p) \ {t}) = Cardinality(Using(q, p)) - 1
      BY <1>7, FS_RemoveElement
    <2>. QED  BY <1>7, <2>1, FS_CardinalityType, FS_EmptySet
  <1>9. LockTyped'
    BY <1>1, <1>5, <1>8 DEF LockTyped
  <1>10. /\ registry'[q][p] = IF users[e] <= 1 THEN NoEntry ELSE e
         /\ \A r \in Processes, o \in Paths : r # q \/ o # p => registry'[r][o] = registry[r][o]
    BY <1>1, <1>2, <1>4, <1>5 DEF LockTyped
  <1>11. EntriesDiffer'
    <2>. SUFFICES ASSUME NEW r \in Processes, NEW s \in Processes, NEW o \in Paths,
                         NEW z \in Paths,
                         registry'[r][o] # NoEntry, registry'[r][o] = registry'[s][z]
                  PROVE  r = s /\ o = z
      BY DEF EntriesDiffer
    <2>1. /\ registry'[r][o] = registry[r][o]
          /\ registry'[s][z] = registry[s][z]
      BY <1>4, <1>10
    <2>2. EntriesDiffer
      BY DEF LocksIInv
    <2>3. registry[r][o] # NoEntry /\ registry[r][o] = registry[s][z]
      BY <2>1
    <2>. QED  BY <2>2, <2>3 DEF EntriesDiffer
  <1>12. /\ \A u \in Threads, o \in Paths : u # t \/ o # p => entry'[u][o] = entry[u][o]
         /\ \A u \in Threads : Registered(u)' =
              IF u # t THEN Registered(u) ELSE Registered(t) \ {p}
         /\ \A r \in Processes, o \in Paths : Using(r, o)' =
              IF r # q \/ o # p THEN Using(r, o) ELSE Using(r, o) \ {t}
    <2>1. PICK n \in Entries \cup {NoEntry} : n = NoEntry
      OBVIOUS
    <2>2. entry' = [entry EXCEPT ![t][p] = n]
      BY <1>5, <2>1
    <2>3. UsesAfter(t, p, n)
      BY <1>1, <2>2, UsingAfter
    <2>. QED  BY <1>3, <2>1, <2>3 DEF UsesAfter
  <1>13. ASSUME NEW r \in Processes, NEW o \in Paths PROVE Counted(r, o)'
    <2>1. CASE r = q /\ o = p
      <3>1. Using(r, o)' = Using(q, p) \ {t}
        BY <1>12, <2>1
      <3>2. users'[e] = users[e] - 1
        BY <1>1, <1>5 DEF LockTyped
      <3>3. CASE users[e] <= 1
        <4>1. Using(r, o)' = {}
          BY <1>7, <1>8, <3>1, <3>3
        <4>. QED  BY <1>10, <2>1, <3>3, <4>1 DEF Counted
      <3>4. CASE ~(users[e] <= 1)
        <4>1. Using(r, o)' # {}
          BY <1>8, <3>1, <3>4
        <4>. QED  BY <1>6, <1>8, <1>10, <2>1, <3>1, <3>2, <3>4, <4>1 DEF Counted
      <3>. QED  BY <3>3, <3>4
    <2>2. CASE ~(r = q /\ o = p)
      <3>1. Using(r, o)' = Using(r, o) /\ registry'[r][o] = registry[r][o]
        BY <1>10, <1>12, <2>2
      <3>2. registry[r][o] # NoEntry => registry[r][o] # e
        BY <1>2, <1>4, <2>2 DEF LocksIInv, EntriesDiffer
      <3>3. registry[r][o] # NoEntry => users'[registry[r][o]] = users[registry[r][o]]
        BY <1>1, <1>5, <3>2 DEF LockTyped
      <3>. QED  BY <3>1, <3>3 DEF LocksIInv, Counted
    <2>. QED  BY <2>1, <2>2
  <1>14. ASSUME NEW u \in Threads PROVE EntrySound(u)'
    <2>. SUFFICES ASSUME NEW o \in Registered(u)'
                  PROVE  entry'[u][o] = registry'[ProcessOf[u]][o]
      BY DEF EntrySound
    <2>1. o \in Paths /\ ProcessOf[u] \in Processes
      BY LockConstants DEF Registered
    <2>2. o \in Registered(u) /\ ~(u = t /\ o = p)
      BY <1>12
    <2>3. entry'[u][o] = registry[ProcessOf[u]][o]
      BY <1>12, <2>1, <2>2 DEF LocksIInv, EntrySound
    <2>4. CASE ProcessOf[u] = q /\ o = p
      <3>1. u \in Using(q, p) \ {t}
        BY <2>2, <2>4 DEF Using
      <3>2. ~(users[e] <= 1)
        BY <1>7, <1>8, <3>1
      <3>. QED  BY <1>4, <1>10, <2>3, <2>4, <3>2
    <2>5. CASE ~(ProcessOf[u] = q /\ o = p)
      BY <1>10, <2>1, <2>3, <2>5
    <2>. QED  BY <2>4, <2>5
  <1>15. CallSound(t)'
    <2>1. locked[t] = {} /\ files[t] = {}
      BY <1>1, HoldsNothing
    <2>2. Registered(t)' = Registered(t) \ {p} /\ ShardsOf(t)' = ShardsOf(t)
      BY <1>1, <1>12 DEF ShardsOf
    <2>. QED  BY <1>1, <2>1, <2>2 DEF CallSound
  <1>16. ASSUME NEW u \in Threads PROVE CallSound(u)'
    <2>1. CASE u # t
      <3>1. entry'[u] = entry[u]
        BY <1>1, <1>5, <2>1 DEF LockTyped
      <3>. QED  BY <1>1, <3>1, OthersUntouched
    <2>. QED  BY <1>15, <2>1
  <1>17. FilesExclude'
    BY <1>1 DEF LocksIInv, FilesExclude
  <1>. QED  BY <1>9, <1>11, <1>13, <1>14, <1>16, <1>17 DEF LocksIInv

LEMMA LocksKeep == LocksIInv /\ [PathLocksNext]_lockvars => LocksIInv'
  <1>. SUFFICES ASSUME LocksIInv, [PathLocksNext]_lockvars PROVE LocksIInv'
    OBVIOUS
  <1>1. ASSUME NEW t \in Threads, LockStep(t) PROVE LocksIInv'
    BY <1>1, CallKeeps, RegisterKeeps, TakeLockKeeps, TakeFileKeeps, TurnKeeps, UnlockKeeps,
       UnregisterKeeps, ReturnKeeps DEF LockStep
  <1>2. CASE UNCHANGED lockvars
    <2>1. UNCHANGED <<turn, wants, entry, locked, files, registry, users>>
      BY <1>2 DEF lockvars
    <2>2. LockTyped' /\ FilesExclude'
      BY <2>1 DEF LocksIInv, LockTyped, FilesExclude
    <2>3. \A u \in Threads : CallSound(u)'
      BY <2>1, OthersUntouched
    <2>4. /\ EntriesDiffer' /\ \A q \in Processes, p \in Paths : Counted(q, p)'
          /\ \A u \in Threads : EntrySound(u)'
      BY <2>1, EntriesUntouched
    <2>. QED  BY <2>2, <2>3, <2>4 DEF LocksIInv
  <1>. QED  BY <1>1, <1>2 DEF PathLocksNext

-----------------------------------------------------------------------------
(* Path locks: what it promises                                              *)

LEMMA LocksExclude == LocksIInv => Exclusion
  <1>. SUFFICES ASSUME LocksIInv, NEW t \in Threads, NEW u \in Threads, t # u
                PROVE  /\ ~(turn[t] = "held" /\ turn[u] = "held" /\ wants[t] \cap wants[u] # {})
                       /\ ProcessOf[t] = ProcessOf[u] =>
                            \A p \in Registered(t) \cap Registered(u) :
                              entry[t][p] = entry[u][p]
    BY DEF Exclusion
  <1>1. CallSound(t) /\ CallSound(u) /\ EntrySound(t) /\ EntrySound(u) /\ FilesExclude
    BY DEF LocksIInv
  <1>2. ASSUME turn[t] = "held", turn[u] = "held", NEW p \in wants[t] \cap wants[u] PROVE FALSE
    <2>1. ShardOf[p] \in ShardsOf(t) /\ ShardOf[p] \in ShardsOf(u)
      BY DEF ShardsOf
    <2>2. files[t] = ShardsOf(t) /\ files[u] = ShardsOf(u)
      BY <1>1, <1>2 DEF CallSound
    <2>. QED  BY <1>1, <2>1, <2>2 DEF FilesExclude
  <1>. QED  BY <1>1, <1>2 DEF EntrySound

LEMMA EntriesCounted == LocksIInv => EntriesAreCounted
  BY DEF LocksIInv, Counted, Using, EntriesAreCounted

\* The thread that waits for the greatest shard waits for a thread that goes on, and
\* when none waits for a shard, so does the one that waits for the greatest path.
LEMMA SomeoneGoesOn == LocksIInv => NoCircularWait
  <1>. SUFFICES ASSUME LocksIInv, \E t \in Threads : Waits(t),
                       \A t \in Threads : turn[t] # "idle" => Waits(t)
                PROVE  FALSE
    BY DEF NoCircularWait
  <1>. DEFINE ForShard(t) == turn[t] = "taking" /\ locked[t] = wants[t]
                               /\ files[t] # ShardsOf(t) /\ ~FileFree(NextShard(t))
              ForPath(t) == turn[t] = "taking" /\ Registered(t) = wants[t]
                               /\ locked[t] # wants[t] /\ ~EntryFree(t, NextPath(t))
              S == {NextShard(t) : t \in {u \in Threads : ForShard(u)}}
              P == {NextPath(t) : t \in {u \in Threads : ForPath(u)}}
  <1>1. LockTyped /\ \A t \in Threads : CallSound(t)
    BY DEF LocksIInv
  <1>2. \A t \in Threads : Waits(t) <=> ForShard(t) \/ ForPath(t)
    BY DEF Waits
  <1>3. ASSUME NEW t \in Threads, ForShard(t)
        PROVE  /\ NextShard(t) \in Shards /\ NextShard(t) \notin files[t]
               /\ \A s \in files[t] : s < NextShard(t)
    <2>1. /\ files[t] \subseteq ShardsOf(t) /\ Ordered(files[t], ShardsOf(t))
          /\ files[t] # ShardsOf(t)
      BY <1>1, <1>3 DEF CallSound
    <2>2. NextShard(t) \in ShardsOf(t) \ files[t] /\ ShardsOf(t) \subseteq Shards
      BY <1>1, <2>1, NextFacts
    <2>. QED  BY <2>1, <2>2 DEF Ordered
  <1>4. ASSUME NEW t \in Threads, ForPath(t)
        PROVE  /\ NextPath(t) \in Paths /\ NextPath(t) \notin locked[t]
               /\ \A p \in locked[t] : p < NextPath(t)
    <2>1. /\ locked[t] \subseteq wants[t] /\ Ordered(locked[t], wants[t])
          /\ locked[t] # wants[t]
      BY <1>1, <1>4 DEF CallSound
    <2>2. NextPath(t) \in wants[t] \ locked[t] /\ wants[t] \subseteq Paths
      BY <1>1, <2>1, NextFacts
    <2>. QED  BY <2>1, <2>2 DEF Ordered
  <1>5. ASSUME NEW t \in Threads, ForShard(t)
        PROVE  \E u \in Threads : ForShard(u) /\ NextShard(t) < NextShard(u)
    <2>1. PICK u \in Threads : NextShard(t) \in files[u]
      BY <1>5 DEF FileFree
    <2>2. locked[u] = wants[u] /\ turn[u] # "idle"
      BY <1>1, <2>1 DEF CallSound, ShardsOf
    <2>3. ForShard(u)
      BY <1>2, <2>2
    <2>. QED  BY <1>3, <2>1, <2>3
  <1>6. ASSUME NEW t \in Threads, ForPath(t), \A u \in Threads : ~ForShard(u)
        PROVE  \E u \in Threads : ForPath(u) /\ NextPath(t) < NextPath(u)
    <2>1. PICK u \in Threads : NextPath(t) \in locked[u]
      BY <1>6 DEF EntryFree
    <2>2. turn[u] # "idle"
      BY <1>1, <2>1 DEF CallSound
    <2>3. ForPath(u)
      BY <1>2, <1>6, <2>2
    <2>. QED  BY <1>4, <2>1, <2>3
  <1>7. S \subseteq Shards /\ P \subseteq Paths
    BY <1>3, <1>4
  <1>8. IsFiniteSet(S) /\ S \subseteq Nat /\ IsFiniteSet(P) /\ P \subseteq Nat
    <2>. HIDE DEF S, P
    <2>. QED  BY <1>7, LockConstants, FS_Subset
  <1>9. CASE \E t \in Threads : ForShard(t)
    <2>1. S # {}
      BY <1>9
    <2>2. PICK s \in S : \A z \in S : s >= z
      <3>. HIDE DEF S
      <3>. QED  BY <1>8, <2>1, ExtremesExist
    <2>3. PICK t \in Threads : ForShard(t) /\ s = NextShard(t)
      BY <2>2
    <2>4. PICK u \in Threads : ForShard(u) /\ NextShard(t) < NextShard(u)
      BY <1>5, <2>3
    <2>5. NextShard(u) \in S
      BY <2>4
    <2>6. NextShard(u) \in Nat /\ s \in Nat /\ s >= NextShard(u)
      BY <1>8, <2>2, <2>5
    <2>. QED  BY <2>3, <2>4, <2>6
  <1>10. CASE \A t \in Threads : ~ForShard(t)
    <2>1. P # {}
      BY <1>2, <1>10
    <2>2. PICK p \in P : \A z \in P : p >= z
      <3>. HIDE DEF P
      <3>. QED  BY <1>8, <2>1, ExtremesExist
    <2>3. PICK t \in Threads : ForPath(t) /\ p = NextPath(t)
      BY <2>2
    <2>4. PICK u \in Threads : ForPath(u) /\ NextPath(t) < NextPath(u)
      BY <1>6, <1>10, <2>3
    <2>5. NextPath(u) \in P
      BY <2>4
    <2>6. NextPath(u) \in Nat /\ p \in Nat /\ p >= NextPath(u)
      BY <1>8, <2>2, <2>5
    <2>. QED  BY <2>3, <2>4, <2>6
  <1>. QED  BY <1>9, <1>10

\* However many threads of however many processes ask for whatever paths: no two hold
\* a path at once, entries live exactly as long as their users, and the locks of paths
\* and shards never wait for one another in a circle (path_locks).
THEOREM LocksAreSound == PathLocksSpec => []PathLocksInv
  <1>1. LocksIInv => PathLocksInv
    BY LocksExclude, EntriesCounted, SomeoneGoesOn DEF PathLocksInv
  <1>. QED  BY <1>1, LocksStart, LocksKeep, PTL DEF PathLocksSpec

-----------------------------------------------------------------------------
(* The pairing service, for any executors and bearers, any finite set of   *)
(* attempts and any limit on them                                          *)

Attempts == [state : {"none", "pending", "denied", "approved", "gone"},
             executor : Executors \cup {NoExecutor}, cred : Creds \cup {NoCred}]

\* Only an approved attempt carries anything, and it carries what was issued
\* for it.
CarriesItsOwn ==
    \A d \in Devices :
        /\ attempt[d].state # "approved" =>
               attempt[d].executor = NoExecutor /\ attempt[d].cred = NoCred
        /\ attempt[d].state = "approved" =>
               /\ attempt[d].executor \in Executors /\ attempt[d].cred \in Creds
               /\ issued[attempt[d].cred]
                      = [device |-> d, executor |-> attempt[d].executor]

\* What an approval knows when its executor's streams are closed: its attempt is
\* still undecided, and its bearer the current one, never fetched or proved.
ApprovalStands ==
    ~LockFree =>
        /\ approving.device \in Devices /\ approving.executor \in Executors
        /\ approving.cred \in Creds /\ approving.cred \notin proved
        /\ attempt[approving.device].state = "pending"
        /\ trust[approving.executor].cred = approving.cred
        /\ issued[approving.cred]
               = [device |-> approving.device, executor |-> approving.executor]
        /\ trust[approving.executor].revoked =>
               approving.executor \in clearing \cup uncleared

ProofsAreIssued == \A c \in proving \cup proved : ~Fresh(c)

RevokedHadBearer == \A e \in Executors : trust[e].cred = NoCred => ~trust[e].revoked

IInv == /\ Inv /\ CarriesItsOwn /\ ApprovalStands /\ ProofsAreIssued
        /\ RevokedHadBearer

-----------------------------------------------------------------------------

LEMMA GoneFacts ==
    /\ Gone \in Attempts /\ None \in Attempts
    /\ Gone.state = "gone" /\ Gone.executor = NoExecutor /\ Gone.cred = NoCred
    /\ None.state = "none" /\ None.executor = NoExecutor /\ None.cred = NoCred
BY DEF Gone, None, Attempts

\* Fewer live attempts stay within the limit.
LEMMA LiveShrinks ==
    ASSUME AttemptsBounded, Live' \subseteq Live
    PROVE  AttemptsBounded'
<1>1. IsFiniteSet(Live)
  BY FiniteDevices, FS_Subset DEF Live
<1>2. IsFiniteSet(Live') /\ Cardinality(Live') <= Cardinality(Live)
  BY <1>1, FS_Subset
<1>3. Cardinality(Live) \in Nat /\ Cardinality(Live') \in Nat
  BY <1>1, <1>2, FS_CardinalityType
<1>4. QED
  BY <1>2, <1>3, MaxAttemptsAssumption DEF AttemptsBounded

\* Attempts that are only withdrawn disturb nothing.
LEMMA Withdrawal ==
    ASSUME IInv, attempt' \in [Devices -> Attempts],
           \A d \in Devices : attempt'[d] \in {attempt[d], Gone},
           UNCHANGED <<trust, held, issued>>
    PROVE  /\ Live' \subseteq Live /\ AttemptsBounded'
           /\ HeldByItsDevice' /\ CarriesItsOwn'
           /\ \A d \in Devices : attempt'[d].cred # NoCred =>
                 attempt'[d] = attempt[d]
<1> USE GoneFacts
<1>1. Live' \subseteq Live
  BY DEF Live
<1>2. AttemptsBounded
  BY DEF IInv, Inv
<1>3. AttemptsBounded'
  BY <1>1, <1>2, LiveShrinks
<1>4. HeldByItsDevice'
  BY DEF IInv, Inv, HeldByItsDevice
<1>5. CarriesItsOwn'
  BY DEF IInv, CarriesItsOwn
<1>6. QED
  BY <1>1, <1>3, <1>4, <1>5

LEMMA InitEstablishes == Init => IInv
<1> SUFFICES ASSUME Init PROVE IInv
    OBVIOUS
<1>1. TypeOK
  BY NoneAssumption DEF Init, TypeOK, None, Idle
<1>2. Live = {}
  BY GoneFacts DEF Init, Live
<1>3. AttemptsBounded
  BY <1>2, FS_EmptySet, MaxAttemptsAssumption DEF AttemptsBounded
<1>4. HeldByItsDevice /\ DeliveryIsCurrent /\ RevokedIsNotDelivered /\ ProvedIsErased
  BY GoneFacts DEF Init, HeldByItsDevice, DeliveryIsCurrent, RevokedIsNotDelivered,
                   ProvedIsErased
<1>5. CarriesItsOwn /\ ApprovalStands /\ ProofsAreIssued /\ RevokedHadBearer
  BY GoneFacts DEF Init, CarriesItsOwn, ApprovalStands, ProofsAreIssued, LockFree,
                   RevokedHadBearer
<1>6. QED
  BY <1>1, <1>3, <1>4, <1>5 DEF IInv, Inv

LEMMA StartPairingPreserves ==
    ASSUME IInv, NEW d \in Devices, StartPairing(d) PROVE IInv'
<1> USE GoneFacts
<1>1. /\ LockFree /\ attempt[d].state = "none" /\ Cardinality(Live) < MaxAttempts
      /\ attempt' = [attempt EXCEPT ![d].state = "pending"]
      /\ UNCHANGED <<trust, approving, clearing, proving, held, issued, proved, stale,
                     uncleared>>
  BY DEF StartPairing, HasRoom, history
<1>2. TypeOK
  BY DEF IInv, Inv
<1>3. \A x \in Devices : /\ attempt'[x].executor = attempt[x].executor
                         /\ attempt'[x].cred = attempt[x].cred
                         /\ x # d => attempt'[x] = attempt[x]
  BY <1>1, <1>2 DEF TypeOK
<1>4. attempt'[d].state = "pending"
  BY <1>1, <1>2 DEF TypeOK
<1>5. TypeOK'
  BY <1>1, <1>2 DEF TypeOK
<1>6. AttemptsBounded'
  <2>1. IsFiniteSet(Live)
    BY FiniteDevices, FS_Subset DEF Live
  <2>2. Live' = Live \cup {d} /\ d \notin Live
    BY <1>1, <1>3, <1>4 DEF Live
  <2>3. Cardinality(Live') = Cardinality(Live) + 1 /\ Cardinality(Live) \in Nat
    BY <2>1, <2>2, FS_AddElement, FS_CardinalityType
  <2>4. QED
    BY <1>1, <2>3, MaxAttemptsAssumption DEF AttemptsBounded
<1>7. HeldByItsDevice' /\ DeliveryIsCurrent' /\ RevokedIsNotDelivered' /\ ProvedIsErased'
  BY <1>1, <1>3 DEF IInv, Inv, HeldByItsDevice, DeliveryIsCurrent,
                    RevokedIsNotDelivered, ProvedIsErased, Carries
<1>8. CarriesItsOwn'
  BY <1>1, <1>3, <1>4 DEF IInv, CarriesItsOwn
<1>9. ApprovalStands' /\ ProofsAreIssued' /\ RevokedHadBearer'
  BY <1>1 DEF IInv, ApprovalStands, ProofsAreIssued, LockFree, Fresh, RevokedHadBearer
<1>10. QED
  BY <1>5, <1>6, <1>7, <1>8, <1>9 DEF IInv, Inv

LEMMA DenyPreserves ==
    ASSUME IInv, NEW d \in Devices, Deny(d) PROVE IInv'
<1> USE GoneFacts
<1>1. /\ LockFree /\ attempt[d].state = "pending"
      /\ attempt' = [attempt EXCEPT ![d].state = "denied"]
      /\ UNCHANGED <<trust, approving, clearing, proving, held, issued, proved, stale,
                     uncleared>>
  BY DEF Deny, Undecided, history
<1>2. TypeOK /\ AttemptsBounded
  BY DEF IInv, Inv
<1>3. \A x \in Devices : /\ attempt'[x].executor = attempt[x].executor
                         /\ attempt'[x].cred = attempt[x].cred
                         /\ x # d => attempt'[x] = attempt[x]
  BY <1>1, <1>2 DEF TypeOK
<1>4. attempt'[d].state = "denied"
  BY <1>1, <1>2 DEF TypeOK
<1>5. TypeOK'
  BY <1>1, <1>2 DEF TypeOK
<1>6. AttemptsBounded'
  <2>1. Live' \subseteq Live
    BY <1>1, <1>3 DEF Live
  <2>2. QED
    BY <2>1, <1>2, LiveShrinks
<1>7. HeldByItsDevice' /\ DeliveryIsCurrent' /\ RevokedIsNotDelivered' /\ ProvedIsErased'
  BY <1>1, <1>3 DEF IInv, Inv, HeldByItsDevice, DeliveryIsCurrent,
                    RevokedIsNotDelivered, ProvedIsErased, Carries
<1>8. CarriesItsOwn'
  BY <1>1, <1>3, <1>4 DEF IInv, CarriesItsOwn
<1>9. ApprovalStands' /\ ProofsAreIssued' /\ RevokedHadBearer'
  BY <1>1 DEF IInv, ApprovalStands, ProofsAreIssued, LockFree, Fresh, RevokedHadBearer
<1>10. QED
  BY <1>5, <1>6, <1>7, <1>8, <1>9 DEF IInv, Inv

LEMMA WithoutFacts ==
    ASSUME TypeOK, NEW gone
    PROVE  /\ Without(gone) \in [Devices -> Attempts]
           /\ \A d \in Devices : Without(gone)[d] = IF d \in gone THEN Gone ELSE attempt[d]
BY GoneFacts DEF Without, TypeOK, Attempts

LEMMA ExpirePreserves ==
    ASSUME IInv, NEW d \in Devices, Expire(d) PROVE IInv'
<1> USE GoneFacts
<1>1. /\ LockFree /\ attempt' = Without({d})
      /\ UNCHANGED <<trust, approving, clearing, proving, held, issued, proved, stale,
                     uncleared>>
  BY DEF Expire, history
<1>2. TypeOK
  BY DEF IInv, Inv
<1>3. /\ attempt' \in [Devices -> Attempts]
      /\ \A x \in Devices : attempt'[x] \in {attempt[x], Gone}
  BY <1>1, <1>2, WithoutFacts
<1>4. /\ AttemptsBounded' /\ HeldByItsDevice' /\ CarriesItsOwn'
      /\ \A x \in Devices : attempt'[x].cred # NoCred => attempt'[x] = attempt[x]
  BY <1>1, <1>3, Withdrawal
<1>5. TypeOK'
  BY <1>1, <1>2, <1>3 DEF TypeOK, Attempts
<1>6. DeliveryIsCurrent' /\ RevokedIsNotDelivered'
  BY <1>1, <1>4 DEF IInv, Inv, DeliveryIsCurrent, RevokedIsNotDelivered, Carries
<1>7. ProvedIsErased'
  BY <1>1, <1>3, <1>2, NoneAssumption, ZenonT(60) DEF IInv, Inv, ProvedIsErased, TypeOK
<1>8. ApprovalStands' /\ ProofsAreIssued' /\ RevokedHadBearer'
  BY <1>1 DEF IInv, ApprovalStands, ProofsAreIssued, LockFree, Fresh, RevokedHadBearer
<1>9. QED
  BY <1>4, <1>5, <1>6, <1>7, <1>8 DEF IInv, Inv

LEMMA CompleteProofPreserves ==
    ASSUME IInv, NEW c \in Creds, CompleteProof(c) PROVE IInv'
<1> USE GoneFacts
<1>1. /\ LockFree /\ c \in proving
      /\ attempt' = Without({d \in Devices : attempt[d].cred = c})
      /\ proving' = proving \ {c} /\ proved' = proved \cup {c}
      /\ UNCHANGED <<trust, approving, clearing, held, issued, stale, uncleared>>
  BY DEF CompleteProof
<1>2. TypeOK
  BY DEF IInv, Inv
<1>3. /\ attempt' \in [Devices -> Attempts]
      /\ \A x \in Devices : attempt'[x] = IF attempt[x].cred = c THEN Gone ELSE attempt[x]
  BY <1>1, <1>2, WithoutFacts
<1>4. /\ AttemptsBounded' /\ HeldByItsDevice' /\ CarriesItsOwn'
      /\ \A x \in Devices : attempt'[x].cred # NoCred => attempt'[x] = attempt[x]
  BY <1>1, <1>3, Withdrawal
<1>5. TypeOK'
  BY <1>1, <1>2, <1>3 DEF TypeOK, Attempts
<1>6. DeliveryIsCurrent' /\ RevokedIsNotDelivered'
  BY <1>1, <1>4 DEF IInv, Inv, DeliveryIsCurrent, RevokedIsNotDelivered, Carries
<1>7. ProvedIsErased'
  BY <1>1, <1>3, <1>2, NoneAssumption DEF IInv, Inv, ProvedIsErased, TypeOK
<1>8. ApprovalStands' /\ ProofsAreIssued' /\ RevokedHadBearer'
  BY <1>1 DEF IInv, ApprovalStands, ProofsAreIssued, LockFree, Fresh, RevokedHadBearer
<1>9. QED
  BY <1>4, <1>5, <1>6, <1>7, <1>8 DEF IInv, Inv

LEMMA ClearDeliveryPreserves ==
    ASSUME IInv, NEW e \in Executors, ClearDelivery(e) PROVE IInv'
<1> USE GoneFacts
<1>1. /\ LockFree /\ attempt' = Without({d \in Devices : Carries(d, e)})
      /\ clearing' = clearing \ {e}
      /\ UNCHANGED <<trust, approving, proving, held, issued, proved, stale, uncleared>>
  BY DEF ClearDelivery, history
<1>2. TypeOK
  BY DEF IInv, Inv
<1>3. /\ attempt' \in [Devices -> Attempts]
      /\ \A x \in Devices : attempt'[x] = IF Carries(x, e) THEN Gone ELSE attempt[x]
  BY <1>1, <1>2, WithoutFacts
<1>4. /\ AttemptsBounded' /\ HeldByItsDevice' /\ CarriesItsOwn'
      /\ \A x \in Devices : attempt'[x].cred # NoCred => attempt'[x] = attempt[x]
  BY <1>1, <1>3, Withdrawal
<1>5. TypeOK'
  BY <1>1, <1>2, <1>3 DEF TypeOK, Attempts
<1>6. DeliveryIsCurrent'
  BY <1>1, <1>4 DEF IInv, Inv, DeliveryIsCurrent
<1>7. RevokedIsNotDelivered'
  BY <1>1, <1>3, <1>4 DEF IInv, Inv, RevokedIsNotDelivered, Carries
<1>8. ProvedIsErased'
  BY <1>1, <1>3, <1>2, NoneAssumption DEF IInv, Inv, ProvedIsErased, TypeOK
<1>9. ApprovalStands' /\ ProofsAreIssued' /\ RevokedHadBearer'
  BY <1>1 DEF IInv, ApprovalStands, ProofsAreIssued, LockFree, Fresh, RevokedHadBearer
<1>10. QED
  BY <1>4, <1>5, <1>6, <1>7, <1>8, <1>9 DEF IInv, Inv

LEMMA ControlRestartsPreserves ==
    ASSUME IInv, ControlRestarts PROVE IInv'
<1> USE GoneFacts
<1>1. /\ attempt' = [d \in Devices |-> IF d \in Live THEN Gone ELSE attempt[d]]
      /\ approving' = Idle /\ clearing' = {} /\ proving' = {}
      /\ stale' = {} /\ uncleared' = {}
      /\ UNCHANGED <<trust, held, issued, proved>>
  BY DEF ControlRestarts
<1>2. TypeOK /\ CarriesItsOwn
  BY DEF IInv, Inv
<1>3. /\ attempt' \in [Devices -> Attempts]
      /\ \A x \in Devices : attempt'[x] \in {attempt[x], Gone}
  BY <1>1, <1>2 DEF TypeOK, Attempts
<1>4. /\ AttemptsBounded' /\ HeldByItsDevice' /\ CarriesItsOwn'
  BY <1>1, <1>3, Withdrawal
<1>5. \A x \in Devices : attempt'[x].cred = NoCred
  BY <1>1, <1>2 DEF CarriesItsOwn, Live
<1>6. TypeOK'
  <2>1. Idle \in [device : Devices \cup {NoDevice},
                  executor : Executors \cup {NoExecutor}, cred : Creds \cup {NoCred}]
    BY DEF Idle
  <2>2. QED
    BY <1>1, <1>2, <1>3, <2>1 DEF TypeOK, Attempts
<1>7. DeliveryIsCurrent' /\ RevokedIsNotDelivered'
  BY <1>5 DEF DeliveryIsCurrent, RevokedIsNotDelivered, Carries
<1>8. ProvedIsErased'
  BY <1>1, <1>2, <1>5, NoneAssumption DEF ProvedIsErased, TypeOK
<1>9. ApprovalStands' /\ ProofsAreIssued' /\ RevokedHadBearer'
  BY <1>1 DEF IInv, ApprovalStands, ProofsAreIssued, LockFree, Fresh, RevokedHadBearer
<1>10. QED
  BY <1>4, <1>6, <1>7, <1>8, <1>9 DEF IInv, Inv

\* What a recorded approval leaves: the device carries the bearer, nobody else
\* carries one of that executor.
LEMMA Approval ==
    ASSUME IInv, NEW d \in Devices, NEW e \in Executors, NEW c \in Creds,
           attempt[d].state = "pending", attempt' = Approved(d, e, c)
    PROVE  /\ attempt' \in [Devices -> Attempts]
           /\ attempt'[d] = [state |-> "approved", executor |-> e, cred |-> c]
           /\ \A x \in Devices \ {d} : attempt'[x] = IF Carries(x, e) THEN Gone ELSE attempt[x]
           /\ Live' \subseteq Live
<1> USE GoneFacts
<1> DEFINE others == {x \in Devices : x # d /\ Carries(x, e)}
<1>1. TypeOK
  BY DEF IInv, Inv
<1>2. attempt' = [Without(others)
                    EXCEPT ![d] = [state |-> "approved", executor |-> e, cred |-> c]]
  BY DEF Approved
<1>3. /\ Without(others) \in [Devices -> Attempts]
      /\ \A x \in Devices : Without(others)[x] = IF x \in others THEN Gone ELSE attempt[x]
  BY <1>1, WithoutFacts
<1>4. [state |-> "approved", executor |-> e, cred |-> c] \in Attempts
  BY DEF Attempts
<1> HIDE DEF others
<1>5. /\ attempt' \in [Devices -> Attempts]
      /\ attempt'[d] = [state |-> "approved", executor |-> e, cred |-> c]
      /\ \A x \in Devices \ {d} : attempt'[x] = IF x \in others THEN Gone ELSE attempt[x]
  BY <1>2, <1>3, <1>4
<1>6. \A x \in Devices \ {d} : attempt'[x] = IF Carries(x, e) THEN Gone ELSE attempt[x]
  BY <1>5 DEF others
<1>7. Live' \subseteq Live
  BY <1>5, <1>6 DEF Live
<1>8. QED
  BY <1>5, <1>6, <1>7

LEMMA ApproveNewPreserves ==
    ASSUME IInv, NEW d \in Devices, NEW e \in Executors, NEW c \in Creds,
           ApproveNew(d, e, c)
    PROVE  IInv'
<1> USE GoneFacts, NoneAssumption
<1>1. /\ LockFree /\ attempt[d].state = "pending" /\ Fresh(c)
      /\ trust' = [trust EXCEPT ![e].cred = c]
      /\ issued' = [issued EXCEPT ![c] = [device |-> d, executor |-> e]]
      /\ attempt' = Approved(d, e, c) /\ trust[e].cred = NoCred
      /\ UNCHANGED <<approving, clearing, proving, held, proved, stale, uncleared>>
  BY DEF ApproveNew, Undecided
<1>2. TypeOK /\ AttemptsBounded /\ CarriesItsOwn
  BY DEF IInv, Inv
<1>3. /\ attempt' \in [Devices -> Attempts]
      /\ attempt'[d] = [state |-> "approved", executor |-> e, cred |-> c]
      /\ \A x \in Devices \ {d} : attempt'[x] = IF Carries(x, e) THEN Gone ELSE attempt[x]
      /\ Live' \subseteq Live
  BY <1>1, Approval
<1>4. /\ trust' \in [Executors -> [cred : Creds \cup {NoCred}, revoked : BOOLEAN]]
      /\ trust'[e].cred = c /\ trust'[e].revoked = trust[e].revoked
      /\ \A f \in Executors \ {e} : trust'[f] = trust[f]
  BY <1>1, <1>2 DEF TypeOK
<1>5. /\ issued' \in [Creds -> [device : Devices \cup {NoDevice},
                                executor : Executors \cup {NoExecutor}]]
      /\ issued'[c] = [device |-> d, executor |-> e]
      /\ \A b \in Creds \ {c} : issued'[b] = issued[b]
  BY <1>1, <1>2 DEF TypeOK
<1>6. \A b \in Creds : issued[b].device # NoDevice => issued'[b] = issued[b]
  BY <1>1, <1>5 DEF Fresh
<1>7. TypeOK'
  BY <1>1, <1>2, <1>3, <1>4, <1>5 DEF TypeOK, Attempts
<1>8. AttemptsBounded'
  BY <1>2, <1>3, LiveShrinks
<1>9. HeldByItsDevice'
  BY <1>1, <1>2, <1>6 DEF IInv, Inv, HeldByItsDevice, TypeOK
<1>10. CarriesItsOwn'
  BY <1>2, <1>3, <1>5, <1>6 DEF CarriesItsOwn
<1>11. DeliveryIsCurrent'
  BY <1>1, <1>3, <1>4 DEF IInv, Inv, DeliveryIsCurrent, Carries
<1>12. RevokedIsNotDelivered'
  <2>1. \A f \in Executors, x \in Devices :
           trust'[f].revoked /\ attempt'[x].executor = f /\ attempt'[x].cred # NoCred
             => x # d /\ f # e
    BY <1>1, <1>3, <1>4 DEF IInv, RevokedHadBearer, Carries
  <2>2. \A f \in Executors, x \in Devices :
           trust'[f].revoked /\ attempt'[x].executor = f /\ attempt'[x].cred # NoCred
             => trust[f].revoked /\ Carries(x, f)
    BY <2>1, <1>3, <1>4 DEF Carries
  <2>3. QED
    BY <1>1, <2>2 DEF IInv, Inv, RevokedIsNotDelivered, Carries
<1>13. ProvedIsErased'
  <2>1. c \notin proved
    BY <1>1 DEF IInv, ProofsAreIssued
  <2>2. \A b \in proved : b \in Creds /\ b # NoCred
    BY <1>2 DEF TypeOK
  <2>3. QED
    BY <1>1, <1>3, <2>1, <2>2 DEF IInv, Inv, ProvedIsErased
<1>14. ApprovalStands'
  BY <1>1 DEF ApprovalStands, LockFree
<1>15. ProofsAreIssued'
  BY <1>1, <1>2, <1>6 DEF IInv, ProofsAreIssued, Fresh, TypeOK
<1>17. RevokedHadBearer'
  BY <1>4 DEF IInv, RevokedHadBearer
<1>16. QED
  BY <1>7, <1>8, <1>9, <1>10, <1>11, <1>12, <1>13, <1>14, <1>15, <1>17
     DEF IInv, Inv

LEMMA ApproveReplacementPreserves ==
    ASSUME IInv, NEW d \in Devices, NEW e \in Executors, NEW c \in Creds,
           ApproveReplacement(d, e, c)
    PROVE  IInv'
<1> USE GoneFacts, NoneAssumption
<1>1. /\ LockFree /\ attempt[d].state = "pending" /\ Fresh(c)
      /\ trust' = [trust EXCEPT ![e] = [cred |-> c, revoked |-> FALSE]]
      /\ issued' = [issued EXCEPT ![c] = [device |-> d, executor |-> e]]
      /\ approving' = [device |-> d, executor |-> e, cred |-> c]
      /\ UNCHANGED <<attempt, clearing, proving, held, proved, stale, uncleared>>
  BY DEF ApproveReplacement, Undecided
<1>2. TypeOK /\ CarriesItsOwn
  BY DEF IInv, Inv
<1>4. /\ trust' \in [Executors -> [cred : Creds \cup {NoCred}, revoked : BOOLEAN]]
      /\ trust'[e].cred = c /\ ~trust'[e].revoked
      /\ \A f \in Executors \ {e} : trust'[f] = trust[f]
  BY <1>1, <1>2 DEF TypeOK
<1>5. /\ issued' \in [Creds -> [device : Devices \cup {NoDevice},
                                executor : Executors \cup {NoExecutor}]]
      /\ issued'[c] = [device |-> d, executor |-> e]
      /\ \A b \in Creds \ {c} : issued'[b] = issued[b]
  BY <1>1, <1>2 DEF TypeOK
<1>6. \A b \in Creds : issued[b].device # NoDevice => issued'[b] = issued[b]
  BY <1>1, <1>5 DEF Fresh
<1>7. TypeOK'
  <2>1. approving' \in [device : Devices \cup {NoDevice},
                        executor : Executors \cup {NoExecutor}, cred : Creds \cup {NoCred}]
    BY <1>1
  <2>2. QED
    BY <1>1, <1>2, <1>4, <1>5, <2>1 DEF TypeOK
<1>8. AttemptsBounded' /\ ProvedIsErased'
  BY <1>1 DEF IInv, Inv, AttemptsBounded, Live, ProvedIsErased
<1>9. HeldByItsDevice'
  BY <1>1, <1>2, <1>6 DEF IInv, Inv, HeldByItsDevice, TypeOK
<1>10. CarriesItsOwn'
  BY <1>1, <1>2, <1>5, <1>6 DEF CarriesItsOwn
<1>11. DeliveryIsCurrent'
  <2>1. DeliveryIsCurrent /\ approving.executor = NoExecutor
    BY <1>1 DEF IInv, Inv, LockFree, Idle
  <2>2. ASSUME NEW x \in Devices, attempt[x].cred # NoCred, attempt[x].executor # e
        PROVE  \/ attempt[x].cred = trust'[attempt[x].executor].cred
               \/ attempt[x].executor \in stale
    <3>1. attempt[x].executor \in Executors
      BY <1>2, <2>2 DEF CarriesItsOwn
    <3>2. QED
      BY <1>4, <2>1, <2>2, <3>1 DEF DeliveryIsCurrent
  <2>3. QED
    BY <1>1, <2>2 DEF DeliveryIsCurrent
<1>12. RevokedIsNotDelivered'
  <2>1. \A f \in Executors : trust'[f].revoked => f # e /\ trust[f].revoked
    BY <1>4
  <2>2. QED
    BY <1>1, <2>1 DEF IInv, Inv, RevokedIsNotDelivered, Carries
<1>13. ApprovalStands'
  <2>1. c \notin proved
    BY <1>1 DEF IInv, ProofsAreIssued
  <2>2. QED
    BY <1>1, <1>4, <1>5, <2>1 DEF ApprovalStands
<1>14. ProofsAreIssued'
  BY <1>1, <1>2, <1>6 DEF IInv, ProofsAreIssued, Fresh, TypeOK
<1>16. RevokedHadBearer'
  BY <1>4 DEF IInv, RevokedHadBearer
<1>15. QED
  BY <1>16, <1>7, <1>8, <1>9, <1>10, <1>11, <1>12, <1>13, <1>14 DEF IInv, Inv

LEMMA ReplacementApprovedPreserves ==
    ASSUME IInv, ReplacementApproved PROVE IInv'
<1> USE GoneFacts, NoneAssumption
<1> DEFINE d == approving.device
           e == approving.executor
           c == approving.cred
<1>1. /\ ~LockFree /\ attempt' = Approved(d, e, c)
      /\ stale' = stale \ {e} /\ approving' = Idle
      /\ UNCHANGED <<trust, clearing, proving, held, issued, proved, uncleared>>
  BY DEF ReplacementApproved
<1>2. TypeOK /\ AttemptsBounded /\ CarriesItsOwn
  BY DEF IInv, Inv
<1>3. /\ d \in Devices /\ e \in Executors /\ c \in Creds /\ c \notin proved
      /\ attempt[d].state = "pending" /\ trust[e].cred = c
      /\ issued[c] = [device |-> d, executor |-> e]
      /\ trust[e].revoked => e \in clearing \cup uncleared
  BY <1>1 DEF IInv, ApprovalStands
<1>4. /\ attempt' \in [Devices -> Attempts]
      /\ attempt'[d] = [state |-> "approved", executor |-> e, cred |-> c]
      /\ \A x \in Devices \ {d} : attempt'[x] = IF Carries(x, e) THEN Gone ELSE attempt[x]
      /\ Live' \subseteq Live
  BY <1>1, <1>3, Approval
<1>5. DeliveryIsCurrent
  BY DEF IInv, Inv
<1> HIDE DEF d, e, c
<1>6. Idle \in [device : Devices \cup {NoDevice},
                executor : Executors \cup {NoExecutor}, cred : Creds \cup {NoCred}]
  BY DEF Idle
<1>7. TypeOK'
  BY <1>1, <1>2, <1>4, <1>6 DEF TypeOK, Attempts
<1>8. AttemptsBounded'
  BY <1>2, <1>4, LiveShrinks
<1>9. HeldByItsDevice' /\ ProofsAreIssued' /\ RevokedHadBearer'
  BY <1>1 DEF IInv, Inv, HeldByItsDevice, ProofsAreIssued, Fresh, RevokedHadBearer
<1>10. CarriesItsOwn'
  BY <1>1, <1>2, <1>3, <1>4 DEF CarriesItsOwn
<1>11. DeliveryIsCurrent'
  <2>1. \A x \in Devices : attempt'[x].cred # NoCred /\ x # d =>
           /\ attempt'[x] = attempt[x] /\ attempt[x].executor # e
           /\ attempt[x].executor \in Executors
    BY <1>2, <1>4 DEF Carries, CarriesItsOwn
  <2>2. \A x \in Devices : attempt'[x].cred # NoCred /\ x # d =>
           \/ attempt'[x].cred = trust'[attempt'[x].executor].cred
           \/ attempt'[x].executor \in stale'
    BY <1>1, <1>5, <2>1 DEF DeliveryIsCurrent, e
  <2>3. attempt'[d].cred = trust'[attempt'[d].executor].cred
    BY <1>1, <1>3, <1>4
  <2>4. QED
    BY <2>2, <2>3 DEF DeliveryIsCurrent
<1>12. RevokedIsNotDelivered'
  <2>1. RevokedIsNotDelivered
    BY DEF IInv, Inv
  <2>2. QED
    BY <1>1, <1>3, <1>4, <2>1 DEF RevokedIsNotDelivered, Carries
<1>13. ProvedIsErased'
  <2>1. \A b \in proved : b \in Creds /\ b # NoCred
    BY <1>2 DEF TypeOK
  <2>2. ProvedIsErased
    BY DEF IInv, Inv
  <2>3. QED
    BY <1>1, <1>3, <1>4, <2>1, <2>2 DEF ProvedIsErased
<1>14. ApprovalStands'
  BY <1>1 DEF ApprovalStands, LockFree
<1>15. QED
  BY <1>7, <1>8, <1>9, <1>10, <1>11, <1>12, <1>13, <1>14 DEF IInv, Inv

LEMMA InterruptionsPreserve ==
    ASSUME IInv, ReplacementInterrupted \/ \E e \in Executors : RevokeInterrupted(e)
    PROVE  IInv'
<1>1. /\ UNCHANGED <<attempt, trust, proving, held, issued, proved>>
      /\ approving' \in {approving, Idle} /\ clearing' \subseteq clearing
      /\ stale \subseteq stale' /\ clearing \cup uncleared \subseteq clearing' \cup uncleared'
      /\ approving.executor \in stale' \/ approving' = approving
  BY DEF ReplacementInterrupted, RevokeInterrupted, history
<1>2. TypeOK /\ ApprovalStands
  BY DEF IInv, Inv
<1>3. TypeOK'
  <2>1. CASE ReplacementInterrupted
    <3>1. /\ approving.executor \in Executors /\ approving' = Idle
          /\ stale' = stale \cup {approving.executor}
          /\ UNCHANGED <<attempt, trust, clearing, proving, held, issued, proved, uncleared>>
      BY <1>2, <2>1 DEF ReplacementInterrupted, ApprovalStands
    <3>2. Idle \in [device : Devices \cup {NoDevice},
                    executor : Executors \cup {NoExecutor}, cred : Creds \cup {NoCred}]
      BY DEF Idle
    <3>3. QED
      BY <1>2, <3>1, <3>2 DEF TypeOK
  <2>2. CASE \E e \in Executors : RevokeInterrupted(e)
    BY <1>2, <2>2 DEF RevokeInterrupted, TypeOK
  <2>3. QED
    BY <2>1, <2>2
<1>4. AttemptsBounded' /\ HeldByItsDevice' /\ ProvedIsErased' /\ CarriesItsOwn'
  BY <1>1 DEF IInv, Inv, AttemptsBounded, Live, HeldByItsDevice, ProvedIsErased, CarriesItsOwn
<1>5. DeliveryIsCurrent'
  BY <1>1 DEF IInv, Inv, DeliveryIsCurrent
<1>6. RevokedIsNotDelivered'
  BY <1>1 DEF IInv, Inv, RevokedIsNotDelivered, Carries
<1>7. ApprovalStands'
  BY <1>1, <1>2 DEF ApprovalStands, LockFree
<1>8. ProofsAreIssued' /\ RevokedHadBearer'
  BY <1>1 DEF IInv, ProofsAreIssued, RevokedHadBearer, Fresh
<1>9. QED
  BY <1>3, <1>4, <1>5, <1>6, <1>7, <1>8 DEF IInv, Inv

LEMMA DeliveryPreserves ==
    ASSUME IInv, NEW d \in Devices, Poll(d) \/ Authenticate(d) PROVE IInv'
<1>1. UNCHANGED <<attempt, trust, approving, clearing, issued, proved, stale, uncleared>>
  BY DEF Poll, Authenticate, history
<1>2. TypeOK /\ CarriesItsOwn /\ HeldByItsDevice
  BY DEF IInv, Inv
<1>3. TypeOK' /\ HeldByItsDevice' /\ ProofsAreIssued'
  <2>1. CASE Poll(d)
    <3>1. /\ held' = [held EXCEPT ![d] = attempt[d].cred] /\ proving' = proving
          /\ attempt[d].cred \in Creds /\ issued[attempt[d].cred].device = d
      <4>1. /\ held' = [held EXCEPT ![d] = attempt[d].cred] /\ proving' = proving
            /\ attempt[d].state = "approved"
        BY <2>1 DEF Poll
      <4>2. /\ attempt[d].cred \in Creds
            /\ issued[attempt[d].cred] = [device |-> d, executor |-> attempt[d].executor]
        BY <1>2, <4>1 DEF CarriesItsOwn
      <4>3. QED
        BY <4>1, <4>2
    <3>2. TypeOK'
      BY <1>1, <1>2, <3>1 DEF TypeOK
    <3>3. HeldByItsDevice'
      BY <1>1, <1>2, <3>1 DEF HeldByItsDevice, TypeOK
    <3>4. ProofsAreIssued'
      BY <1>1, <3>1 DEF IInv, ProofsAreIssued, Fresh
    <3>5. QED
      BY <3>2, <3>3, <3>4
  <2>2. CASE Authenticate(d)
    <3>1. /\ held' = held /\ proving' = proving \cup {held[d]}
          /\ held[d] \in Creds /\ issued[held[d]].device = d
      BY <1>2, <2>2 DEF Authenticate, TypeOK, HeldByItsDevice
    <3>2. TypeOK'
      BY <1>1, <1>2, <3>1 DEF TypeOK
    <3>3. HeldByItsDevice'
      BY <1>1, <1>2, <3>1 DEF HeldByItsDevice
    <3>4. ProofsAreIssued'
      BY <1>1, <3>1, NoneAssumption DEF IInv, ProofsAreIssued, Fresh
    <3>5. QED
      BY <3>2, <3>3, <3>4
  <2>3. QED
    BY <2>1, <2>2
<1>4. /\ AttemptsBounded' /\ DeliveryIsCurrent' /\ RevokedIsNotDelivered'
      /\ ProvedIsErased' /\ CarriesItsOwn' /\ RevokedHadBearer'
  BY <1>1 DEF IInv, Inv, AttemptsBounded, Live, DeliveryIsCurrent, RevokedIsNotDelivered,
              ProvedIsErased, CarriesItsOwn, RevokedHadBearer, Carries
<1>5. ApprovalStands'
  BY <1>1 DEF IInv, ApprovalStands, LockFree
<1>6. QED
  BY <1>3, <1>4, <1>5 DEF IInv, Inv

LEMMA RevokePreserves ==
    ASSUME IInv, NEW e \in Executors, Revoke(e) PROVE IInv'
<1>1. /\ trust[e].cred # NoCred /\ trust' = [trust EXCEPT ![e].revoked = TRUE]
      /\ clearing' = clearing \cup {e}
      /\ UNCHANGED <<attempt, approving, proving, held, issued, proved, stale, uncleared>>
  BY DEF Revoke, history
<1>2. TypeOK
  BY DEF IInv, Inv
<1>3. /\ trust' \in [Executors -> [cred : Creds \cup {NoCred}, revoked : BOOLEAN]]
      /\ \A f \in Executors : trust'[f].cred = trust[f].cred
      /\ \A f \in Executors \ {e} : trust'[f] = trust[f]
  <2> DEFINE r == [trust[e] EXCEPT !.revoked = TRUE]
  <2>1. trust \in [Executors -> [cred : Creds \cup {NoCred}, revoked : BOOLEAN]]
    BY <1>2 DEF TypeOK
  <2>2. r \in [cred : Creds \cup {NoCred}, revoked : BOOLEAN] /\ r.cred = trust[e].cred
    BY <2>1
  <2>3. trust' = [trust EXCEPT ![e] = r]
    BY <1>1
  <2> HIDE DEF r
  <2> QED  BY <2>1, <2>2, <2>3
<1>4. TypeOK'
  BY <1>1, <1>2, <1>3 DEF TypeOK
<1>5. /\ AttemptsBounded' /\ HeldByItsDevice' /\ ProvedIsErased'
      /\ CarriesItsOwn' /\ ProofsAreIssued'
  <2>1. AttemptsBounded' /\ HeldByItsDevice'
    BY <1>1 DEF IInv, Inv, AttemptsBounded, Live, HeldByItsDevice
  <2>2. ProvedIsErased' /\ CarriesItsOwn'
    BY <1>1 DEF IInv, Inv, ProvedIsErased, CarriesItsOwn
  <2>3. ProofsAreIssued'
    BY <1>1 DEF IInv, Inv, ProofsAreIssued, Fresh
  <2>. QED  BY <2>1, <2>2, <2>3
<1>6. DeliveryIsCurrent'
  <2>1. \A x \in Devices : attempt[x].cred # NoCred => attempt[x].executor \in Executors
    BY DEF IInv, CarriesItsOwn
  <2>2. QED
    BY <1>1, <1>3, <2>1 DEF IInv, Inv, DeliveryIsCurrent
<1>7. RevokedIsNotDelivered'
  BY <1>1, <1>3 DEF IInv, Inv, RevokedIsNotDelivered, Carries
<1>8. ApprovalStands'
  BY <1>1, <1>3 DEF IInv, ApprovalStands, LockFree
<1>9. RevokedHadBearer'
  BY <1>1, <1>3 DEF IInv, RevokedHadBearer
<1>10. QED
  BY <1>4, <1>5, <1>6, <1>7, <1>8, <1>9 DEF IInv, Inv

LEMMA NextPreserves == IInv /\ [Next]_vars => IInv'
<1> SUFFICES ASSUME IInv, [Next]_vars PROVE IInv'
    OBVIOUS
<1>1. CASE UNCHANGED vars
  BY <1>1 DEF vars, history, IInv, Inv, TypeOK, HeldByItsDevice, AttemptsBounded, Live,
              DeliveryIsCurrent, RevokedIsNotDelivered, ProvedIsErased, CarriesItsOwn,
              ApprovalStands, ProofsAreIssued, RevokedHadBearer, LockFree, Fresh, Carries
<1>2. CASE OwnerStep
  BY <1>2, DenyPreserves, ApproveNewPreserves, ApproveReplacementPreserves, RevokePreserves
     DEF OwnerStep
<1>3. CASE ServiceStep
  BY <1>3, ReplacementApprovedPreserves, InterruptionsPreserve, ControlRestartsPreserves,
     ExpirePreserves, CompleteProofPreserves, ClearDeliveryPreserves DEF ServiceStep
<1>4. CASE \E d \in Devices : DeviceStep(d)
  BY <1>4, StartPairingPreserves, DeliveryPreserves DEF DeviceStep
<1>5. QED
  BY <1>1, <1>2, <1>3, <1>4 DEF Next

\* What a step does to a decided attempt.
LEMMA StepKeepsDecisions ==
    ASSUME IInv, Next, NEW d \in Devices
    PROVE  /\ attempt[d].state = "denied" => attempt'[d].state \in {"denied", "gone"}
           /\ attempt[d].state = "approved" => attempt'[d] \in {attempt[d], Gone}
<1> USE GoneFacts
<1> DEFINE Kept == /\ attempt[d].state = "denied" => attempt'[d].state \in {"denied", "gone"}
                   /\ attempt[d].state = "approved" => attempt'[d] \in {attempt[d], Gone}
<1>t. TypeOK
  BY DEF IInv, Inv
<1>1. ASSUME attempt'[d] \in {attempt[d], Gone} PROVE Kept
  BY <1>1
<1>2. ASSUME NEW x \in Devices, StartPairing(x) \/ Deny(x) PROVE Kept
  <2>1. /\ attempt[x].state \in {"none", "pending"}
        /\ x # d => attempt'[d] = attempt[d]
    BY <1>2, <1>t DEF StartPairing, Deny, Undecided, TypeOK
  <2>2. QED
    BY <2>1
<1>3. ASSUME NEW x \in Devices, NEW e \in Executors, NEW c \in Creds,
             attempt[x].state = "pending", attempt' = Approved(x, e, c)
      PROVE  Kept
  BY <1>3, Approval
<1>4. ASSUME NEW gone, attempt' = Without(gone) PROVE Kept
  BY <1>4, <1>1, <1>t, WithoutFacts
<1>5. CASE OwnerStep
  <2>1. ASSUME NEW x \in Devices, NEW e \in Executors, NEW c \in Creds, ApproveNew(x, e, c)
        PROVE  Kept
    BY <2>1, <1>3 DEF ApproveNew, Undecided
  <2>2. ASSUME NEW x \in Devices, NEW e \in Executors, NEW c \in Creds,
               ApproveReplacement(x, e, c)
        PROVE  Kept
    BY <2>2 DEF ApproveReplacement
  <2>3. ASSUME NEW e \in Executors, Revoke(e) PROVE Kept
    BY <2>3 DEF Revoke
  <2>4. QED
    BY <1>2, <1>5, <2>1, <2>2, <2>3 DEF OwnerStep
<1>6. CASE ServiceStep
  <2>1. CASE ReplacementApproved
    BY <1>3, <2>1 DEF ReplacementApproved, IInv, ApprovalStands
  <2>2. CASE ControlRestarts
    BY <2>2 DEF ControlRestarts
  <2>3. CASE ReplacementInterrupted \/ \E e \in Executors : RevokeInterrupted(e)
    BY <2>3 DEF ReplacementInterrupted, RevokeInterrupted
  <2>4. CASE \E x \in Devices : Expire(x)
    BY <1>4, <2>4 DEF Expire
  <2>5. CASE \E c \in Creds : CompleteProof(c)
    BY <1>4, <2>5 DEF CompleteProof
  <2>6. CASE \E e \in Executors : ClearDelivery(e)
    BY <1>4, <2>6 DEF ClearDelivery
  <2>7. QED
    BY <1>6, <2>1, <2>2, <2>3, <2>4, <2>5, <2>6 DEF ServiceStep
<1>7. CASE \E x \in Devices : DeviceStep(x)
  <2>1. CASE \E x \in Devices : Poll(x) \/ Authenticate(x)
    BY <2>1 DEF Poll, Authenticate
  <2>2. QED
    BY <1>2, <1>7, <2>1 DEF DeviceStep
<1>8. QED
  BY <1>5, <1>6, <1>7 DEF Next

-----------------------------------------------------------------------------

\* control/pairing.py, control/executors.py: however approvals, revocations, polls,
\* proofs, expiries, cancellations and restarts interleave, attempts stay within their
\* limit, a bearer reaches only the device it was approved for, and what a device can
\* fetch is current, not revoked and not proved.
THEOREM PairingCorrect == Spec => []Inv
<1>1. IInv => Inv
  BY DEF IInv
<1>2. QED
  BY InitEstablishes, NextPreserves, <1>1, PTL DEF Spec

\* control/pairing.py: a withdrawn or replaced delivery is never what a device fetches,
\* except after an approval that was cancelled while it closed streams.
THEOREM DeliveryCorrect == Spec => [](DeliveryIsCurrent /\ RevokedIsNotDelivered)
<1>1. Inv => DeliveryIsCurrent /\ RevokedIsNotDelivered
  BY DEF Inv
<1>2. QED
  BY PairingCorrect, <1>1, PTL

\* control/pairing.py: the bearer of a finished proof is erased and never comes back.
THEOREM ErasureCorrect == Spec => []ProvedIsErased
<1>1. Inv => ProvedIsErased
  BY DEF Inv
<1>2. QED
  BY PairingCorrect, <1>1, PTL

\* control/pairing.py: an attempt is decided once, by the owner or by nobody.
THEOREM DecisionsCorrect == Spec => DecisionIsFinal
<1>1. IInv /\ [Next]_vars =>
        [\A d \in Devices :
           /\ attempt[d].state = "denied" => attempt'[d].state \in {"denied", "gone"}
           /\ attempt[d].state = "approved" => attempt'[d] \in {attempt[d], Gone}]_vars
  BY StepKeepsDecisions
<1>2. QED
  BY InitEstablishes, NextPreserves, <1>1, PTL DEF Spec, DecisionIsFinal

-----------------------------------------------------------------------------
(* The configuration files                                                   *)

\* A text with which all readers of a file have started is proven.
LEMMA StartedIsProven ==
    ASSUME ApplyIInv, NEW f \in Configs, NEW x, Readers(f) # {},
           \A q \in Readers(f) : child[q].started /\ child[q].text = x
    PROVE  <<f, x>> \in proven
  BY DEF ApplyIInv, ProvenIsComplete, Readers

\* The Parent ends, whatever the reason, and its Children with it.
LEMMA EndsKeeps == ASSUME ApplyIInv, Ends, UNCHANGED <<reads, edits>> PROVE ApplyIInv'
<1> USE ConfigApplyAssumption DEF ApplyIInv
<1>1. /\ UNCHANGED <<reads, edits, onDisk, proven, overwritten>>
      /\ applying' = NoApply /\ parent' = "ended" /\ good' = [f \in Configs |-> NoText]
      /\ mail' = [r \in Roles |-> "none"]
  BY DEF Ends
<1>2. /\ child' \in [Roles -> Children]
      /\ \A r \in Roles : /\ child'[r].stage = "gone" /\ ~child'[r].started
                          /\ child'[r].status = "starting"
  BY DEF Ends, NewChild, Children, SomeText
<1>3. /\ lockedBy' \in [Configs -> Roles \cup {"none", "parent"}]
      /\ draft' \in [Roles -> [basis : SomeText, text : SomeText]]
      /\ \A r \in Roles : draft'[r].text = NoText
  BY DEF Ends, Releases, ApplyTypeOK, SomeText
<1>4. ApplyTypeOK'
  BY <1>1, <1>2, <1>3 DEF ApplyTypeOK, Applies, SomeText
<1>5. StartsInOrder' /\ ProvenIsComplete'
  BY <1>1, <1>2, SMTT(20) DEF StartsInOrder, ProvenIsComplete, Readers, IsWell, ApplyTypeOK
<1>6. WritersHoldTheLock' /\ SavesAreNotLost'
  <2>1. overwritten' = overwritten /\ parent' # "writing" BY <1>1
  <2> QED BY <1>3, <2>1 DEF WritersHoldTheLock, SavesAreNotLost
<1>7. ApplyIsKnown' /\ GoodIsKept' /\ GoodIsProven'
  BY <1>1, SMTT(20) DEF ApplyIsKnown, GoodIsKept, GoodIsProven, ApplyTypeOK, NoApply
<1> QED BY <1>4, <1>5, <1>6, <1>7

\* Only the file, its lock, a draft or the pace of the Parent changes.
LEMMA FrameKeeps ==
    ASSUME ApplyIInv, UNCHANGED <<reads, good, child, proven, applying>>, ApplyTypeOK',
           \A r \in Roles : mail'[r] = "ready" => mail[r] = "ready",
           parent' \in {"locking", "writing"} => applying # NoApply,
           parent' = "stopping" <=> parent = "stopping"
    PROVE  StartsInOrder' /\ ProvenIsComplete' /\ ApplyIsKnown' /\ GoodIsKept' /\ GoodIsProven'
<1> USE DEF ApplyIInv
<1>1. StartsInOrder' /\ ProvenIsComplete' /\ GoodIsProven'
  BY SMTT(20) DEF StartsInOrder, ProvenIsComplete, GoodIsProven, Readers, IsWell
<1>2. ApplyIsKnown'
  BY SMTT(20) DEF ApplyIsKnown, RunsGood, Expected, IsWell, Readers, ApplyTypeOK
<1>3. GoodIsKept'
  BY SMTT(20) DEF GoodIsKept, RunsGood, IsWell
<1> QED BY <1>1, <1>2, <1>3

\* The steps that change a file, its lock or a draft.
LEMMA EditKeeps == ASSUME ApplyIInv, NEW f \in Configs, Edit(f) PROVE ApplyIInv'
<1> USE ConfigApplyAssumption DEF ApplyIInv
<1>1. ApplyTypeOK'
  BY SMTT(20) DEF ApplyTypeOK, Edit, Replace
<1>2. WritersHoldTheLock' /\ SavesAreNotLost'
  BY SMTT(20) DEF ApplyTypeOK, Edit, Replace, WritersHoldTheLock, SavesAreNotLost, Unchanged,
     ApplyIsKnown, Applies, NoApply
<1>3. /\ UNCHANGED <<reads, good, child, proven, applying, parent, mail>>
      /\ parent \in {"locking", "writing"} => applying # NoApply
  BY DEF Edit, ApplyIsKnown
<1> QED BY <1>1, <1>2, <1>3, FrameKeeps

\* A save takes the lock.
LEMMA BeginSaveKeeps == ASSUME ApplyIInv, NEW r \in Roles, BeginSave(r) PROVE ApplyIInv'
<1> USE ConfigApplyAssumption DEF ApplyIInv
<1>1. ApplyTypeOK'
  BY SMTT(20) DEF ApplyTypeOK, BeginSave, SomeText
<1>2. WritersHoldTheLock' /\ SavesAreNotLost'
  BY SMTT(20) DEF ApplyTypeOK, BeginSave, WritersHoldTheLock, SavesAreNotLost, Unchanged
<1>3. /\ UNCHANGED <<reads, good, child, proven, applying, parent, mail>>
      /\ parent \in {"locking", "writing"} => applying # NoApply
  BY DEF BeginSave, ApplyIsKnown
<1> QED BY <1>1, <1>2, <1>3, FrameKeeps

\* A save writes what it has read and changed.
LEMMA WriteSaveKeeps == ASSUME ApplyIInv, NEW r \in Roles, WriteSave(r) PROVE ApplyIInv'
<1> USE ConfigApplyAssumption DEF ApplyIInv
<1>1. ApplyTypeOK'
  BY SMTT(20) DEF ApplyTypeOK, WriteSave, Replace, SomeText
<1>2. WritersHoldTheLock' /\ SavesAreNotLost'
  BY SMTT(20) DEF ApplyTypeOK, WriteSave, Replace, WritersHoldTheLock, SavesAreNotLost,
     Unchanged
<1>3. /\ UNCHANGED <<reads, good, child, proven, applying, parent, mail>>
      /\ parent \in {"locking", "writing"} => applying # NoApply
  BY DEF WriteSave, ApplyIsKnown
<1> QED BY <1>1, <1>2, <1>3, FrameKeeps

\* A request to apply is on its way.
LEMMA AskApplyKeeps == ASSUME ApplyIInv, NEW r \in Roles, AskApply(r) PROVE ApplyIInv'
<1> USE ConfigApplyAssumption DEF ApplyIInv
<1>1. ApplyTypeOK' /\ \A q \in Roles : mail'[q] = "ready" => mail[q] = "ready"
  BY SMTT(20) DEF ApplyTypeOK, AskApply
<1>2. WritersHoldTheLock' /\ SavesAreNotLost'
  BY SMTT(20) DEF AskApply, WritersHoldTheLock, SavesAreNotLost, Unchanged
<1>3. /\ UNCHANGED <<reads, good, child, proven, applying, parent>>
      /\ parent \in {"locking", "writing"} => applying # NoApply
  BY DEF AskApply, ApplyIsKnown
<1> QED BY <1>1, <1>2, <1>3, FrameKeeps

\* The rollback, one step at a time.
LEMMA RecoverKeeps ==
    ASSUME ApplyIInv, parent = "loop", applying # NoApply, Recover, UNCHANGED <<reads, edits>>
    PROVE  ApplyIInv'
<1>1. CASE Ends BY <1>1, EndsKeeps
<1>2. CASE /\ parent' = "locking"
           /\ UNCHANGED <<onDisk, good, applying, child, mail, lockedBy, draft, proven,
                          overwritten>>
  <2> USE <1>2 DEF ApplyIInv
  <2>1. ApplyTypeOK' BY DEF ApplyTypeOK
  <2>2. WritersHoldTheLock' /\ SavesAreNotLost'
    BY DEF WritersHoldTheLock, SavesAreNotLost, Unchanged
  <2> QED BY <2>1, <2>2, FrameKeeps
<1> QED BY <1>1, <1>2 DEF Recover

\* The Parent has the lock, and the file is the candidate.
LEMMA LockRestoreKeeps == ASSUME ApplyIInv, LockRestore PROVE ApplyIInv'
<1>1. CASE Ends /\ UNCHANGED <<reads, edits>> BY <1>1, EndsKeeps
<1>2. CASE ~Ends
  <2> USE ConfigApplyAssumption DEF ApplyIInv
  <2>1. /\ parent = "locking" /\ parent' = "writing" /\ applying # NoApply
        /\ lockedBy[applying.file] = "none"
        /\ onDisk[applying.file].text = applying.candidate
        /\ lockedBy' = [lockedBy EXCEPT ![applying.file] = "parent"]
        /\ UNCHANGED <<reads, edits, onDisk, good, applying, child, mail, draft, proven,
                       overwritten>>
    BY <1>2 DEF LockRestore, ApplyIsKnown
  <2>2. ApplyTypeOK' BY <2>1 DEF ApplyTypeOK
  <2>3. WritersHoldTheLock' /\ SavesAreNotLost'
    <3>1. applying.file \in Configs /\ applying.file \in DOMAIN lockedBy
      BY <2>1 DEF ApplyTypeOK, Applies
    <3>2. \A r \in Roles :
             draft[r].text # NoText => reads[r] # applying.file /\ reads[r] \in Configs
      BY <2>1 DEF WritersHoldTheLock, ApplyTypeOK
    <3> QED BY <2>1, <3>1, <3>2, SMTT(20) DEF ApplyTypeOK, WritersHoldTheLock,
               SavesAreNotLost, Unchanged
  <2> QED BY <2>1, <2>2, <2>3, FrameKeeps
<1> QED BY <1>1, <1>2 DEF LockRestore

\* The Parent writes the good text.
LEMMA WriteRestoreKeeps == ASSUME ApplyIInv, WriteRestore PROVE ApplyIInv'
<1> USE ConfigApplyAssumption DEF ApplyIInv
<1>1. /\ applying \in Applies \ {NoApply} /\ applying.file \in Configs
      /\ good[applying.file] \in Texts /\ Readers(applying.file) # {}
      /\ \A r \in Readers(applying.file) : ~IsWell(child[r])
  BY DEF WriteRestore, ApplyIsKnown, ApplyTypeOK, Applies, SomeText
<1>2. /\ applying' \in Applies \ {NoApply} /\ applying'.file = applying.file
      /\ applying'.recovering /\ applying'.ready = {}
  BY <1>1 DEF WriteRestore, Applies, NoApply
<1>3. /\ UNCHANGED <<reads, good, child, mail, draft, edits, proven>>
      /\ parent = "writing" /\ parent' = "stopping"
  BY DEF WriteRestore
<1>4. ApplyTypeOK'
  <2>1. onDisk' \in [Configs -> [text : Texts, by : {"editor", "save", "restore"}]]
    BY <1>1 DEF WriteRestore, Replace, ApplyTypeOK
  <2>2. lockedBy' \in [Configs -> Roles \cup {"none", "parent"}]
    BY <1>1 DEF WriteRestore, ApplyTypeOK
  <2> QED BY <1>2, <1>3, <2>1, <2>2 DEF ApplyTypeOK
<1>5. StartsInOrder' /\ ProvenIsComplete' /\ GoodIsProven'
  BY <1>3, SMTT(20) DEF StartsInOrder, ProvenIsComplete, GoodIsProven, Readers, IsWell
<1>6. WritersHoldTheLock' /\ SavesAreNotLost'
  BY <1>1, <1>3, SMTT(20) DEF WriteRestore, Replace, ApplyTypeOK, WritersHoldTheLock,
     SavesAreNotLost, Unchanged
<1>7. ApplyIsKnown'
  BY <1>1, <1>2, <1>3, SMTT(20) DEF ApplyIsKnown, Readers, IsWell
<1>8. GoodIsKept'
  BY <1>2, <1>3, SMTT(20) DEF GoodIsKept, RunsGood, IsWell
<1> QED BY <1>4, <1>5, <1>6, <1>7, <1>8
\* A Child goes on, and what is known of the others and of their texts stays.
LEMMA ChildKeeps ==
    ASSUME ApplyIInv, UNCHANGED <<reads, good, applying, parent>>,
           \A q \in Roles :
              /\ child[q].started => child'[q].started /\ child'[q].text = child[q].text
              /\ child'[q].status = child[q].status
    PROVE  ApplyIsKnown' /\ GoodIsKept'
<1> USE ConfigApplyAssumption DEF ApplyIInv
<1>1. \A q \in Roles : /\ IsWell(child'[q]) <=> IsWell(child[q])
                       /\ RunsGood(q) => RunsGood(q)'
  BY DEF StartsInOrder, RunsGood, IsWell
<1>2. \A q \in applying.ready : applying # NoApply => q \in Roles
  BY DEF ApplyTypeOK, Applies
<1>3. Readers(applying.file)' = Readers(applying.file) /\ Expected' = Expected
  BY DEF Readers, Expected
<1>4. ApplyIsKnown'
  <2>1. applying' # NoApply' <=> applying # NoApply
    BY DEF NoApply
  <2> QED BY <1>1, <1>2, <1>3, <2>1, SMTT(20) DEF ApplyIsKnown, Readers
<1>5. GoodIsKept' BY <1>1 DEF GoodIsKept
<1> QED BY <1>4, <1>5

\* A Child loads its file.
LEMMA LoadKeeps == ASSUME ApplyIInv, NEW r \in Roles, Load(r) PROVE ApplyIInv'
<1> USE ConfigApplyAssumption DEF ApplyIInv
<1>1. /\ child[r].stage = "boot" /\ ~child[r].started /\ onDisk[reads[r]].text \in Texts
      /\ mail' = [mail EXCEPT ![r] = "config"]
      /\ UNCHANGED <<reads, onDisk, good, applying, parent, lockedBy, draft, edits, proven,
                     overwritten>>
  BY DEF Load, StartsInOrder, ApplyTypeOK
<1>2. /\ child' \in [Roles -> Children] /\ child'[r].stage = "loaded"
      /\ \A q \in Roles : /\ child'[q].started = child[q].started
                          /\ child'[q].registered = child[q].registered
                          /\ child'[q].status = child[q].status
                          /\ q # r => child'[q] = child[q]
  <2> DEFINE c == [child[r] EXCEPT !.stage = "loaded", !.text = onDisk[reads[r]].text]
  <2>1. child' = [child EXCEPT ![r] = c] BY DEF Load
  <2>2. child \in [Roles -> Children] BY DEF ApplyTypeOK
  <2>3. /\ c \in Children /\ c.stage = "loaded" /\ c.started = child[r].started
        /\ c.registered = child[r].registered /\ c.status = child[r].status
    BY <1>1, <2>2, ZenonT(60) DEF Children, SomeText
  <2> QED BY <2>1, <2>2, <2>3
<1>3. ApplyTypeOK' BY <1>1, <1>2 DEF ApplyTypeOK
<1>4. StartsInOrder'
  BY <1>1, <1>2, SMTT(20) DEF StartsInOrder, IsWell, ApplyTypeOK
<1>5. ProvenIsComplete'
  BY <1>1, <1>2 DEF ProvenIsComplete, Readers
<1>6. WritersHoldTheLock' /\ SavesAreNotLost' /\ GoodIsProven'
  BY <1>1 DEF WritersHoldTheLock, SavesAreNotLost, Unchanged, GoodIsProven
<1>7. ApplyIsKnown' /\ GoodIsKept'
  BY <1>1, <1>2, ChildKeeps
<1> QED BY <1>3, <1>4, <1>5, <1>6, <1>7

\* A Child has started.
LEMMA StartedKeeps == ASSUME ApplyIInv, NEW r \in Roles, Started(r) PROVE ApplyIInv'
<1> USE ConfigApplyAssumption DEF ApplyIInv
<1>1. /\ child[r].stage = "starting" /\ mail' = [mail EXCEPT ![r] = "ready"]
      /\ UNCHANGED <<reads, onDisk, good, applying, parent, lockedBy, draft, edits,
                     overwritten>>
      /\ proven \subseteq proven'
  BY DEF Started
<1>2. /\ child' \in [Roles -> Children]
      /\ child'[r].stage = "ready" /\ child'[r].started
      /\ \A q \in Roles : /\ child'[q].text = child[q].text
                          /\ child'[q].registered = child[q].registered
                          /\ child'[q].status = child[q].status
                          /\ q # r => child'[q] = child[q]
  BY ZenonT(60) DEF Started, ApplyTypeOK, Children
<1>3. ApplyTypeOK' BY <1>1, <1>2 DEF ApplyTypeOK
<1>4. StartsInOrder'
  BY <1>1, <1>2, SMTT(20) DEF StartsInOrder, IsWell, ApplyTypeOK
<1>5. ProvenIsComplete'
  <2> SUFFICES ASSUME NEW p \in Roles,
                      \A q \in Readers(reads[p]) : child'[q].started
                                                   /\ child[q].text = child[p].text
               PROVE  <<reads[p], child[p].text>> \in proven'
    BY <1>1, <1>2 DEF ProvenIsComplete, Readers
  <2>1. CASE reads[p] = reads[r]
    <3>1. r \in Readers(reads[p]) BY <2>1 DEF Readers
    <3>2. child[r].text = child[p].text BY <3>1
    <3> QED BY <2>1, <3>2 DEF Started
  <2>2. CASE reads[p] # reads[r]
    BY <1>1, <1>2, <2>2 DEF Readers, ProvenIsComplete
  <2> QED BY <2>1, <2>2
<1>6. WritersHoldTheLock' /\ SavesAreNotLost' /\ GoodIsProven'
  BY <1>1 DEF WritersHoldTheLock, SavesAreNotLost, Unchanged, GoodIsProven
<1>7. ApplyIsKnown' /\ GoodIsKept'
  BY <1>1, <1>2, ChildKeeps
<1> QED BY <1>3, <1>4, <1>5, <1>6, <1>7

\* A process ends; what the Parent knows of it stays.
LEMMA GoneKeeps ==
    ASSUME ApplyIInv, NEW r \in Roles, child' = [child EXCEPT ![r].stage = "gone"],
           UNCHANGED <<reads, onDisk, good, applying, parent, edits, proven, overwritten>>,
           \A q \in Roles : mail'[q] = "ready" => mail[q] = "ready",
           mail' \in [Roles -> Texts \cup {"none", "config", "ready"}], Releases({r})
    PROVE  ApplyIInv'
<1> USE ConfigApplyAssumption DEF ApplyIInv
<1>1. /\ child' \in [Roles -> Children] /\ child'[r].stage = "gone"
      /\ \A q \in Roles : /\ child'[q].started = child[q].started
                          /\ child'[q].text = child[q].text
                          /\ child'[q].registered = child[q].registered
                          /\ child'[q].status = child[q].status
                          /\ q # r => child'[q] = child[q]
  <2> DEFINE c == [child[r] EXCEPT !.stage = "gone"]
  <2>1. child' = [child EXCEPT ![r] = c] /\ child \in [Roles -> Children]
    BY DEF ApplyTypeOK
  <2>2. /\ c \in Children /\ c.stage = "gone" /\ c.started = child[r].started
        /\ c.text = child[r].text /\ c.registered = child[r].registered
        /\ c.status = child[r].status
    BY <2>1 DEF Children
  <2> QED BY <2>1, <2>2
<1>2. /\ lockedBy' \in [Configs -> Roles \cup {"none", "parent"}]
      /\ draft' \in [Roles -> [basis : SomeText, text : SomeText]]
  BY DEF ApplyTypeOK, Releases, SomeText
<1>3. ApplyTypeOK' BY <1>1, <1>2 DEF ApplyTypeOK
<1>4. StartsInOrder' /\ ProvenIsComplete' /\ GoodIsProven'
  BY <1>1, SMTT(20) DEF StartsInOrder, ProvenIsComplete, GoodIsProven, Readers, IsWell
<1>5. WritersHoldTheLock' /\ SavesAreNotLost'
  BY SMTT(20) DEF Releases, WritersHoldTheLock, SavesAreNotLost, Unchanged, ApplyTypeOK,
     ApplyIsKnown, Applies, NoApply
<1>6. ApplyIsKnown' /\ GoodIsKept'
  BY <1>1, ChildKeeps
<1> QED BY <1>3, <1>4, <1>5, <1>6

\* The readers of the file start anew.
LEMMA RespawnKeeps == ASSUME ApplyIInv, Respawn PROVE ApplyIInv'
<1> USE ConfigApplyAssumption DEF ApplyIInv
<1> DEFINE rs == Readers(applying.file)
<1>1. /\ parent = "stopping" /\ parent' = "loop" /\ applying # NoApply
      /\ applying.file \in Configs /\ rs \subseteq Roles /\ applying.ready = {}
      /\ UNCHANGED <<reads, onDisk, good, applying, edits, proven, overwritten>>
  BY DEF Respawn, ApplyIsKnown, ApplyTypeOK, Applies, Readers
<1>2. /\ child' \in [Roles -> Children]
      /\ \A q \in rs : child'[q] = NewChild("applying") /\ mail'[q] = "none"
      /\ \A q \in Roles \ rs : child'[q] = child[q] /\ mail'[q] = mail[q]
  <2>1. NewChild("applying") \in Children BY DEF NewChild, Children, SomeText
  <2> QED BY <1>1, <2>1 DEF Respawn, ApplyTypeOK
<1>3. mail' \in [Roles -> Texts \cup {"none", "config", "ready"}]
  BY DEF Respawn, ApplyTypeOK
<1>4. /\ lockedBy' \in [Configs -> Roles \cup {"none", "parent"}]
      /\ draft' \in [Roles -> [basis : SomeText, text : SomeText]]
  BY DEF Respawn, ApplyTypeOK, Releases, SomeText
<1>5. ApplyTypeOK' BY <1>1, <1>2, <1>3, <1>4 DEF ApplyTypeOK
<1>6. \A q \in rs : /\ child'[q].stage = "boot" /\ ~child'[q].started
                    /\ ~IsWell(child'[q])
  BY <1>2 DEF NewChild, IsWell
<1>7. StartsInOrder'
  BY <1>2, <1>6, SMTT(20) DEF StartsInOrder, IsWell
<1>8. ProvenIsComplete' /\ GoodIsProven'
  BY <1>1, <1>2, <1>6, SMTT(20) DEF ProvenIsComplete, GoodIsProven, Readers
<1>9. WritersHoldTheLock' /\ SavesAreNotLost'
  BY <1>1, SMTT(20) DEF Respawn, Releases, WritersHoldTheLock, SavesAreNotLost, Unchanged,
     ApplyTypeOK
<1>10. ApplyIsKnown'
  BY <1>1, <1>6, SMTT(20) DEF ApplyIsKnown, Readers
<1>11. GoodIsKept'
  BY <1>1, <1>2, SMTT(20) DEF GoodIsKept, RunsGood, Readers, IsWell
<1> QED BY <1>5, <1>7, <1>8, <1>9, <1>10, <1>11

\* A Child exits.
LEMMA ChildExitsKeeps == ASSUME ApplyIInv, NEW r \in Roles, ChildExits(r) PROVE ApplyIInv'
<1>1. mail' \in [Roles -> Texts \cup {"none", "config", "ready"}]
  BY DEF ChildExits, ApplyIInv, ApplyTypeOK
<1> QED BY <1>1, GoneKeeps DEF ChildExits

\* A Child is refused and exits.
LEMMA RefuseReadyKeeps == ASSUME ApplyIInv, NEW r \in Roles, RefuseReady(r) PROVE ApplyIInv'
<1>1. /\ mail' \in [Roles -> Texts \cup {"none", "config", "ready"}]
      /\ \A q \in Roles : mail'[q] = "ready" => mail[q] = "ready"
  BY DEF RefuseReady, ApplyIInv, ApplyTypeOK
<1>2. /\ child' = [child EXCEPT ![r].stage = "gone"] /\ Releases({r})
      /\ UNCHANGED <<reads, onDisk, good, applying, parent, edits, proven, overwritten>>
  BY DEF RefuseReady
<1> QED BY <1>1, <1>2, GoneKeeps

\* What record_healthy_files leaves and what it adds.
LEMMA RecordedKeeps ==
    ASSUME ApplyIInv, UNCHANGED <<reads, onDisk, applying, proven>>,
           parent = "loop", parent' = "loop", good' = Recorded(child'),
           StartsInOrder',
           \A q \in Roles :
              /\ child'[q].started = child[q].started /\ child'[q].text = child[q].text
              /\ IsWell(child[q]) => IsWell(child'[q])
              /\ reads[q] = applying.file => child'[q].status = child[q].status
    PROVE  /\ good' \in [Configs -> SomeText]
           /\ ApplyIsKnown' /\ GoodIsKept' /\ GoodIsProven'
<1> USE ConfigApplyAssumption DEF ApplyIInv
<1> DEFINE New(f) == /\ Readers(f) # {} /\ good'[f] = onDisk[f].text
                     /\ \A q \in Readers(f) : IsWell(child'[q])
                                              /\ child'[q].text = onDisk[f].text
<1>1. \A f \in Configs : good'[f] = good[f] \/ New(f)
  BY DEF Recorded, ApplyTypeOK
<1>2. good' \in [Configs -> SomeText]
  BY DEF Recorded, ApplyTypeOK, SomeText
<1>3. Readers(applying.file)' = Readers(applying.file) /\ NoApply' = NoApply
  BY DEF Readers, NoApply
<1>4. ASSUME applying # NoApply
      PROVE  /\ applying.file \in Configs /\ good'[applying.file] = good[applying.file]
             /\ applying.ready \subseteq Roles
             /\ \A q \in Readers(applying.file) : ~IsWell(child'[q])
  <2>1. applying.file \in Configs /\ applying.ready \subseteq Roles
    BY <1>4 DEF ApplyTypeOK, Applies
  <2>2. Readers(applying.file) # {} /\ \A q \in Readers(applying.file) : ~IsWell(child[q])
    BY <1>4 DEF ApplyIsKnown
  <2>3. \A q \in Readers(applying.file) : ~IsWell(child'[q])
    BY <2>2 DEF Readers, IsWell
  <2> QED BY <1>1, <2>1, <2>2, <2>3
<1>5. ApplyIsKnown'
  <2>1. applying # NoApply => Expected' = Expected
    BY <1>4 DEF Expected
  <2> QED BY <1>3, <1>4, <2>1, SMTT(20) DEF ApplyIsKnown, Readers
<1>6. GoodIsKept'
  <2> SUFFICES ASSUME NEW q \in Roles, good'[reads[q]] # NoText, applying.file # reads[q]
               PROVE  IsWell(child'[q]) /\ child'[q].text = good'[reads[q]]
    BY DEF GoodIsKept, RunsGood, IsWell
  <2>1. reads[q] \in Configs /\ q \in Readers(reads[q])
    BY DEF ApplyTypeOK, Readers
  <2>2. CASE New(reads[q]) BY <2>1, <2>2
  <2>3. CASE good'[reads[q]] = good[reads[q]]
    BY <2>3 DEF GoodIsKept, RunsGood
  <2> QED BY <1>1, <2>1, <2>2, <2>3
<1>7. GoodIsProven'
  <2> SUFFICES ASSUME NEW f \in Configs, good'[f] # NoText
               PROVE  <<f, good'[f]>> \in proven
    BY DEF GoodIsProven
  <2>1. CASE New(f)
    <3>1. \A q \in Readers(f) : child[q].started /\ child[q].text = good'[f]
      BY <2>1 DEF StartsInOrder, IsWell, Readers
    <3> QED BY <2>1, <3>1, StartedIsProven
  <2>2. CASE good'[f] = good[f] BY <2>2 DEF GoodIsProven
  <2> QED BY <1>1, <2>1, <2>2
<1> QED BY <1>2, <1>5, <1>6, <1>7

\* The Parent learns what a Child loaded.
LEMMA HandleConfigKeeps == ASSUME ApplyIInv, NEW r \in Roles, HandleConfig(r) PROVE ApplyIInv'
<1> USE ConfigApplyAssumption DEF ApplyIInv
<1>1. /\ mail' \in [Roles -> Texts \cup {"none", "config", "ready"}]
      /\ \A q \in Roles : mail'[q] = "ready" => mail[q] = "ready"
      /\ parent = "loop" /\ good' = Recorded(child')
      /\ UNCHANGED <<reads, onDisk, applying, parent, lockedBy, draft, edits, proven,
                     overwritten>>
  BY DEF HandleConfig, TakesMessage, ApplyTypeOK
<1>2. /\ child' \in [Roles -> Children] /\ child'[r].registered /\ child'[r].stage = "starting"
      /\ \A q \in Roles : /\ child'[q].started = child[q].started
                          /\ child'[q].text = child[q].text
                          /\ child'[q].status = child[q].status
                          /\ q # r => child'[q] = child[q]
  <2> DEFINE c == [child[r] EXCEPT !.stage = "starting", !.registered = TRUE]
  <2>1. child' = [child EXCEPT ![r] = c] /\ child \in [Roles -> Children]
    BY DEF HandleConfig, ApplyTypeOK
  <2>2. /\ c \in Children /\ c.stage = "starting" /\ c.registered
        /\ c.started = child[r].started /\ c.text = child[r].text /\ c.status = child[r].status
    BY <2>1 DEF Children
  <2> QED BY <2>1, <2>2
<1>3. StartsInOrder'
  BY <1>1, <1>2, SMTT(20) DEF StartsInOrder, IsWell
<1>4. ProvenIsComplete'
  BY <1>1, <1>2 DEF ProvenIsComplete, Readers
<1>5. good' \in [Configs -> SomeText] /\ ApplyIsKnown' /\ GoodIsKept' /\ GoodIsProven'
  BY <1>1, <1>2, <1>3, RecordedKeeps DEF IsWell
<1>6. ApplyTypeOK' BY <1>1, <1>2, <1>5 DEF ApplyTypeOK
<1>7. WritersHoldTheLock' /\ SavesAreNotLost'
  BY <1>1 DEF WritersHoldTheLock, SavesAreNotLost, Unchanged
<1> QED BY <1>3, <1>4, <1>5, <1>6, <1>7

\* The Parent learns that a Child outside an apply has started.
LEMMA HandleReadyKeeps == ASSUME ApplyIInv, NEW r \in Roles, HandleReady(r) PROVE ApplyIInv'
<1> USE ConfigApplyAssumption DEF ApplyIInv
<1>1. /\ mail' \in [Roles -> Texts \cup {"none", "config", "ready"}]
      /\ \A q \in Roles : mail'[q] = "ready" => mail[q] = "ready"
      /\ parent = "loop" /\ good' = Recorded(child') /\ applying.file # reads[r]
      /\ child[r].started
      /\ UNCHANGED <<reads, onDisk, applying, parent, lockedBy, draft, edits, proven,
                     overwritten>>
  BY DEF HandleReady, TakesMessage, ApplyTypeOK, StartsInOrder
<1>2. /\ child' \in [Roles -> Children] /\ child'[r].stage = "serving"
      /\ child'[r].status = "healthy"
      /\ \A q \in Roles : /\ child'[q].started = child[q].started
                          /\ child'[q].text = child[q].text
                          /\ child'[q].registered = child[q].registered
                          /\ q # r => child'[q] = child[q]
  <2> DEFINE c == [child[r] EXCEPT !.stage = "serving", !.status = "healthy"]
  <2>1. child' = [child EXCEPT ![r] = c] /\ child \in [Roles -> Children]
    BY DEF HandleReady, ApplyTypeOK
  <2>2. /\ c \in Children /\ c.stage = "serving" /\ c.status = "healthy"
        /\ c.started = child[r].started /\ c.text = child[r].text
        /\ c.registered = child[r].registered
    BY <2>1 DEF Children
  <2> QED BY <2>1, <2>2
<1>3. StartsInOrder'
  BY <1>1, <1>2, SMTT(20) DEF StartsInOrder, IsWell
<1>4. ProvenIsComplete'
  BY <1>1, <1>2, SMTT(20) DEF ProvenIsComplete, Readers
<1>5. good' \in [Configs -> SomeText] /\ ApplyIsKnown' /\ GoodIsKept' /\ GoodIsProven'
  <2>1. \A q \in Roles : /\ IsWell(child[q]) => IsWell(child'[q])
                         /\ reads[q] = applying.file => child'[q].status = child[q].status
    BY <1>1, <1>2 DEF IsWell
  <2> QED BY <1>1, <1>2, <1>3, <2>1, RecordedKeeps
<1>6. ApplyTypeOK' BY <1>1, <1>2, <1>5 DEF ApplyTypeOK
<1>7. WritersHoldTheLock' /\ SavesAreNotLost'
  BY <1>1 DEF WritersHoldTheLock, SavesAreNotLost, Unchanged
<1> QED BY <1>3, <1>4, <1>5, <1>6, <1>7

\* The Parent learns that a Child of the apply has started, perhaps the last one.
LEMMA HandleAppliedKeeps ==
    ASSUME ApplyIInv, NEW r \in Roles, HandleApplied(r) PROVE ApplyIInv'
<1> USE ConfigApplyAssumption DEF ApplyIInv
<1> DEFINE f == reads[r]
           ready == applying.ready \cup {r}
           done == ready = Readers(f)
           how == IF applying.recovering THEN "recovered" ELSE "healthy"
<1>1. /\ mail' \in [Roles -> Texts \cup {"none", "config", "ready"}]
      /\ \A q \in Roles : mail'[q] = "ready" => mail[q] = "ready"
      /\ parent = "loop" /\ parent' = "loop"
      /\ UNCHANGED <<reads, onDisk, lockedBy, draft, edits, proven, overwritten>>
  BY DEF HandleApplied, TakesMessage, ApplyTypeOK
<1>2. /\ f \in Configs /\ applying.file = f /\ applying # NoApply
      /\ applying.ready \subseteq Roles
      /\ child[r].started
      /\ child[r].text = onDisk[f].text /\ child[r].text = Expected
  BY DEF HandleApplied, TakesMessage, Stale, Expected, ApplyTypeOK, Applies, NoApply,
     StartsInOrder
<1>3. \A q \in ready : q \in Readers(f) /\ child[q].started /\ child[q].text = onDisk[f].text
  BY <1>2 DEF ApplyIsKnown, Readers
<1>4. \A q \in Readers(f) : ~IsWell(child[q])
  BY <1>1, <1>2 DEF ApplyIsKnown
<1>5. /\ child' \in [Roles -> Children]
      /\ \A q \in Roles : /\ child'[q].started = child[q].started
                          /\ child'[q].text = child[q].text
                          /\ child'[q].registered = child[q].registered
                          /\ child'[q].stage \in {child[q].stage, "serving"}
                          /\ child'[q].status = IF done /\ q \in Readers(f) THEN how
                                                ELSE child[q].status
  <2> DEFINE c == [child[r] EXCEPT !.stage = "serving"]
             now == [child EXCEPT ![r] = c]
  <2>1. child \in [Roles -> Children] BY DEF ApplyTypeOK
  <2>2. /\ c \in Children /\ c.stage = "serving" /\ c.status = child[r].status
        /\ c.started = child[r].started /\ c.text = child[r].text
        /\ c.registered = child[r].registered
    BY <2>1 DEF Children
  <2>3. /\ now \in [Roles -> Children]
        /\ \A q \in Roles : /\ now[q].started = child[q].started
                            /\ now[q].text = child[q].text
                            /\ now[q].registered = child[q].registered
                            /\ now[q].status = child[q].status
                            /\ now[q].stage \in {child[q].stage, "serving"}
    BY <2>1, <2>2
  <2> HIDE DEF now
  <2>4. child' = IF done THEN [q \in Roles |-> IF q \in Readers(f)
                                              THEN [now[q] EXCEPT !.status = how]
                                              ELSE now[q]] ELSE now
    BY DEF HandleApplied, ApplyCompletes, now
  <2>5. ASSUME NEW q \in Roles
        PROVE  LET d == [now[q] EXCEPT !.status = how]
               IN  /\ d \in Children /\ d.status = how /\ d.stage = now[q].stage
                   /\ d.started = now[q].started /\ d.text = now[q].text
                   /\ d.registered = now[q].registered
    <3>1. now[q] \in Children /\ how \in {"healthy", "recovered"} BY <2>3
    <3> HIDE DEF how
    <3> QED BY <3>1 DEF Children
  <2>6. CASE done
    <3>1. child' = [q \in Roles |-> IF q \in Readers(f) THEN [now[q] EXCEPT !.status = how]
                                    ELSE now[q]]
      BY <2>4, <2>6
    <3>2. child' \in [Roles -> Children] BY <3>1, <2>3, <2>5
    <3> QED BY <3>1, <3>2, <2>3, <2>5, <2>6
  <2>7. CASE ~done BY <2>3, <2>4, <2>7
  <2> QED BY <2>6, <2>7
<1>6. StartsInOrder'
  <2>1. \A q \in Readers(f) : done => child[q].started BY <1>3
  <2>2. \A q \in Roles : IsWell(child'[q]) => child[q].started
    BY <1>5, <2>1 DEF IsWell, StartsInOrder
  <2> QED BY <1>1, <1>5, <2>2, SMTT(20) DEF StartsInOrder
<1>7. ProvenIsComplete'
  <2>1. \A q \in Roles : /\ child'[q].started = child[q].started
                         /\ child'[q].text = child[q].text
    BY <1>5
  <2>2. UNCHANGED <<reads, proven>> BY <1>1
  <2> HIDE DEF f, done, how, ready
  <2> QED BY <2>1, <2>2 DEF ProvenIsComplete, Readers
<1>8. WritersHoldTheLock' /\ SavesAreNotLost'
  BY <1>1 DEF WritersHoldTheLock, SavesAreNotLost, Unchanged
<1>9. CASE done
  <2>1. Readers(f) # {} /\ \A q \in Readers(f) : child[q].started
        /\ child[q].text = onDisk[f].text
    BY <1>3, <1>9
  <2>2. applying' = NoApply /\ good' = [good EXCEPT ![f] = onDisk[f].text]
    BY <1>2, <1>9, <2>1 DEF HandleApplied, ApplyCompletes
  <2>3. ApplyTypeOK'
    <3>1. good' \in [Configs -> SomeText] /\ applying' \in Applies
      BY <1>2, <2>2 DEF ApplyTypeOK, SomeText, Applies, NoApply
    <3> QED BY <1>1, <1>5, <3>1 DEF ApplyTypeOK
  <2>4. ApplyIsKnown'
    <3>1. applying' = NoApply' BY <2>2 DEF NoApply
    <3> QED BY <1>1, <3>1 DEF ApplyIsKnown
  <2>5. GoodIsKept'
    <3> SUFFICES ASSUME NEW q \in Roles, good'[reads[q]] # NoText
                 PROVE  IsWell(child'[q]) /\ child'[q].text = good'[reads[q]]
      BY <1>1 DEF GoodIsKept, RunsGood, IsWell
    <3>1. CASE reads[q] = f
      <4>1. q \in Readers(f) /\ good'[f] = onDisk[f].text
        BY <1>2, <2>2, <3>1 DEF Readers, ApplyTypeOK
      <4>2. IsWell(child'[q]) BY <1>5, <1>9, <4>1 DEF IsWell
      <4> QED BY <1>5, <2>1, <3>1, <4>1, <4>2
    <3>2. CASE reads[q] # f
      <4>1. reads[q] \in Configs /\ q \notin Readers(f) /\ good'[reads[q]] = good[reads[q]]
        BY <2>2, <3>2 DEF Readers, ApplyTypeOK
      <4>2. RunsGood(q) BY <1>2, <3>2, <4>1 DEF GoodIsKept
      <4> QED BY <1>5, <4>1, <4>2 DEF RunsGood, IsWell
    <3> QED BY <3>1, <3>2
  <2>6. GoodIsProven'
    <3>1. <<f, onDisk[f].text>> \in proven BY <1>2, <2>1, StartedIsProven
    <3> QED BY <1>1, <1>2, <2>2, <3>1 DEF GoodIsProven, ApplyTypeOK
  <2> QED BY <1>6, <1>7, <1>8, <2>3, <2>4, <2>5, <2>6
<1>10. CASE ~done
  <2>1. good' = good /\ applying' = [applying EXCEPT !.ready = ready]
    BY <1>2, <1>10 DEF HandleApplied, ApplyCompletes
  <2>2. /\ applying' \in Applies \ {NoApply} /\ applying'.file = f /\ applying'.ready = ready
        /\ applying'.recovering = applying.recovering
        /\ applying'.candidate = applying.candidate
    BY <1>2, <2>1 DEF ApplyTypeOK, Applies, NoApply
  <2>3. ApplyTypeOK' BY <1>1, <1>5, <2>1, <2>2 DEF ApplyTypeOK
  <2>4. ApplyIsKnown'
    <3>1. Expected' = Expected /\ NoApply' = NoApply /\ Readers(f)' = Readers(f)
      BY <1>1, <1>2, <2>1, <2>2 DEF Expected, NoApply, Readers
    <3>2. \A q \in ready : reads'[q] = f /\ child'[q].started /\ child'[q].text = Expected'
      BY <1>1, <1>2, <1>3, <1>5, <3>1 DEF Readers
    <3>3. \A q \in Readers(f) : ~IsWell(child'[q])
      BY <1>4, <1>5, <1>10 DEF IsWell, Readers
    <3>4. good'[f] # NoText /\ Readers(f) # {}
      BY <1>2, <2>1 DEF ApplyIsKnown
    <3> QED BY <1>1, <1>2, <2>2, <3>1, <3>2, <3>3, <3>4, SMTT(20) DEF ApplyIsKnown
  <2>5. GoodIsKept'
    BY <1>1, <1>2, <1>5, <1>10, <2>1, <2>2 DEF GoodIsKept, RunsGood, IsWell
  <2>6. GoodIsProven' BY <1>1, <2>1 DEF GoodIsProven
  <2> QED BY <1>6, <1>7, <1>8, <2>3, <2>4, <2>5, <2>6
<1> QED BY <1>9, <1>10

\* The Parent begins an apply, or refuses it.
LEMMA HandleApplyKeeps == ASSUME ApplyIInv, NEW r \in Roles, HandleApply(r) PROVE ApplyIInv'
<1> USE ConfigApplyAssumption DEF ApplyIInv
<1>1. PICK revision \in Texts :
        /\ TakesMessage(r, revision) /\ mail' = [mail EXCEPT ![r] = "none"]
        /\ IF MayApply(r, revision)
           THEN /\ applying' = [file |-> reads[r], candidate |-> revision, ready |-> {},
                                recovering |-> FALSE]
                /\ parent' = "stopping"
           ELSE UNCHANGED <<applying, parent>>
        /\ UNCHANGED <<reads, onDisk, good, child, lockedBy, draft, edits, proven,
                       overwritten>>
  BY DEF HandleApply
<1>2. /\ mail' \in [Roles -> Texts \cup {"none", "config", "ready"}]
      /\ \A q \in Roles : mail'[q] = "ready" => mail[q] = "ready"
      /\ parent = "loop" /\ reads[r] \in Configs
  BY <1>1 DEF TakesMessage, ApplyTypeOK
<1>3. CASE ~MayApply(r, revision)
  <2>1. UNCHANGED <<applying, parent>> BY <1>1, <1>3
  <2>2. ApplyTypeOK' BY <1>1, <1>2, <2>1 DEF ApplyTypeOK
  <2>3. WritersHoldTheLock' /\ SavesAreNotLost'
    BY <1>1, <2>1 DEF WritersHoldTheLock, SavesAreNotLost, Unchanged
  <2> QED BY <1>1, <1>2, <2>1, <2>2, <2>3, FrameKeeps
<1>4. CASE MayApply(r, revision)
  <2>1. /\ applying' \in Applies \ {NoApply} /\ applying'.file = reads[r]
        /\ applying'.ready = {} /\ ~applying'.recovering /\ parent' = "stopping"
    <3>1. /\ applying' = [file |-> reads[r], candidate |-> revision, ready |-> {},
                           recovering |-> FALSE]
          /\ parent' = "stopping" /\ reads[r] # NoText
      BY <1>1, <1>2, <1>4
    <3>2. applying' \in [file : Configs, candidate : Texts, ready : SUBSET Roles,
                         recovering : BOOLEAN]
      BY <1>2, <3>1
    <3>3. applying'.file # NoApply.file BY <3>1 DEF NoApply
    <3> QED BY <3>1, <3>2, <3>3 DEF Applies
  <2>2. /\ good[reads[r]] # NoText /\ r \in Readers(reads[r])
        /\ \A q \in Roles : applying.file # reads[q]
    BY <1>4 DEF MayApply, Readers, NoApply, ApplyTypeOK
  <2>3. ApplyTypeOK' BY <1>1, <1>2, <2>1 DEF ApplyTypeOK
  <2>4. StartsInOrder' /\ ProvenIsComplete' /\ GoodIsProven'
    BY <1>1, <1>2, SMTT(20) DEF StartsInOrder, ProvenIsComplete, GoodIsProven, Readers, IsWell
  <2>5. WritersHoldTheLock' /\ SavesAreNotLost'
    BY <1>1, <2>1, SMTT(20) DEF WritersHoldTheLock, SavesAreNotLost, Unchanged
  <2>6. ApplyIsKnown'
    <3>1. \A q \in Readers(reads[r]) : RunsGood(q)
      BY <2>2 DEF GoodIsKept, Readers
    <3>2. NoApply' = NoApply /\ Readers(reads[r])' = Readers(reads[r])
      BY <1>1 DEF NoApply, Readers
    <3> QED BY <1>1, <2>1, <2>2, <3>1, <3>2, SMTT(20) DEF ApplyIsKnown, Readers, RunsGood,
      IsWell
  <2>7. GoodIsKept'
    BY <1>1, <2>2 DEF GoodIsKept, RunsGood, IsWell
  <2> QED BY <2>3, <2>4, <2>5, <2>6, <2>7
<1> QED BY <1>3, <1>4

\* What holds at the start.
LEMMA InitKeeps == ApplyInit => ApplyIInv
<1> SUFFICES ASSUME ApplyInit PROVE ApplyIInv OBVIOUS
<1> USE ConfigApplyAssumption DEF ApplyInit
<1>1. child \in [Roles -> Children] /\ \A r \in Roles : child[r] = NewChild("starting")
  BY DEF Children, NewChild, SomeText
<1>2. ApplyTypeOK
  <2>1. onDisk \in [Configs -> [text : Texts, by : {"editor", "save", "restore"}]]
    OBVIOUS
  <2>2. draft \in [Roles -> [basis : SomeText, text : SomeText]] BY DEF SomeText
  <2> QED BY <1>1, <2>1, <2>2 DEF ApplyTypeOK, Applies, SomeText
<1>3. StartsInOrder /\ ProvenIsComplete
  BY <1>1 DEF StartsInOrder, ProvenIsComplete, NewChild, IsWell, Readers
<1>4. WritersHoldTheLock /\ SavesAreNotLost
  BY DEF WritersHoldTheLock, SavesAreNotLost
<1>5. ApplyIsKnown /\ GoodIsKept /\ GoodIsProven
  BY DEF ApplyIsKnown, GoodIsKept, GoodIsProven
<1> QED BY <1>2, <1>3, <1>4, <1>5 DEF ApplyIInv

\* Every step keeps the invariant.
LEMMA NextKeeps == ApplyIInv /\ [ApplyNext]_applyvars => ApplyIInv'
<1> SUFFICES ASSUME ApplyIInv, [ApplyNext]_applyvars PROVE ApplyIInv' OBVIOUS
<1>1. CASE UNCHANGED applyvars
  BY <1>1 DEF applyvars, ApplyIInv, ApplyTypeOK, StartsInOrder, ProvenIsComplete,
     WritersHoldTheLock, Unchanged, ApplyIsKnown, GoodIsKept, GoodIsProven,
     SavesAreNotLost, Readers, IsWell, RunsGood, Expected, Applies, NoApply
<1>2. CASE LockTimesOut \/ Terminated BY <1>2, EndsKeeps DEF LockTimesOut, Terminated
<1>3. CASE TimesOut BY <1>3, RecoverKeeps DEF TimesOut
<1>4. ASSUME NEW r \in Roles, SeesExit(r) PROVE ApplyIInv'
  BY <1>4, EndsKeeps, RecoverKeeps DEF SeesExit
<1>5. ASSUME NEW r \in Roles, AnswersTheGone(r) PROVE ApplyIInv'
  BY <1>5, EndsKeeps DEF AnswersTheGone
<1>6. CASE LockRestore \/ WriteRestore \/ Respawn
  BY <1>6, LockRestoreKeeps, WriteRestoreKeeps, RespawnKeeps
<1>7. ASSUME NEW r \in Roles,
             \/ HandleConfig(r) \/ RefuseReady(r) \/ HandleReady(r) \/ HandleApplied(r)
             \/ HandleApply(r)
      PROVE  ApplyIInv'
  BY <1>7, HandleConfigKeeps, RefuseReadyKeeps, HandleReadyKeeps, HandleAppliedKeeps,
     HandleApplyKeeps
<1>8. ASSUME NEW r \in Roles, ChildStep(r) PROVE ApplyIInv'
  BY <1>8, LoadKeeps, StartedKeeps, AskApplyKeeps, BeginSaveKeeps, WriteSaveKeeps,
     ChildExitsKeeps
  DEF ChildStep
<1>9. ASSUME NEW f \in Configs, Edit(f) PROVE ApplyIInv' BY <1>9, EditKeeps
<1> QED BY <1>1, <1>2, <1>3, <1>4, <1>5, <1>6, <1>7, <1>8, <1>9 DEF ApplyNext, ParentStep

\* What is kept outside an apply and known of one says what runs.
LEMMA KeptGoodRuns == ApplyIInv => GoodIsRunning
<1> SUFFICES ASSUME ApplyIInv, NEW f \in Configs, good[f] # NoText,
                    \A r \in Readers(f) : IsWell(child[r]),
                    NEW r \in Readers(f)
             PROVE  child[r].text = good[f]
  BY DEF GoodIsRunning
<1>1. r \in Roles /\ reads[r] = f BY DEF Readers
<1>2. CASE applying.file # f
  BY <1>1, <1>2 DEF ApplyIInv, GoodIsKept, RunsGood
<1>3. CASE applying.file = f
  <2>1. applying # NoApply
    BY <1>3, ConfigApplyAssumption DEF NoApply
  <2> QED BY <1>1, <1>3, <2>1 DEF ApplyIInv, ApplyIsKnown, RunsGood
<1> QED BY <1>2, <1>3

\* For any roles, files and texts, any number of edits and whatever fails: a rollback
\* restores a text with which all Children that read the file have started together, it
\* never goes back behind what they run, and it undoes no save made under the lock.
THEOREM ApplyCorrect == ApplySpec => []ApplyInv
<1>1. ApplySpec => []ApplyIInv BY InitKeeps, NextKeeps, PTL DEF ApplySpec
<1>2. ApplyIInv => ApplyInv BY KeptGoodRuns DEF ApplyInv
<1> QED BY <1>1, <1>2, PTL

=============================================================================
