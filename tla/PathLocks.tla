----------------------------- MODULE PathLocks ------------------------------
(***************************************************************************)
(* path_locks: a thread that changes several files registers with an entry *)
(* of its process for each path, then takes the entries' locks in the      *)
(* order of the paths, then the shared lock files the paths fall into, in  *)
(* the order of the shards.  Unrelated paths share shards, and the entries *)
(* are dropped when their last user leaves.                                *)
(***************************************************************************)
EXTENDS Naturals, FiniteSets, FiniteSetsExt

CONSTANTS Threads,    \* threads that lock
          ProcessOf,  \* the process of each thread
          Paths,      \* paths, numbered in the order of their keys
          ShardOf,    \* the shard of each path, numbered in order
          NoEntry     \* the absence of an entry

ASSUME PathLocksAssumption ==
    /\ Paths \subseteq Nat /\ ShardOf \in [Paths -> Nat]
    /\ DOMAIN ProcessOf = Threads

VARIABLES
    turn,      \* "idle", "taking", "held" or "leaving"
    wants,      \* the paths of a thread's call
    entry,      \* the entry a thread has registered with, by path
    locked,     \* the entries' locks it holds, by path
    files,      \* the lock files it holds
    registry,   \* each process's entry of a path
    users       \* users of each entry

lockvars == <<turn, wants, entry, locked, files, registry, users>>

Processes == {ProcessOf[t] : t \in Threads}
Entries == 1 .. (Cardinality(Threads) * Cardinality(Paths))

ASSUME EntriesAssumption ==
    IsFiniteSet(Threads) /\ IsFiniteSet(Paths) /\ NoEntry \notin Entries

PathLocksInit ==
    /\ turn = [t \in Threads |-> "idle"] /\ wants = [t \in Threads |-> {}]
    /\ entry = [t \in Threads |-> [p \in Paths |-> NoEntry]]
    /\ locked = [t \in Threads |-> {}] /\ files = [t \in Threads |-> {}]
    /\ registry = [q \in Processes |-> [p \in Paths |-> NoEntry]]
    /\ users = [e \in Entries |-> 0]

Registered(t) == {p \in Paths : entry[t][p] # NoEntry}
ShardsOf(t) == {ShardOf[p] : p \in wants[t]}

\* An entry that no thread and no registry refers to: a new object.
NewEntry == Min({e \in Entries : /\ \A t \in Threads, p \in Paths : entry[t][p] # e
                              /\ \A q \in Processes, p \in Paths : registry[q][p] # e})

Call(t) ==
    /\ turn[t] = "idle"
    /\ \E want \in SUBSET Paths \ {{}} : wants' = [wants EXCEPT ![t] = want]
    /\ turn' = [turn EXCEPT ![t] = "taking"]
    /\ UNCHANGED <<entry, locked, files, registry, users>>

\* _thread_lock_for
Register(t) ==
    /\ turn[t] = "taking" /\ Registered(t) # wants[t]
    /\ LET p == Min(wants[t] \ Registered(t))
           q == ProcessOf[t]
           known == registry[q][p] # NoEntry
           e == IF known THEN registry[q][p] ELSE NewEntry
       IN /\ entry' = [entry EXCEPT ![t][p] = e]
          /\ registry' = [registry EXCEPT ![q][p] = e]
          /\ users' = [users EXCEPT ![e] = IF known THEN @ + 1 ELSE 1]
    /\ UNCHANGED <<turn, wants, locked, files>>

NextPath(t) == Min(wants[t] \ locked[t])
EntryFree(t, p) == \A u \in Threads \ {t} :
                      ~(p \in locked[u] /\ entry[u][p] = entry[t][p])

TakeLock(t) ==
    /\ turn[t] = "taking" /\ Registered(t) = wants[t] /\ locked[t] # wants[t]
    /\ EntryFree(t, NextPath(t))
    /\ locked' = [locked EXCEPT ![t] = @ \cup {NextPath(t)}]
    /\ UNCHANGED <<turn, wants, entry, files, registry, users>>

NextShard(t) == Min(ShardsOf(t) \ files[t])
FileFree(s) == \A u \in Threads : s \notin files[u]

TakeFile(t) ==
    /\ turn[t] = "taking" /\ locked[t] = wants[t] /\ files[t] # ShardsOf(t)
    /\ \/ FileFree(NextShard(t)) /\ files' = [files EXCEPT ![t] = @ \cup {NextShard(t)}]
          /\ UNCHANGED turn
       \* the lock file cannot be opened
       \/ turn' = [turn EXCEPT ![t] = "leaving"] /\ UNCHANGED files
    /\ UNCHANGED <<wants, entry, locked, registry, users>>

Enter(t) ==
    /\ turn[t] = "taking" /\ locked[t] = wants[t] /\ files[t] = ShardsOf(t)
    /\ turn' = [turn EXCEPT ![t] = "held"]
    /\ UNCHANGED <<wants, entry, locked, files, registry, users>>

Leave(t) ==
    /\ turn[t] = "held" /\ turn' = [turn EXCEPT ![t] = "leaving"]
    /\ UNCHANGED <<wants, entry, locked, files, registry, users>>

Unlock(t) ==
    /\ turn[t] = "leaving" /\ locked[t] # {}
    /\ IF files[t] # {} THEN /\ files' = [files EXCEPT ![t] = @ \ {Max(@)}]
                             /\ UNCHANGED locked
                        ELSE /\ locked' = [locked EXCEPT ![t] = @ \ {Max(@)}]
                             /\ UNCHANGED files
    /\ UNCHANGED <<turn, wants, entry, registry, users>>

\* Variant: the entry goes with its first user.
Unregister_DropsEntry(t) ==
    /\ turn[t] = "leaving" /\ locked[t] = {} /\ Registered(t) # {}
    /\ LET p == Max(Registered(t)) IN
          /\ entry' = [entry EXCEPT ![t][p] = NoEntry]
          /\ users' = [users EXCEPT ![entry[t][p]] = @ - 1]
          /\ registry' = [registry EXCEPT ![ProcessOf[t]][p] = NoEntry]
    /\ UNCHANGED <<turn, wants, locked, files>>

\* _release_thread_lock: the entry goes with its last user.
Unregister(t) ==
    /\ turn[t] = "leaving" /\ locked[t] = {} /\ Registered(t) # {}
    /\ LET p == Max(Registered(t))
           q == ProcessOf[t]
           e == entry[t][p]
       IN /\ entry' = [entry EXCEPT ![t][p] = NoEntry]
          /\ users' = [users EXCEPT ![e] = @ - 1]
          /\ registry' = IF users[e] <= 1 /\ registry[q][p] = e
                         THEN [registry EXCEPT ![q][p] = NoEntry] ELSE registry
    /\ UNCHANGED <<turn, wants, locked, files>>

Return(t) ==
    /\ turn[t] = "leaving" /\ locked[t] = {} /\ Registered(t) = {}
    /\ turn' = [turn EXCEPT ![t] = "idle"] /\ wants' = [wants EXCEPT ![t] = {}]
    /\ UNCHANGED <<entry, locked, files, registry, users>>

LockStep(t) == \/ Call(t) \/ Register(t) \/ TakeLock(t) \/ TakeFile(t) \/ Enter(t)
               \/ Leave(t) \/ Unlock(t) \/ Unregister(t) \/ Return(t)

PathLocksNext == \E t \in Threads : LockStep(t)

PathLocksSpec == PathLocksInit /\ [][PathLocksNext]_lockvars

-----------------------------------------------------------------------------
(* Properties                                                                *)

\* Two threads of any processes never change the same path at once, and threads
\* of one process that use a path at once use the same entry.
Exclusion ==
    \A t, u \in Threads : t # u =>
        /\ ~(turn[t] = "held" /\ turn[u] = "held" /\ wants[t] \cap wants[u] # {})
        /\ ProcessOf[t] = ProcessOf[u] =>
             \A p \in Registered(t) \cap Registered(u) : entry[t][p] = entry[u][p]

\* An entry is in the registry exactly while it has users: entries neither leak
\* nor are dropped under a thread that waits for them.
EntriesAreCounted ==
    \A q \in Processes, p \in Paths :
        LET using == {t \in Threads : ProcessOf[t] = q /\ p \in Registered(t)}
        IN IF registry[q][p] = NoEntry THEN using = {}
           ELSE users[registry[q][p]] = Cardinality(using) /\ using # {}

\* Some thread that is inside path_locks can go on: the locks of the paths and
\* the lock files of the shards never wait for one another in a circle.
Waits(t) ==
    turn[t] = "taking" /\
    \/ Registered(t) = wants[t] /\ locked[t] # wants[t] /\ ~EntryFree(t, NextPath(t))
    \/ locked[t] = wants[t] /\ files[t] # ShardsOf(t) /\ ~FileFree(NextShard(t))

NoCircularWait == (\E t \in Threads : Waits(t)) =>
                      \E t \in Threads : turn[t] # "idle" /\ ~Waits(t)

PathLocksInv == Exclusion /\ EntriesAreCounted /\ NoCircularWait
=============================================================================
