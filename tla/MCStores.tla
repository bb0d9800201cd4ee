------------------------------ MODULE MCStores ------------------------------
(***************************************************************************)
(* What Control keeps about others and how it is written: one small        *)
(* instance each of executor pairing, of a registry and its backup, of the *)
(* download links, of the OAuth clients, of the locks files are changed    *)
(* under and of the configuration files the Parent applies.  They share no *)
(* variable, so a behaviour runs one of them, chosen at the start, and the *)
(* others rest in an initial state.                                        *)
(***************************************************************************)
EXTENDS ExecutorPairing, RegistryRecovery, FileLinks, PathLocks, OAuthGrants, ConfigApply, TLC

CONSTANTS l1, l2, f1, x1

VARIABLE part  \* the component that runs

\* One process with two threads and another with one; the shards are in another
\* order than the paths.
MCThreads == {"t1", "t2", "t3"}
MCProcessOf == "t1" :> "q1" @@ "t2" :> "q1" @@ "t3" :> "q2"
MCPaths == 1 .. 2
MCShardOf == 1 :> 2 @@ 2 :> 1

\* A link for one download and one for two.
MCLimit == l1 :> 1 @@ l2 :> 2

\* Configuration files are interchangeable: Control reads the first.
FirstFile == reads["control"] = f1

\* One of the initial states of the configuration files.
AtRest == \A r \in Roles : reads[r] = f1 /\ onDisk[f1].text = x1

StoresInit ==
    /\ part \in {"pairing", "registry", "links", "oauth", "locks", "config"}
    /\ Init /\ RegistryInit /\ LinksInit /\ OAuthInit /\ PathLocksInit /\ ApplyInit
    /\ part # "registry" => primary = NoFile
    /\ FirstFile /\ (part # "config" => AtRest)

StoresNext ==
    /\ UNCHANGED part
    /\ \/ part = "pairing" /\ Next
          /\ UNCHANGED <<rvars, lvars, oauthvars, lockvars, applyvars>>
       \/ part = "registry" /\ RegistryNext
          /\ UNCHANGED <<vars, lvars, oauthvars, lockvars, applyvars>>
       \/ part = "links" /\ LinksNext
          /\ UNCHANGED <<vars, rvars, oauthvars, lockvars, applyvars>>
       \/ part = "oauth" /\ OAuthNext
          /\ UNCHANGED <<vars, rvars, lvars, lockvars, applyvars>>
       \/ part = "locks" /\ PathLocksNext
          /\ UNCHANGED <<vars, rvars, lvars, oauthvars, applyvars>>
       \/ part = "config" /\ ApplyNext
          /\ UNCHANGED <<vars, rvars, lvars, oauthvars, lockvars>>

StoresSpec ==
    StoresInit /\ [][StoresNext]_<<part, vars, rvars, lvars, oauthvars, lockvars, applyvars>>

\* Device codes are interchangeable.
Symmetry == Permutations(Devices)
=============================================================================
