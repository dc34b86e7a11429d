---------------------------- MODULE ConfigReload ----------------------------
(***************************************************************************)
(* The pool list of spo-dashboard: one file per operator in a directory    *)
(* that is edited while the daemon runs, merged again by every scheduler   *)
(* tick (reloadConfig, LoadAllConfigs).  The files are read one after the  *)
(* other, in the order of their names, so a reload sees each at its own    *)
(* moment.  A file is abstracted to what its content makes of it.          *)
(***************************************************************************)
EXTENDS Integers

CONSTANTS
    NFiles,         \* the files of the directory are 1..NFiles, in name order
    PoolIds,        \* the pools a file may list
    SinglePool      \* the -pool flag: a pool id, or NoSinglePool

NoSinglePool == "all pools"

ASSUME ConfigAssumption == /\ NFiles \in Nat \ {0}
                           /\ NoSinglePool \notin PoolIds
                           /\ SinglePool \in PoolIds \cup {NoSinglePool}

Files == 1..NFiles

\* What a file holds: it cannot be opened or parsed, or it names an address of
\* Blockfrost or none, and lists pools.
Broken == [parsed |-> FALSE, address |-> FALSE, pools |-> {}]
Content == {Broken} \cup [parsed : {TRUE}, address : BOOLEAN, pools : SUBSET PoolIds]

VARIABLES
    file,           \* file[f]: its content now
    pools,          \* Service.pools, the entries of the merged configuration
    next,           \* the next file the reload reads; 0: no reload under way
    merged,         \* the entries merged so far
    address,        \* an address was found
    steady,         \* the files unchanged since this reload began
    loaded          \* some reload succeeded

configVars == <<file, pools, next, merged, address, steady, loaded>>

Entry(f, p) == [operator |-> f, pool |-> p]

\* singlePool restricts the list to its pool.
Restricted(entries) ==
    IF SinglePool = NoSinglePool THEN entries
    ELSE { e \in entries : e.pool = SinglePool }

\* A reload that cannot list the directory keeps the list: a stuttering step.
BeginReload ==
    /\ next = 0
    /\ next' = 1 /\ merged' = {} /\ address' = FALSE /\ steady' = Files
    /\ UNCHANGED <<file, pools, loaded>>

\* Faulty variant: the first broken file ends the merge.
LoadFileStrict ==
    /\ next \in Files
    /\ IF file[next] = Broken
         THEN next' = NFiles + 1 /\ UNCHANGED <<merged, address>>
         ELSE /\ merged' = merged \cup { Entry(next, p) : p \in file[next].pools }
              /\ address' = (address \/ file[next].address)
              /\ next' = next + 1
    /\ UNCHANGED <<file, pools, steady, loaded>>

\* One file: skipped if broken, its pools merged otherwise.
LoadFile ==
    /\ next \in Files
    /\ IF file[next] = Broken
         THEN UNCHANGED <<merged, address>>
         ELSE /\ merged' = merged \cup { Entry(next, p) : p \in file[next].pools }
              /\ address' = (address \/ file[next].address)
    /\ next' = next + 1
    /\ UNCHANGED <<file, pools, steady, loaded>>

\* LoadAllConfigs found an address and some pool.
Usable == address /\ merged # {}

\* Faulty variant: the list is replaced by whatever was merged.
EndReloadAnyway ==
    /\ next = NFiles + 1
    /\ pools' = Restricted(merged)
    /\ loaded' = TRUE
    /\ next' = 0 /\ merged' = {} /\ address' = FALSE /\ steady' = {}
    /\ UNCHANGED file

\* The list is replaced by what was merged, or kept on an error.
EndReload ==
    /\ next = NFiles + 1
    /\ pools' = IF Usable THEN Restricted(merged) ELSE pools
    /\ loaded' = (loaded \/ Usable)
    /\ next' = 0 /\ merged' = {} /\ address' = FALSE /\ steady' = {}
    /\ UNCHANGED file

\* An editor writes a file, half of it first perhaps.
Edit(f, content) ==
    /\ content # file[f]
    /\ file' = [file EXCEPT ![f] = content]
    /\ steady' = steady \ {f}
    /\ UNCHANGED <<pools, next, merged, address, loaded>>

ConfigInit ==
    /\ file \in [Files -> Content]
    /\ pools = {} /\ next = 0 /\ merged = {} /\ address = FALSE
    /\ steady = {} /\ loaded = FALSE

Reload == BeginReload \/ LoadFile \/ EndReload

ConfigNext ==
    \/ Reload
    \/ \E f \in Files, content \in Content : Edit(f, content)

ConfigSpec == ConfigInit /\ [][ConfigNext]_configVars

\* ----------------------------------------------------------------- properties

\* No error empties the list of a daemon that had one: files broken or half
\* written in any order while they are read, or an address that vanished.
\* (With singlePool a broken file does empty it, against reloadConfig's
\* comment: the restriction comes after the check for pools.)
PoolsNeverEmptied ==
    SinglePool = NoSinglePool /\ loaded => pools # {}

\* One bad file never takes the others down: a reload lists every pool of the
\* files nobody touched while it ran, if one of them names the address,
\* whichever other file was broken or was being edited meanwhile.
SteadyFilesListed ==
    [][EndReload /\ (\E f \in steady : file[f].address) =>
         \A f \in steady :
            Restricted({ Entry(f, p) : p \in file[f].pools }) \subseteq pools']_configVars
=============================================================================
