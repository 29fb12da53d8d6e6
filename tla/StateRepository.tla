---------------------------- MODULE StateRepository ----------------------------
(***************************************************************************)
(* AssuranceStateRepository (internal/adapters/storage/assurance_repo.go): *)
(* the last assurance state of every subject in memory and in one file     *)
(* that every save writes anew, in place.                                  *)
(***************************************************************************)
EXTENDS Integers, FiniteSets

CONSTANTS
    Recorded,   \* subjects
    MaxSaves    \* bound: calls of SaveState

VARIABLES
    up,         \* the process runs
    memory,     \* states: subject -> number of the save, 0 for none
    disk,       \* what assurance_states.json holds, as memory
    torn,       \* the file does not parse
    saves,      \* calls of SaveState so far; a save stands for what it records
    kept        \* history: per subject, the last save that returned no error

repoVars == <<up, memory, disk, torn, saves, kept>>

Nothing == [s \in Recorded |-> 0]

RepoInit ==
    /\ up = TRUE
    /\ memory = Nothing
    /\ disk = Nothing /\ torn = FALSE
    /\ saves = 0
    /\ kept = Nothing

\* SaveState up to the write: the record is in memory.
Remembered(s) ==
    /\ up
    /\ saves < MaxSaves
    /\ saves' = saves + 1
    /\ memory' = [memory EXCEPT ![s] = saves']

\* persistToDisk writes all records.
SaveState(s) ==
    /\ Remembered(s)
    /\ disk' = memory' /\ torn' = FALSE
    /\ kept' = [kept EXCEPT ![s] = saves']
    /\ UNCHANGED up

\* The file cannot be opened, or the write breaks off: SaveState returns an
\* error, and memory keeps the record.
SaveStateFails(s) ==
    /\ Remembered(s)
    /\ torn' \in {torn, TRUE}
    /\ UNCHANGED <<up, disk, kept>>

\* The process dies, between saves or inside the write of one.
Dies ==
    /\ up
    /\ up' = FALSE
    /\ memory' = Nothing
    /\ UNCHANGED <<disk, torn, saves, kept>>

DiesInSave(s) ==
    /\ up
    /\ saves < MaxSaves
    /\ saves' = saves + 1
    /\ up' = FALSE
    /\ memory' = Nothing
    /\ torn' = TRUE
    /\ UNCHANGED <<disk, kept>>

\* Faulty variant of loadFromDisk: a copy that was read at the first start is
\* used when the file does not parse.
loadFromDiskFirst == [s \in Recorded |-> IF torn /\ disk[s] > 0 THEN 1 ELSE disk[s]]

\* loadFromDisk: a file that does not parse is as good as none.
loadFromDisk == IF torn THEN Nothing ELSE disk

\* NewAssuranceStateRepository.
Starts ==
    /\ ~up
    /\ up' = TRUE
    /\ memory' = loadFromDisk
    /\ UNCHANGED <<disk, torn, saves, kept>>

\* GetState: the number of the save it answers from, or 0 for an error.
GetState(s) == memory[s]

RepoNext ==
    \/ \E s \in Recorded : SaveState(s) \/ SaveStateFails(s) \/ DiesInSave(s)
    \/ Dies
    \/ Starts

RepoSpec == RepoInit /\ [][RepoNext]_repoVars

\* GetState answers with the last state whose save succeeded, with a later
\* one, or with the error for no state, never with an older state: failed
\* saves, crashes and damaged files may lose a state and never bring one back.
NeverGoesBack ==
    \A s \in Recorded : up => GetState(s) = 0 \/ GetState(s) >= kept[s]
=============================================================================
