------------------------- MODULE StateRepositoryProofs -------------------------
(***************************************************************************)
(* NeverGoesBack for any set of subjects and any number of saves.          *)
(***************************************************************************)
EXTENDS StateRepository, TLAPS

\* A record of saves may stand in for what was kept: nothing, or nothing
\* older.
NoOlder(record) == \A s \in Recorded : record[s] = 0 \/ record[s] >= kept[s]

\* The records name saves; up and torn are only ever tested.
RecordsOK ==
    /\ memory \in [Recorded -> Nat]
    /\ disk \in [Recorded -> Nat]
    /\ kept \in [Recorded -> Nat]
    /\ saves \in Nat

\* Inductive: the file that still parses is as good as memory, and no save
\* that was kept is later than the last one.
RepoInv ==
    /\ RecordsOK
    /\ \A s \in Recorded : kept[s] <= saves
    /\ NoOlder(memory)
    /\ NoOlder(disk)

\* An empty repository satisfies the invariant.
LEMMA RepoInitInv == ASSUME RepoInit PROVE RepoInv
<1>1. Nothing \in [Recorded -> Nat] /\ \A s \in Recorded : Nothing[s] = 0
  BY DEF Nothing
<1> QED
  BY <1>1 DEF RepoInit, RepoInv, RecordsOK, NoOlder

\* Saves, failed writes, crashes and restarts keep the invariant.
LEMMA RepoNextInv ==
    ASSUME MaxSaves \in Nat, RepoInv, [RepoNext]_repoVars PROVE RepoInv'
<1> USE DEF RepoInv, RecordsOK, NoOlder
<1>1. ASSUME NEW s \in Recorded, SaveState(s) PROVE RepoInv'
  BY <1>1 DEF SaveState, Remembered
<1>2. ASSUME NEW s \in Recorded, SaveStateFails(s) PROVE RepoInv'
  BY <1>2 DEF SaveStateFails, Remembered
<1>3. ASSUME NEW s \in Recorded, DiesInSave(s) PROVE RepoInv'
  BY <1>3 DEF DiesInSave, Nothing
<1>4. CASE Dies
  BY <1>4 DEF Dies, Nothing
<1>5. CASE Starts
  BY <1>5 DEF Starts, loadFromDisk, Nothing
<1>6. CASE UNCHANGED repoVars
  BY <1>6 DEF repoVars
<1> QED
  BY <1>1, <1>2, <1>3, <1>4, <1>5, <1>6 DEF RepoNext

\* However saves, failed writes, crashes and restarts of the repository
\* alternate, GetState never answers with a state older than the last one
\* whose SaveState succeeded.
THEOREM RepositoryNeverGoesBack ==
    ASSUME MaxSaves \in Nat PROVE RepoSpec => []NeverGoesBack
<1>1. RepoInit => RepoInv
  BY RepoInitInv
<1>2. RepoInv /\ [RepoNext]_repoVars => RepoInv'
  BY RepoNextInv
<1>3. RepoInv => NeverGoesBack
  BY DEF RepoInv, NoOlder, NeverGoesBack, GetState
<1> QED
  BY <1>1, <1>2, <1>3, PTL DEF RepoSpec
=============================================================================
