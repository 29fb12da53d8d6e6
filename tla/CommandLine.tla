------------------------------ MODULE CommandLine ------------------------------
(***************************************************************************)
(* The commands of `oskal' that work on local evidence (cmd/oskal): which  *)
(* directory a command uses (internal/config), how evidence is recorded    *)
(* and found again, and what the commands say about a workload, doctor and *)
(* inspect (internal/application/diagnostics) and the cockpit included.    *)
(* Every command is a process of its own; they share the file system.      *)
(*                                                                         *)
(* A workload has namespace, kind and name, the parts of the name between  *)
(* hyphens.  A directory has exists, usable (a plain file may stand in its *)
(* place) and files, the envelopes under <ID>.json.  Time is in ticks, and *)
(* what happens in one tick happens in one second.                         *)
(***************************************************************************)
EXTENDS Integers, Sequences, FiniteSets, SequencesExt

CONSTANTS
    Workloads,      \* the workloads that are recorded and asked about
    Environments,   \* values of OSKAL_EVIDENCE_DIR (dir) and OSKAL_SERVER (server)
    SettingsFiles,  \* states of .oskal.yaml: kind, dir and server
    DriftWindow,    \* age from which drift calls evidence stale (10 minutes)
    InspectWindow,  \* age from which inspect does (15 minutes)
    MaxTicks,       \* bound: time
    MaxRecords      \* bound: calls of record admission

VARIABLES
    ticks,          \* time
    folders,        \* the directories
    environment,    \* OSKAL_EVIDENCE_DIR and OSKAL_SERVER
    settings,       \* .oskal.yaml: kind "none", "valid" or "broken", and what
                    \* its parsing sets
    records,        \* records made so far
    said,           \* what the last command said, about what, resting on what
    noted           \* history: what was recorded under the present settings

commandVars == <<ticks, folders, environment, settings, records, said, noted>>

Directories == {"evidence", "other"}
NoDir == ""                 \* the empty string
NoServer == ""
Absent == "absent"          \* a key that is not in the file
NotGiven == "not given"     \* a flag that is not on the command line

\* A file that does not parse may have set fields before the parser gave up.
NoSettings == [kind |-> "none", dir |-> Absent, server |-> NoServer]
BrokenSettings == [NoSettings EXCEPT !.kind = "broken"]

ASSUME CommandAssumption ==
    /\ Environments \subseteq [dir : Directories \cup {NoDir}, server : STRING]
    /\ SettingsFiles \subseteq
         {NoSettings} \cup [kind : {"valid", "broken"},
                           dir : Directories \cup {NoDir, Absent}, server : STRING]

-----------------------------------------------------------------------------

(***************************************************************************)
(* Which directory.  A flag wins over the environment, the environment     *)
(* over the file, and ./evidence is the default once it is there.          *)
(***************************************************************************)
DefaultConfig == IF folders["evidence"].exists THEN "evidence" ELSE NoDir

\* LoadConfig: the file is unmarshalled over the defaults, so that an empty
\* evidence_dir erases the default; a file that does not parse ends it before
\* the environment is looked at, with an error and what was set so far.
LoadConfig ==
    LET parsed == settings.kind # "broken" IN
    [failed |-> ~parsed,
     dir |-> IF parsed /\ environment.dir # NoDir THEN environment.dir
             ELSE IF settings.dir # Absent THEN settings.dir
             ELSE DefaultConfig,
     server |-> IF parsed /\ environment.server # NoServer THEN environment.server
                ELSE settings.server]

\* PersistentPreRunE: the error counts only if the file was named (--config).
PreRunFails(named) == named /\ (LoadConfig.failed \/ settings.kind = "none")

EvidenceDir(flag) == IF flag # NotGiven THEN flag ELSE LoadConfig.dir
ServerAddr(flag) == IF flag # NotGiven THEN flag ELSE LoadConfig.server

\* Faulty variant of TargetDir: the configured directory is not used.
TargetDirHere(own) == IF own # NoDir THEN own ELSE "evidence"

\* Where record admission writes; its own flag hides the global one.
TargetDir(own) ==
    IF own # NoDir THEN own
    ELSE IF EvidenceDir(NotGiven) # NoDir THEN EvidenceDir(NotGiven)
    ELSE "evidence"

-----------------------------------------------------------------------------

(***************************************************************************)
(* Evidence on disk.                                                       *)
(***************************************************************************)
WithoutSuffix(name, suffix) ==
    IF Len(name) > 1 /\ Last(name) = suffix THEN Front(name) ELSE name

\* matchSubject: the name decides, whatever the namespace and the kind.
MatchesWorkload(own, asked) ==
    \/ own = asked
    \/ IsPrefix(asked.name, own.name)
    \/ IsPrefix(WithoutSuffix(WithoutSuffix(asked.name, "binding"), "contract"), own.name)

\* loadLocalEvidence: the directory is made if it is not there, or the call
\* fails.
Opened(dir) ==
    IF dir # NoDir /\ folders[dir].usable
    THEN [folders EXCEPT ![dir].exists = TRUE] ELSE folders

CannotOpen(dir) == dir # NoDir /\ ~folders[dir].usable

Found(dir, w) ==
    IF dir = NoDir THEN {} ELSE {e \in folders[dir].files : MatchesWorkload(e.workload, w)}

\* os.WriteFile of the envelope to <ID>.json.
FiledIn(dir, envelope) ==
    [folders EXCEPT ![dir].exists = TRUE,
                    ![dir].files = {e \in @ : e.id # envelope.id} \cup {envelope}]

-----------------------------------------------------------------------------

(***************************************************************************)
(* What the commands say of a workload, given the evidence they found.     *)
(***************************************************************************)

\* state, explain, and the evaluations that are exported and inspected.
StateFrom(evidence) == IF evidence = {} THEN "UNKNOWN" ELSE "ASSURED"

OlderThan(window, evidence) == {e \in evidence : ticks - e.at > window}

\* drift.
DriftFrom(evidence) ==
    CASE evidence = {} -> "UNKNOWN"
      [] OlderThan(DriftWindow, evidence) # {} -> "STALE"
      [] OTHER -> "ASSURED"

\* InspectSubject.
Disposition(state) ==
    CASE state = "UNKNOWN" -> "SAFE_HOLD"
      [] state = "FAILED" -> "DENY"
      [] state = "STALE" -> "ADMIT_WITH_OBLIGATIONS"
      [] OTHER -> "ADMIT"

InspectSubject(evidence) ==
    [state |-> StateFrom(evidence), disposition |-> Disposition(StateFrom(evidence)),
     stale |-> OlderThan(InspectWindow, evidence), merkleValid |-> evidence # {},
     remediation |-> StateFrom(evidence) # "ASSURED", lineageVerified |-> TRUE]

\* RunDoctor: the worst of the checks; the platform's are all well or not.
RunDoctor(dir, platform) ==
    IF CannotOpen(dir) THEN "FAIL"
    ELSE IF dir = NoDir \/ ~platform THEN "WARN"
    ELSE "PASS"

Says(command, w, state, evidence, dir) ==
    [command |-> command, workload |-> w, state |-> state, rests |-> evidence, dir |-> dir]

Anything == CHOOSE w \in Workloads : TRUE
Silence == Says("none", Anything, "none", {}, NoDir)
Complaint(command, w, dir) == Says(command, w, "error", {}, dir)

-----------------------------------------------------------------------------

CommandInit ==
    /\ ticks = 0
    /\ \E blocked \in SUBSET {"other"} :
         folders = [d \in Directories |-> [exists |-> d \in blocked,
                                          usable |-> d \notin blocked, files |-> {}]]
    /\ environment \in Environments
    /\ settings \in SettingsFiles
    /\ records = 0
    /\ said = Silence
    /\ noted = {}

\* oskal record admission: whatever the manifest holds is recorded.
RecordAdmission(w, own) ==
    LET dir == TargetDir(own)
        envelope == [id |-> <<w.name, ticks>>, workload |-> w, at |-> ticks]
    IN /\ records < MaxRecords
       /\ records' = records + 1
       /\ IF CannotOpen(dir)
          THEN said' = Complaint("record", w, dir) /\ UNCHANGED <<folders, noted>>
          ELSE /\ folders' = FiledIn(dir, envelope)
               /\ said' = Says("record", w, "VERIFIED", {envelope}, dir)
               /\ noted' = {n \in noted : n.id # envelope.id \/ n.dir # dir}
                             \cup {[id |-> envelope.id, workload |-> w, own |-> own,
                                    dir |-> dir]}
       /\ UNCHANGED <<ticks, environment, settings>>

\* What resolveSubject finds; nothing when the directory cannot be opened.
Seen(flag, w) ==
    IF CannotOpen(EvidenceDir(flag)) THEN {} ELSE Found(EvidenceDir(flag), w)

\* A command that reads evidence; loud ones report what they cannot open.
Reads(command, w, flag, state, loud) ==
    /\ folders' = Opened(EvidenceDir(flag))
    /\ said' = IF loud /\ CannotOpen(EvidenceDir(flag))
               THEN Complaint(command, w, EvidenceDir(flag))
               ELSE Says(command, w, state, Seen(flag, w), EvidenceDir(flag))
    /\ UNCHANGED <<ticks, environment, settings, records, noted>>

\* The commands that look at no local evidence.
Asserts(command, w, state) ==
    /\ said' = Says(command, w, state, {}, NoDir)
    /\ UNCHANGED <<ticks, folders, environment, settings, records, noted>>

\* state and explain ask the server when one is named, by the flag, the
\* environment or the file, and then never look at local evidence.
AskServer(w, server) ==
    /\ ServerAddr(server) # NoServer
    /\ \E answer \in {"UNKNOWN", "ASSURED", "error"} : Asserts("remote", w, answer)

AssuranceStateCommand(w, flag, server) ==
    \/ AskServer(w, server)
    \/ /\ ServerAddr(server) = NoServer
       /\ Reads("state", w, flag, StateFrom(Seen(flag, w)), TRUE)

ExplainCommand(w, flag, server) ==
    \/ AskServer(w, server)
    \/ /\ ServerAddr(server) = NoServer
       /\ Reads("explain", w, flag, StateFrom(Seen(flag, w)), TRUE)

EvidenceCommand(w, flag) == Reads("evidence", w, flag, "LISTED", TRUE)
DriftCommand(w, flag) == Reads("drift", w, flag, DriftFrom(Seen(flag, w)), TRUE)
ExportAssessmentResults(w, flag) ==
    Reads("export-ar", w, flag, StateFrom(Seen(flag, w)), FALSE)

\* The component's subject is components/<name>.
ExportComponentDefinition(w, flag) ==
    LET component == [namespace |-> "components", kind |-> "", name |-> w.name]
    IN Reads("export-cd", component, flag, StateFrom(Seen(flag, component)), FALSE)
InspectCommand(w, flag) ==
    Reads("inspect", w, flag, InspectSubject(Seen(flag, w)).state, FALSE)

\* export ssp and poam, and the cockpit, look at no evidence.
ExportSSP(w) == Asserts("export-ssp", w, "ASSURED")
ExportPOAM(w) == Asserts("export-poam", w, "SATISFIED")
Cockpit == Asserts("cockpit", Anything, "ASSURED")

\* receipt verify: a file that is given must parse; nothing is verified, and
\* for an ID without a file a receipt is made up.
ReceiptVerify(parses) ==
    Asserts("receipt", Anything, IF parses THEN "VERIFIED" ELSE "error")

Doctor(flag, platform) ==
    /\ folders' = Opened(EvidenceDir(flag))
    /\ said' = Says("doctor", Anything, RunDoctor(EvidenceDir(flag), platform), {},
                  EvidenceDir(flag))
    /\ UNCHANGED <<ticks, environment, settings, records, noted>>

\* prune looks for files under the digests of envelopes and leaves the ones
\* that record admission has made.
PruneCommand(flag) ==
    LET dir == IF EvidenceDir(flag) = NoDir THEN "evidence" ELSE EvidenceDir(flag) IN
    /\ folders' = Opened(dir)
    /\ said' = IF CannotOpen(dir) THEN Complaint("prune", Anything, dir)
               ELSE Says("prune", Anything, "PRUNED", {}, dir)
    /\ UNCHANGED <<ticks, environment, settings, records, noted>>

\* config init writes the defaults of the moment over whatever is there, and
\* leaves out what is empty.
ConfigInit ==
    /\ settings' = [kind |-> "valid", server |-> NoServer,
                    dir |-> IF DefaultConfig = NoDir THEN Absent ELSE DefaultConfig]
    /\ noted' = IF settings.kind = "broken" \/ settings.dir \in Directories THEN {} ELSE noted
    /\ said' = Silence
    /\ UNCHANGED <<ticks, folders, environment, records>>

\* --config names a file that is not there or does not parse.
RefusedCommand ==
    /\ PreRunFails(TRUE)
    /\ said' = Complaint("any", Anything, NoDir)
    /\ UNCHANGED <<ticks, folders, environment, settings, records, noted>>

\* Somebody edits the file and leaves it broken.
BreakSettings ==
    /\ settings' = BrokenSettings
    /\ noted' = {}
    /\ said' = Silence
    /\ UNCHANGED <<ticks, folders, environment, records>>

Tick ==
    /\ ticks < MaxTicks
    /\ ticks' = ticks + 1
    /\ said' = Silence
    /\ UNCHANGED <<folders, environment, settings, records, noted>>

\* --server with an address does what a setting with a server does.
CommandNext ==
    \/ \E w \in Workloads :
         \/ \E own \in {NoDir, "other"} : RecordAdmission(w, own)
         \/ \E flag \in {NotGiven, NoDir, "other"} :
              \/ \E server \in {NotGiven, NoServer} :
                   \/ AssuranceStateCommand(w, flag, server)
                   \/ ExplainCommand(w, flag, server)
              \/ EvidenceCommand(w, flag) \/ DriftCommand(w, flag)
              \/ ExportAssessmentResults(w, flag) \/ ExportComponentDefinition(w, flag)
              \/ InspectCommand(w, flag)
         \/ ExportSSP(w) \/ ExportPOAM(w)
    \/ \E flag \in {NotGiven} \cup Directories :
         PruneCommand(flag) \/ \E platform \in BOOLEAN : Doctor(flag, platform)
    \/ Cockpit
    \/ \E parses \in BOOLEAN : ReceiptVerify(parses)
    \/ RefusedCommand
    \/ ConfigInit
    \/ BreakSettings
    \/ Tick

CommandSpec == CommandInit /\ [][CommandNext]_commandVars

(***************************************************************************)
(* Properties.                                                             *)
(***************************************************************************)

\* The settings have an empty directory and nothing overrides it.
Erased == settings.dir = NoDir /\ LoadConfig.dir = NoDir

\* What was recorded is found.  Its file stays where record admission put it,
\* whatever other commands ran since, made directories, pruned, or wrote the
\* settings that were in force.  Commands that are called as record was look
\* in that directory, although record picks it by other rules than they do,
\* unless the settings erase the directory.  And what state, explain, drift or
\* inspect say from that directory rests on the record; with a server in
\* force state and explain do not look there.  A record of the same name in
\* the same second overwrites the file, and settings that somebody changed
\* are another matter.
RecordedIsReported ==
    \A n \in noted :
      /\ \E e \in folders[n.dir].files : e.id = n.id /\ e.workload = n.workload
      /\ n.own # NoDir \/ ~Erased =>
           EvidenceDir(IF n.own = NoDir THEN NotGiven ELSE n.own) = n.dir
      /\ said.command \in {"state", "explain", "drift", "inspect"}
           /\ said.workload = n.workload /\ said.dir = n.dir
         => /\ said.state \notin {"UNKNOWN", "error"}
            /\ \E e \in said.rests : e.id = n.id /\ e.workload = n.workload
=============================================================================
