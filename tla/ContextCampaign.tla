---------------------------- MODULE ContextCampaign ----------------------------
(***************************************************************************)
(* A context campaign and the studies that read it (context_campaign.cpp,   *)
(* context_phase2.cpp, context_analysis_main.cpp): `new` and `resume` scan  *)
(* the planned blocks B(J,e) and append a PRE_SCAN row and a POST_SCAN row   *)
(* for each, `analyze` summarises them and may open the holdout, `phase2`    *)
(* and `phase2-refinement` publish directories of artifacts.  All of them   *)
(* share one directory without a lock.  One console scans, the others       *)
(* study, side by side, and each may be killed between any two writes or in  *)
(* the middle of an appended line.                                         *)
(***************************************************************************)
EXTENDS Integers, Sequences, FiniteSets, Functions

CONSTANTS
  NBlocks,      \* the blocks of the plan, 1..NBlocks in manifest order
  PartitionOf,  \* the partition make_plan gave the block's prevhash
  MinFit,       \* the discovery rows analyze needs to fit its model (3 in the code)
  NArtifacts,   \* the artifacts of a study before its audit.json
  Studies,      \* the consoles on which analyses and studies are run
  MaxCommands,  \* bound: commands started on each console
  MaxCrashes,   \* bound: kills
  Tears,        \* may a kill leave part of a line behind?
  None          \* the file does not exist

Blocks == 1..NBlocks
Partitions == {"discovery", "validation", "holdout"}
Consoles == {"scan"} \cup Studies

\* A file of a study: the console whose command wrote it, the labels it is from.
Artifact == [by : Studies, from : SUBSET Blocks]

ASSUME CampaignAssumption ==
  /\ {NBlocks, MinFit, NArtifacts, MaxCrashes} \subseteq Nat
  /\ PartitionOf \in [Blocks -> Partitions]
  /\ "scan" \notin Studies /\ MaxCommands \in [Consoles -> Nat]
  /\ None \notin Seq(Artifact)
  /\ Tears \in BOOLEAN

VARIABLES
  manifest,    \* manifest.json exists
  checkpoint,  \* checkpoint.json: [status, completed]
  features,    \* features.jsonl
  labels,      \* block_labels.jsonl
  summary,     \* analysis_summary.json: [opened, read, fit]: the labels used
               \* by its statistics and by its fitted model
  report,      \* report.md
  evaluation,  \* holdout_evaluation.json: [by, result], whose it is and the labels used
  phase2,      \* phase2_discovery_v1: its files, audit.json last
  refinement,  \* phase2_discovery_v1_refinement
  pc,          \* where each console's command is
  mem,         \* what the command of each console holds in memory
  exit,        \* how the last scan command ended
  commands, crashes

disk == <<manifest, checkpoint, features, labels, summary, report, evaluation,
          phase2, refinement>>
vars == <<disk, pc, mem, exit, commands, crashes>>

-----------------------------------------------------------------------------
(* A .jsonl file: its lines, and whether the last one lacks its newline.  A
   line is the rows written on it, 0 for the part of a row. *)
NoLines == [lines |-> <<>>, open |-> FALSE]

Readable(f) == \A i \in 1..Len(f.lines) : Len(f.lines[i]) = 1 /\ f.lines[i][1] # 0

RowsOf(f) == {f.lines[i][1] : i \in 1..Len(f.lines)}

\* append_jsonl opens the file at its end, wherever the last line stopped.
\* What a kill cut off has no newline yet.
AppendLine(f, row, whole) ==
  [lines |-> IF f.open
               THEN [f.lines EXCEPT ![Len(f.lines)] = Append(@, row)]
               ELSE Append(f.lines, <<row>>),
   open  |-> ~whole]

Of(partition) == {b \in Blocks : PartitionOf[b] = partition}

NoMemory == [done |-> {}, featured |-> {}, opened |-> FALSE, read |-> {},
             digest |-> None, next |-> 0]

Init ==
  /\ manifest = FALSE /\ checkpoint = None
  /\ features = NoLines /\ labels = NoLines
  /\ summary = None /\ report = None /\ evaluation = None
  /\ phase2 = None /\ refinement = None
  /\ pc = [c \in Consoles |-> "idle"] /\ mem = [c \in Consoles |-> NoMemory]
  /\ exit = "none" /\ commands = [c \in Consoles |-> 0] /\ crashes = 0

Goto(c, place) == pc' = [pc EXCEPT ![c] = place]

Start(c, place) ==
  /\ pc[c] = "idle" /\ commands[c] < MaxCommands[c]
  /\ commands' = [commands EXCEPT ![c] = @ + 1]
  /\ Goto(c, place)

\* The command of c ends; what it held is gone.
Finish(c, how) ==
  /\ Goto(c, "idle") /\ mem' = [mem EXCEPT ![c] = NoMemory]
  /\ exit' = IF c = "scan" THEN how ELSE exit

-----------------------------------------------------------------------------
(* `new`: create_campaign refuses an existing directory, saves the manifest,
   then the checkpoint, and run_campaign follows. *)
CreateManifest ==
  /\ ~manifest /\ Start("scan", "create")
  /\ manifest' = TRUE /\ exit' = "none"
  /\ UNCHANGED <<checkpoint, features, labels, summary, report, evaluation,
                 phase2, refinement, mem, crashes>>

CreateCheckpoint ==
  /\ pc["scan"] = "create"
  /\ checkpoint' = [status |-> "PLANNED", completed |-> 0]
  /\ Goto("scan", "load")
  /\ UNCHANGED <<manifest, features, labels, summary, report, evaluation,
                 phase2, refinement, mem, exit, commands, crashes>>

(* `resume`. *)
Resume ==
  /\ manifest /\ Start("scan", "load")
  /\ exit' = "none"
  /\ UNCHANGED <<disk, mem, crashes>>

\* Mutant of LoadProgress: the blocks done are those the checkpoint counts.
LoadFromCheckpoint ==
  /\ pc["scan"] = "load"
  /\ mem' = [mem EXCEPT !["scan"].done = IF checkpoint = None THEN {} ELSE 1..checkpoint.completed,
                        !["scan"].featured = RowsOf(features) \ {0}]
  /\ Goto("scan", "block")
  /\ UNCHANGED <<disk, exit, commands, crashes>>

\* Mutant of LoadProgress: the blocks done are read from features.jsonl.
LoadFromFeatures ==
  /\ pc["scan"] = "load"
  /\ IF Readable(labels) /\ Readable(features)
       THEN /\ mem' = [mem EXCEPT !["scan"].done = RowsOf(features),
                                  !["scan"].featured = RowsOf(features)]
            /\ Goto("scan", "block") /\ exit' = exit
       ELSE Finish("scan", "refused")
  /\ UNCHANGED <<disk, commands, crashes>>

\* ids_in_jsonl on both files: a line that does not parse ends the command.
LoadProgress ==
  /\ pc["scan"] = "load"
  /\ IF Readable(labels) /\ Readable(features)
       THEN /\ mem' = [mem EXCEPT !["scan"].done = RowsOf(labels),
                                  !["scan"].featured = RowsOf(features)]
            /\ Goto("scan", "block") /\ exit' = exit
       ELSE Finish("scan", "refused")
  /\ UNCHANGED <<disk, commands, crashes>>

\* The block the loop over contexts and extranonce2 values is at.
ToScan == Blocks \ mem["scan"].done
Current == CHOOSE b \in ToScan : \A other \in ToScan : b <= other

AppendFeature ==
  /\ pc["scan"] = "block" /\ ToScan # {} /\ Current \notin mem["scan"].featured
  /\ features' = AppendLine(features, Current, TRUE)
  /\ mem' = [mem EXCEPT !["scan"].featured = @ \cup {Current}]
  /\ UNCHANGED <<manifest, checkpoint, labels, summary, report, evaluation,
                 phase2, refinement, pc, exit, commands, crashes>>

\* The scan of all nonces, then its row; AppendLabel comes before the checkpoint.
AppendLabel ==
  /\ pc["scan"] = "block" /\ ToScan # {} /\ Current \in mem["scan"].featured
  /\ labels' = AppendLine(labels, Current, TRUE)
  /\ mem' = [mem EXCEPT !["scan"].done = @ \cup {Current}]
  /\ Goto("scan", "checkpoint")
  /\ UNCHANGED <<manifest, checkpoint, features, summary, report, evaluation,
                 phase2, refinement, exit, commands, crashes>>

SaveCheckpoint ==
  /\ pc["scan"] = "checkpoint"
  /\ checkpoint' = [status |-> IF mem["scan"].done = Blocks THEN "COMPLETE" ELSE "RUNNING",
                    completed |-> Cardinality(mem["scan"].done)]
  /\ Goto("scan", "block")
  /\ UNCHANGED <<manifest, features, labels, summary, report, evaluation,
                 phase2, refinement, mem, exit, commands, crashes>>

\* The scanner throws, or fewer than 2^32 nonces were counted.
ScanFails ==
  /\ pc["scan"] = "block" /\ ToScan # {} /\ Current \in mem["scan"].featured
  /\ Finish("scan", "failed")
  /\ UNCHANGED <<disk, commands, crashes>>

\* Every block is labelled: analyze_campaign(directory, false).
ScanDone ==
  /\ pc["scan"] = "block" /\ ToScan = {}
  /\ Goto("scan", "analyze")
  /\ UNCHANGED <<disk, mem, exit, commands, crashes>>

-----------------------------------------------------------------------------
(* `analyze [--finalize-holdout]`. *)
Analyze(c, open) ==
  /\ manifest /\ Start(c, "analyze")
  /\ mem' = [mem EXCEPT ![c].opened = open]
  /\ UNCHANGED <<disk, exit, crashes>>

\* Where an evaluation of this campaign exists, the summary on disk is the answer.
\* It is looked for here only, and saved at the end.
AnalyzeFeatures(c) ==
  /\ pc[c] = "analyze"
  /\ IF (mem[c].opened /\ evaluation # None) \/ ~Readable(features)
       THEN Finish(c, "failed")
       ELSE /\ mem' = [mem EXCEPT ![c].featured = RowsOf(features)]
            /\ Goto(c, "join") /\ exit' = exit
  /\ UNCHANGED <<disk, commands, crashes>>

\* Labels of the holdout are skipped unless it is opened; a label without its
\* PRE_SCAN row ends the command.
JoinedRows(c) ==
  {b \in RowsOf(labels) : mem[c].opened \/ PartitionOf[b] # "holdout"}

AnalyzeLabels(c) ==
  /\ pc[c] = "join"
  /\ IF Readable(labels) /\ JoinedRows(c) \subseteq mem[c].featured
       THEN /\ mem' = [mem EXCEPT ![c].read = JoinedRows(c)]
            /\ Goto(c, "summary") /\ exit' = exit
       ELSE Finish(c, "failed")
  /\ UNCHANGED <<disk, commands, crashes>>

\* Mutant of DiscoveryFit: the model is fitted to every joined row.
FitAll(rows) == IF Cardinality(rows) >= MinFit THEN rows ELSE {}

\* The linear model that scores the rows of every partition is fitted to the
\* qualities of discovery, or is flat when they are too few.
DiscoveryFit(rows) ==
  LET fit == rows \cap Of("discovery")
  IN  IF Cardinality(fit) >= MinFit THEN fit ELSE {}

\* feature_correlations and baselines_and_rankings have a section for each
\* partition that is open and, for the rankings, has a row.
Sections(rows, opened) ==
  [p \in {q \in Partitions : (q # "holdout" \/ opened) /\ rows \cap Of(q) # {}} |->
     rows \cap Of(p)]

Result(c) == [opened   |-> mem[c].opened, read |-> mem[c].read,
              fit      |-> DiscoveryFit(mem[c].read),
              sections |-> Sections(mem[c].read, mem[c].opened)]

SaveSummary(c) ==
  /\ pc[c] = "summary"
  /\ summary' = Result(c)
  /\ Goto(c, "report")
  /\ UNCHANGED <<manifest, checkpoint, features, labels, report, evaluation,
                 phase2, refinement, mem, exit, commands, crashes>>

\* The last file of an analysis that keeps the holdout sealed.
WriteReport(c) ==
  /\ pc[c] = "report"
  /\ report' = Result(c)
  /\ IF mem[c].opened THEN Goto(c, "evaluation") /\ UNCHANGED <<mem, exit>>
                      ELSE Finish(c, "ok")
  /\ UNCHANGED <<manifest, checkpoint, features, labels, summary, evaluation,
                 phase2, refinement, commands, crashes>>

SaveEvaluation(c) ==
  /\ pc[c] = "evaluation"
  /\ evaluation' = [by |-> c, result |-> Result(c)]
  /\ Finish(c, "ok")
  /\ UNCHANGED <<manifest, checkpoint, features, labels, summary, report,
                 phase2, refinement, commands, crashes>>

-----------------------------------------------------------------------------
(* `phase2` and `phase2-refinement`: digests of the sources, the seal, the
   discovery rows, the statistics, the digests again, then the artifacts and
   audit.json last. *)
SourceFiles == <<features, labels, summary, report>>

\* The directory is looked for here, long before it is created.
StartPhase2(c) ==
  /\ phase2 = None /\ summary # None /\ report # None /\ Start(c, "seal")
  /\ mem' = [mem EXCEPT ![c].digest = SourceFiles]
  /\ UNCHANGED <<disk, exit, crashes>>

\* The refinement hashes the checkpoint and the artifacts of phase2 too, and
\* reads audit.json.
HistoricalFiles == <<features, labels, summary, report, checkpoint, phase2>>

Audited(dir) == dir # None /\ Len(dir) = NArtifacts + 1

StartRefinement(c) ==
  /\ Audited(phase2) /\ refinement = None
  /\ summary # None /\ report # None /\ Start(c, "reseal")
  /\ mem' = [mem EXCEPT ![c].digest = HistoricalFiles]
  /\ UNCHANGED <<disk, exit, crashes>>

CheckSeal(c, from, to) ==
  /\ pc[c] = from
  /\ IF summary.opened THEN Finish(c, "failed")
                       ELSE Goto(c, to) /\ UNCHANGED <<mem, exit>>
  /\ UNCHANGED <<disk, commands, crashes>>

\* Mutant of DiscoveryLoads: the status of the campaign is not looked at.
LoadsUnderWay ==
  /\ checkpoint # None
  /\ Readable(features) /\ Readable(labels)
  /\ RowsOf(features) \cap Of("discovery") # {}
  /\ RowsOf(features) \cap Of("discovery") = RowsOf(labels) \cap Of("discovery")
  /\ Len(features.lines) = Len(labels.lines)
  /\ Len(labels.lines) = checkpoint.completed

\* load_discovery: the checkpoint says COMPLETE, every line parses, there are as
\* many rows as labels and as the checkpoint counts; only the discovery rows are
\* kept, and one label for each.
DiscoveryLoads ==
  /\ checkpoint # None /\ checkpoint.status = "COMPLETE"
  /\ Readable(features) /\ Readable(labels)
  /\ RowsOf(features) \cap Of("discovery") # {}
  /\ RowsOf(features) \cap Of("discovery") = RowsOf(labels) \cap Of("discovery")
  /\ Len(features.lines) = Len(labels.lines)
  /\ Len(labels.lines) = checkpoint.completed

LoadDiscovery(c, from, to) ==
  /\ pc[c] = from
  /\ IF DiscoveryLoads
       THEN /\ mem' = [mem EXCEPT ![c].read = RowsOf(labels) \cap Of("discovery")]
            /\ Goto(c, to) /\ exit' = exit
       ELSE Finish(c, "failed")
  /\ UNCHANGED <<disk, commands, crashes>>

\* A command goes on to write the files of its study, the first one next.
WriteFrom(c, place) ==
  /\ mem' = [mem EXCEPT ![c].next = 1]
  /\ Goto(c, place) /\ exit' = exit

\* The statistics are done and the sources must be as they were.  Whether
\* create_directory created anything is not asked: a directory that another
\* console made meanwhile is used as it is.
PublishPhase2(c) ==
  /\ pc[c] = "publish"
  /\ IF SourceFiles = mem[c].digest
       THEN /\ phase2' = IF phase2 = None THEN <<>> ELSE phase2
            /\ WriteFrom(c, "artifacts")
       ELSE Finish(c, "failed") /\ UNCHANGED phase2
  /\ UNCHANGED <<manifest, checkpoint, features, labels, summary, report,
                 evaluation, refinement, commands, crashes>>

\* Mutant of PublishRefinement: create_directory as PublishPhase2 calls it.
PublishOver(c) ==
  /\ pc[c] = "republish"
  /\ IF HistoricalFiles = mem[c].digest
       THEN /\ refinement' = IF refinement = None THEN <<>> ELSE refinement
            /\ WriteFrom(c, "reartifacts")
       ELSE Finish(c, "failed") /\ UNCHANGED refinement
  /\ UNCHANGED <<manifest, checkpoint, features, labels, summary, report,
                 evaluation, phase2, commands, crashes>>

\* Here create_directory must have created it.
PublishRefinement(c) ==
  /\ pc[c] = "republish"
  /\ IF HistoricalFiles = mem[c].digest /\ refinement = None
       THEN refinement' = <<>> /\ WriteFrom(c, "reartifacts")
       ELSE Finish(c, "failed") /\ UNCHANGED refinement
  /\ UNCHANGED <<manifest, checkpoint, features, labels, summary, report,
                 evaluation, phase2, commands, crashes>>

\* The next file of the command of c, written anew or over that of another
\* command.
WithFile(dir, c) ==
  LET file == [by |-> c, from |-> mem[c].read]
  IN  IF mem[c].next <= Len(dir) THEN [dir EXCEPT ![mem[c].next] = file]
                                 ELSE Append(dir, file)

\* audit.json is number NArtifacts + 1.
OneFileMore(c) ==
  IF mem[c].next = NArtifacts + 1
    THEN Finish(c, "ok")
    ELSE mem' = [mem EXCEPT ![c].next = @ + 1] /\ UNCHANGED <<pc, exit>>

WritePhase2(c) ==
  /\ pc[c] = "artifacts"
  /\ phase2' = WithFile(phase2, c) /\ OneFileMore(c)
  /\ UNCHANGED <<manifest, checkpoint, features, labels, summary, report,
                 evaluation, refinement, commands, crashes>>

WriteRefinement(c) ==
  /\ pc[c] = "reartifacts"
  /\ refinement' = WithFile(refinement, c) /\ OneFileMore(c)
  /\ UNCHANGED <<manifest, checkpoint, features, labels, summary, report,
                 evaluation, phase2, commands, crashes>>

-----------------------------------------------------------------------------
(* A console is closed.  What it was appending may be on disk in part, or whole
   without its newline. *)
Kill(c) ==
  /\ pc[c] # "idle" /\ crashes < MaxCrashes
  /\ crashes' = crashes + 1 /\ Finish(c, "killed")
  /\ UNCHANGED commands

Crash(c) == Kill(c) /\ UNCHANGED disk

TearFeature ==
  /\ Tears /\ pc["scan"] = "block" /\ ToScan # {} /\ Current \notin mem["scan"].featured
  /\ Kill("scan")
  /\ \E row \in {0, Current} : features' = AppendLine(features, row, FALSE)
  /\ UNCHANGED <<manifest, checkpoint, labels, summary, report, evaluation,
                 phase2, refinement>>

TearLabel ==
  /\ Tears /\ pc["scan"] = "block" /\ ToScan # {} /\ Current \in mem["scan"].featured
  /\ Kill("scan")
  /\ \E row \in {0, Current} : labels' = AppendLine(labels, row, FALSE)
  /\ UNCHANGED <<manifest, checkpoint, features, summary, report, evaluation,
                 phase2, refinement>>

Scan ==
  \/ CreateCheckpoint \/ LoadProgress \/ AppendFeature \/ AppendLabel
  \/ SaveCheckpoint \/ ScanDone

AnalyzeStep(c) ==
  \/ AnalyzeFeatures(c) \/ AnalyzeLabels(c) \/ SaveSummary(c)
  \/ WriteReport(c) \/ SaveEvaluation(c)

Study(c) ==
  \/ \E open \in BOOLEAN : Analyze(c, open)
  \/ StartPhase2(c) \/ CheckSeal(c, "seal", "discovery")
  \/ LoadDiscovery(c, "discovery", "publish") \/ PublishPhase2(c) \/ WritePhase2(c)
  \/ StartRefinement(c) \/ CheckSeal(c, "reseal", "rediscovery")
  \/ LoadDiscovery(c, "rediscovery", "republish")
  \/ PublishRefinement(c) \/ WriteRefinement(c)

Next ==
  \/ CreateManifest \/ Resume \/ Scan \/ ScanFails
  \/ \E c \in Consoles : AnalyzeStep(c)
  \/ \E c \in Studies : Study(c)
  \/ \E c \in Consoles : Crash(c)
  \/ TearFeature \/ TearLabel

Spec == Init /\ [][Next]_vars

(* Nothing but a kill or an exception stops the command of a console. *)
FairSpec == Spec /\ WF_vars(Scan \/ AnalyzeStep("scan"))

-----------------------------------------------------------------------------
Place == {"idle", "create", "load", "block", "checkpoint", "analyze", "join", "summary",
          "report", "evaluation", "seal", "discovery", "publish", "artifacts",
          "reseal", "rediscovery", "republish", "reartifacts"}

JsonLines(f) ==
  /\ f.lines \in Seq(Seq(0..NBlocks)) /\ f.open \in BOOLEAN
  /\ f.open => Len(f.lines) > 0

Analysed(a) ==
  a # None => /\ a.opened \in BOOLEAN /\ a.read \subseteq Blocks /\ a.fit \subseteq a.read
              /\ UNION Range(a.sections) = a.read
Directory(dir) == dir # None => dir \in Seq(Artifact) /\ Len(dir) <= NArtifacts + 1

TypeOK ==
  /\ manifest \in BOOLEAN
  /\ checkpoint \in [status : {"PLANNED", "RUNNING", "COMPLETE"}, completed : 0..NBlocks]
                      \cup {None}
  /\ JsonLines(features) /\ JsonLines(labels)
  /\ Analysed(summary) /\ Analysed(report)
  /\ evaluation # None => evaluation.by \in Studies /\ Analysed(evaluation.result)
  /\ Directory(phase2) /\ Directory(refinement)
  /\ pc \in [Consoles -> Place] /\ DOMAIN mem = Consoles
  /\ \A c \in Consoles : /\ mem[c].done \subseteq Blocks /\ mem[c].read \subseteq Blocks
                         /\ mem[c].featured \subseteq Blocks /\ mem[c].opened \in BOOLEAN
                         /\ mem[c].next \in 0..NArtifacts + 1 /\ commands[c] \in 0..MaxCommands[c]
  /\ exit \in {"none", "ok", "failed", "refused", "killed"}
  /\ DOMAIN commands = Consoles /\ crashes \in 0..MaxCrashes

\* Where a whole row of block b is in f: the line and the place on it.
Copies(f, b) == {p \in (1..Len(f.lines)) \X (1..2 * NBlocks) :
                   p[2] <= Len(f.lines[p[1]]) /\ f.lines[p[1]][p[2]] = b}

Written(f) == {b \in Blocks : Copies(f, b) # {}}

(* Whatever is killed and resumed, a block is scanned to its label at most once
   and its PRE_SCAN row, also there once, is older than the label
   (run_campaign reads both files back before it scans). *)
ScannedOnce ==
  /\ Written(labels) \subseteq Written(features)
  /\ \A b \in Blocks : /\ Cardinality(Copies(labels, b)) <= 1
                       /\ Cardinality(Copies(features, b)) <= 1

(* checkpoint.json, saved after the row, never counts a block whose label is
   not in block_labels.jsonl. *)
CheckpointNotAhead ==
  checkpoint # None => checkpoint.completed <= Cardinality(Written(labels))

(* The invariant of the campaign's files: their types, rows written once and in
   order, and a checkpoint that is behind them. *)
RowsInv == TypeOK /\ ScannedOnce /\ CheckpointNotAhead

(* No label of the holdout reaches an analysis that leaves it sealed, no label
   outside discovery the model by which the partitions are ranked, even in the
   evaluation of the opened holdout, nor an artifact of Phase 2 (the partition
   barriers of analyze_campaign and load_discovery), whichever commands ran
   before. *)
PartitionBarrier ==
  /\ \A a \in {summary, report} \ {None} : a.opened \/ a.read \cap Of("holdout") = {}
  /\ summary # None => summary.fit \subseteq Of("discovery")
  /\ evaluation # None => evaluation.result.fit \subseteq Of("discovery")
  /\ \A dir \in {phase2, refinement} \ {None} :
       \A file \in Range(dir) : file.from \subseteq Of("discovery")

(* Every file of a study was made from all discovery blocks of the plan, of a
   campaign that was complete; a refinement only where the study has its
   audit.json, and by one command, whichever others run beside it: neither a
   campaign under way nor a study cut short is taken for a finished one. *)
StudyIsWhole ==
  /\ phase2 # None => checkpoint.status = "COMPLETE"
  /\ \A dir \in {phase2, refinement} \ {None} :
       \A file \in Range(dir) : file.from = Of("discovery")
  /\ refinement # None => Audited(phase2)
  /\ refinement # None => \A file, other \in Range(refinement) : file.by = other.by

\* Commands that have looked for what they are to publish, and found nothing.
Evaluating(c) == mem[c].opened /\ pc[c] \in {"join", "summary", "report", "evaluation"}
Publishing(c) == pc[c] \in {"seal", "discovery", "publish", "artifacts"}

EvaluationSettled == evaluation # None /\ \A c \in Consoles : ~Evaluating(c)
Phase2Settled == phase2 # None /\ \A c \in Consoles : ~Publishing(c)

(* Once holdout_evaluation.json exists and no analysis that had looked for it
   before is still under way, it is never replaced, whatever is run on any
   console from then on, and no such analysis begins again; the same of the
   directory of phase2, complete or cut short.  A refinement that has its
   audit.json is never written to again, even by the commands that were under
   way beside the one that made it. *)
SettledIsFinal ==
  [][/\ EvaluationSettled => evaluation' = evaluation /\ EvaluationSettled'
     /\ Phase2Settled => phase2' = phase2 /\ Phase2Settled'
     /\ Audited(refinement) => refinement' = refinement]_vars

(* A resumed scan that finds its files readable labels every block, unless it is
   killed or its scanner fails. *)
ResumeLabelsAll ==
  (pc["scan"] = "load" /\ Readable(features) /\ Readable(labels))
    ~> (Written(labels) = Blocks \/ exit \in {"killed", "failed"})
=============================================================================
