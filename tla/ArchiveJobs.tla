---------------------------- MODULE ArchiveJobs ----------------------------
(***************************************************************************)
(* Exports of the store into dated directories, started by administrators  *)
(* (a job each), by the schedule and from the command line, and import     *)
(* jobs.  A directory is named for the second its export began; whoever    *)
(* finishes an export prunes the oldest directories.  Nothing keeps two    *)
(* exports apart.  The portal keeps a record of each job, which the job's  *)
(* goroutine fills in under a lock, in one step here.                      *)
(***************************************************************************)
EXTENDS Integers, FiniteSets

CONSTANTS
  ExportJobs, ImportJobs,   \* the portal's jobs
  Schedules,                \* exports without a job: the schedule, the command line
  Files,                    \* the groups to export, each a file
  Uploads,                  \* the number of files of an import
  RetainGens,               \* archive.retain_generations
  MaxSecond                 \* bound on the clock

\* The configuration puts 4 in the place of a number of generations that is not positive.
ASSUME ArchiveAssumption ==
  /\ IsFiniteSet(Files)
  /\ RetainGens \in Nat \ {0} /\ Uploads \in Nat /\ MaxSecond \in Nat \ {0}

VARIABLES
  second,                   \* the clock
  dirs,                     \* the export directories, by second: each file in them, "part" or "whole"
  export,                   \* what each export is at
  jobs,                     \* the portal's jobs: their status, and the files done
  shared                    \* the seconds in which more than one export was begun

archiveVars == <<second, dirs, export, jobs, shared>>

Exporters == ExportJobs \union Schedules
NoJob == [status |-> "none", files |-> 0]
NotExporting == [step |-> "idle"]

ArchiveInit ==
  /\ second = 1
  /\ dirs = [d \in {} |-> {}]
  /\ export = [e \in Exporters |-> NotExporting]
  /\ jobs = [j \in ExportJobs \union ImportJobs |-> NoJob]
  /\ shared = {}

NextSecond ==
  /\ second < MaxSecond
  /\ second' = second + 1
  /\ UNCHANGED <<dirs, export, jobs, shared>>

-----------------------------------------------------------------------------
(* Exports. *)

\* POST /api/archive registers the job and starts its goroutine.
StartArchiveJob(j) ==
  /\ jobs[j] = NoJob
  /\ jobs' = [jobs EXCEPT ![j].status = "running"]
  /\ UNCHANGED <<second, dirs, export, shared>>

\* Export creates the directory of this second, or takes the one that is there.
Begin(e) ==
  /\ export[e] = NotExporting
  /\ e \in ExportJobs => jobs[e].status = "running"
  /\ dirs' = [d \in DOMAIN dirs \union {second} |->
               IF d \in DOMAIN dirs THEN dirs[d] ELSE [f \in {} |-> "part"]]
  /\ export' = [export EXCEPT ![e] = [step |-> "writing", dir |-> second, open |-> {},
                                      done |-> {}]]
  /\ shared' = IF second \in DOMAIN dirs THEN shared \union {second} ELSE shared
  /\ UNCHANGED <<second, jobs>>

WithEmptied(d, f) ==
  [dirs EXCEPT ![d] = [x \in DOMAIN @ \union {f} |-> IF x = f THEN "part" ELSE @[x]]]

\* os.Create empties a file that is there; it fails when the directory is gone.
CreateFile(e, f) ==
  LET x == export[e] IN
  /\ x.step = "writing"
  /\ x.open = {}
  /\ f \in Files \ x.done
  /\ IF x.dir \in DOMAIN dirs
     THEN /\ dirs' = WithEmptied(x.dir, f)
          /\ export' = [export EXCEPT ![e].open = {f}]
     ELSE /\ export' = [export EXCEPT ![e].step = "failed"]
          /\ UNCHANGED dirs
  /\ UNCHANGED <<second, jobs, shared>>

\* The file is written and closed, still in its directory or not.
CloseFile(e) ==
  LET x == export[e] IN
  /\ x.step = "writing"
  /\ x.open # {}
  /\ dirs' = IF x.dir \in DOMAIN dirs
             THEN [dirs EXCEPT ![x.dir] = [f \in DOMAIN @ |-> IF f \in x.open THEN "whole" ELSE @[f]]]
             ELSE dirs
  /\ export' = [export EXCEPT ![e].open = {}, ![e].done = @ \union x.open]
  /\ UNCHANGED <<second, jobs, shared>>

\* A query or a write fails: the directory and what is in it stay.
ExportFails(e) ==
  /\ export[e].step = "writing" /\ export[e].done # Files
  /\ export' = [export EXCEPT ![e].step = "failed"]
  /\ UNCHANGED <<second, dirs, jobs, shared>>

ExportWritten(e) == export[e].step = "writing" /\ export[e].done = Files

\* Mutation of Newest: one generation fewer is kept.
NewestButOne == {d \in DOMAIN dirs : Cardinality({n \in DOMAIN dirs : n > d}) < RetainGens - 1}

\* The directories that PruneOldExports keeps: the newest by name, whole or not.
Newest == {d \in DOMAIN dirs : Cardinality({n \in DOMAIN dirs : n > d}) < RetainGens}

PruneOldExports == dirs' = [d \in Newest |-> dirs[d]]

\* An export without a job ends and prunes.
ScheduleEnds(e) ==
  /\ ExportWritten(e) \/ export[e].step = "failed"
  /\ IF ExportWritten(e) THEN PruneOldExports ELSE UNCHANGED dirs
  /\ export' = [export EXCEPT ![e] = NotExporting]
  /\ UNCHANGED <<second, jobs, shared>>

\* The goroutine of a job takes the lock, fills in the job, and prunes.
JobEnds(j) ==
  /\ ExportWritten(j) \/ export[j].step = "failed"
  /\ IF ExportWritten(j)
     THEN /\ jobs' = [jobs EXCEPT ![j] = [status |-> "done", files |-> Cardinality(export[j].done)]]
          /\ PruneOldExports
     ELSE /\ jobs' = [jobs EXCEPT ![j].status = "error"]
          /\ UNCHANGED dirs
  /\ export' = [export EXCEPT ![j].step = "over"]
  /\ UNCHANGED <<second, shared>>

-----------------------------------------------------------------------------
(* Imports, restarts. *)

StartImportJob(j) ==
  /\ jobs[j] = NoJob
  /\ jobs' = [jobs EXCEPT ![j].status = "running"]
  /\ UNCHANGED <<second, dirs, export, shared>>

\* The files are imported in order until one fails; what was imported from that file before
\* is not counted.  One locked section enters the totals.
ImportEnds(j, imported) ==
  /\ jobs[j].status = "running"
  /\ jobs' = [jobs EXCEPT ![j] = [status |-> IF imported = Uploads THEN "done" ELSE "error",
                                 files  |-> imported]]
  /\ UNCHANGED <<second, dirs, export, shared>>

\* A restart forgets the jobs and ends their exports; the directories stay.
ArchiveRestart ==
  /\ export' = [e \in Exporters |-> NotExporting]
  /\ jobs' = [j \in DOMAIN jobs |-> NoJob]
  /\ UNCHANGED <<second, dirs, shared>>

ArchiveNext ==
  \/ NextSecond
  \/ \E e \in Exporters :
       \/ Begin(e)
       \/ \E f \in Files : CreateFile(e, f)
       \/ CloseFile(e)
       \/ ExportFails(e)
  \/ \E e \in Schedules : ScheduleEnds(e)
  \/ \E j \in ExportJobs : StartArchiveJob(j) \/ JobEnds(j)
  \/ \E j \in ImportJobs :
       \/ StartImportJob(j)
       \/ \E imported \in 0..Uploads : ImportEnds(j, imported)
  \/ ArchiveRestart

ArchiveSpec == ArchiveInit /\ [][ArchiveNext]_archiveVars

-----------------------------------------------------------------------------

\* The types of the jobs, the slot for one of them and the export directories.
ArchiveTypeOK ==
  /\ second \in 1..MaxSecond
  /\ DOMAIN dirs \subseteq 1..second
  /\ \A d \in DOMAIN dirs : DOMAIN dirs[d] \subseteq Files
  /\ \A e \in Exporters :
       export[e] # NotExporting => /\ export[e].step \in {"writing", "failed", "over"}
                                   /\ export[e].open \union export[e].done \subseteq Files
  /\ \A j \in DOMAIN jobs : /\ jobs[j].status \in {"none", "running", "done", "error"}
                             /\ jobs[j].files \in Nat
  /\ shared \subseteq DOMAIN dirs \union 1..second

\* The last export that was begun is on disk whole once it is written, whichever exports end
\* and prune meanwhile; only another export begun in the same second can spoil it.
LatestExportIntact ==
  \A e \in Exporters :
    /\ export[e].step \in {"writing", "over"}
    /\ export[e].done = Files
    /\ \A d \in DOMAIN dirs : d <= export[e].dir
    /\ export[e].dir \notin shared
    => /\ export[e].dir \in DOMAIN dirs
       /\ \A f \in Files : f \in DOMAIN dirs[export[e].dir] /\ dirs[export[e].dir][f] = "whole"
=============================================================================
