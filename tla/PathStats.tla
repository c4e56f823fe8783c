----------------------------- MODULE PathStats -----------------------------
(***************************************************************************)
(* The Path statistics.  Every accepted article's Path is appended to one  *)
(* pending file; a flush reads that file, writes the counts to a dump file *)
(* named for the second, and removes the pending file.  The server records *)
(* and flushes (by schedule, by an administrator) under one mutex; the     *)
(* command line flushes the same files in a process of its own.  Reports   *)
(* merge the dumps that are not too old, and the schedule prunes old dumps *)
(* once a report is sent.                                                  *)
(*                                                                         *)
(* A path stands for one line of the pending file; of a dump the model has *)
(* the paths it counts.  The length of a line is not modelled.             *)
(***************************************************************************)
EXTENDS Naturals, FiniteSets

CONSTANTS
  Paths,          \* the Path lines, each recorded once
  Countable,      \* those with a hop that is counted
  CommandLines,   \* runs of "openusenet inpaths flush"
  ServerFlush,    \* the flush of the server
  ReportAge, DumpAge,  \* a report reads dumps up to ReportAge, pruning keeps DumpAge
  MaxClock        \* bound on the clock

ASSUME PathsAssumption == ReportAge \in Nat /\ DumpAge \in Nat /\ MaxClock \in Nat \ {0}

VARIABLES
  clock,
  pending,        \* the lines of the pending file
  dumps,          \* the dump files, by second: the paths they count
  flush,          \* what each flush is at
  report,         \* the dumps that the report being sent has read
  recorded,       \* the paths recorded so far
  sent,           \* the paths that a sent report counted
  crossed,        \* paths recorded or flushed while another process flushed
  spoilt          \* paths in dumps that were overwritten, left behind by a flush that
                  \* ended early, or too old for any report

pathVars == <<clock, pending, dumps, flush, report, recorded, sent, crossed, spoilt>>

Flushers == CommandLines \union {ServerFlush}
NotFlushing == [step |-> "idle"]
NoReport == [step |-> "none"]

PathsInit ==
  /\ clock = 1
  /\ pending = {} /\ recorded = {} /\ sent = {} /\ crossed = {} /\ spoilt = {}
  /\ dumps = [d \in {} |-> {}]
  /\ flush = [f \in Flushers |-> NotFlushing]
  /\ report = NoReport

Flushing(F) == {f \in F : flush[f] # NotFlushing}

-----------------------------------------------------------------------------

\* Mutation of Record: the mutex is not taken.
RecordUnlocked(p) ==
  /\ p \notin recorded
  /\ pending' = pending \union {p}
  /\ recorded' = recorded \union {p}
  /\ crossed' = IF Flushing(CommandLines) # {} THEN crossed \union {p} ELSE crossed
  /\ UNCHANGED <<clock, dumps, flush, report, sent, spoilt>>

\* The server appends the Path of an article, under the mutex.
Record(p) ==
  /\ p \notin recorded
  /\ flush[ServerFlush] = NotFlushing
  /\ pending' = pending \union {p}
  /\ recorded' = recorded \union {p}
  /\ crossed' = IF Flushing(CommandLines) # {} THEN crossed \union {p} ELSE crossed
  /\ UNCHANGED <<clock, dumps, flush, report, sent, spoilt>>

\* Flush reads the pending file; with nothing to count it ends there.
FlushLoads(f) ==
  LET others == Flushing(Flushers \ {f}) IN
  /\ flush[f] = NotFlushing
  /\ pending \intersect Countable # {}
  /\ flush' = [flush EXCEPT ![f] = [step |-> "loaded", seen |-> pending]]
  /\ crossed' = IF others = {} THEN crossed
                ELSE crossed \union pending \union UNION {flush[o].seen : o \in others}
  /\ UNCHANGED <<clock, pending, dumps, report, recorded, sent, spoilt>>

\* It creates the dump of this second, which empties one that is there.
CreateDump(f) ==
  /\ flush[f].step = "loaded"
  /\ dumps' = [d \in DOMAIN dumps \union {clock} |-> IF d = clock THEN {} ELSE dumps[d]]
  /\ spoilt' = IF clock \in DOMAIN dumps THEN spoilt \union dumps[clock] ELSE spoilt
  /\ flush' = [flush EXCEPT ![f] = [step |-> "writing", seen |-> @.seen, dump |-> clock]]
  /\ UNCHANGED <<clock, pending, report, recorded, sent, crossed>>

\* Two writers of one dump overwrite one another: the last one's counts stand.
WriteDump(f) ==
  LET d == flush[f].dump IN
  /\ flush[f].step = "writing"
  /\ dumps' = IF d \in DOMAIN dumps
              THEN [dumps EXCEPT ![d] = flush[f].seen \intersect Countable] ELSE dumps
  /\ spoilt' = IF d \in DOMAIN dumps THEN spoilt \union dumps[d] ELSE spoilt
  /\ flush' = [flush EXCEPT ![f].step = "written"]
  /\ UNCHANGED <<clock, pending, report, recorded, sent, crossed>>

\* The write fails and the dump is removed.
WriteFails(f) ==
  LET d == flush[f].dump IN
  /\ flush[f].step = "writing"
  /\ dumps' = [x \in DOMAIN dumps \ {d} |-> dumps[x]]
  /\ spoilt' = IF d \in DOMAIN dumps THEN spoilt \union dumps[d] ELSE spoilt
  /\ flush' = [flush EXCEPT ![f] = NotFlushing]
  /\ UNCHANGED <<clock, pending, report, recorded, sent, crossed>>

RemovePending(f) ==
  /\ flush[f].step = "written"
  /\ pending' = {}
  /\ flush' = [flush EXCEPT ![f] = NotFlushing]
  /\ UNCHANGED <<clock, dumps, report, recorded, sent, crossed, spoilt>>

\* The close or the removal fails, or the process stops: the dump and the pending file stay.
FlushEnds(f) ==
  /\ flush[f] # NotFlushing
  /\ flush' = [flush EXCEPT ![f] = NotFlushing]
  /\ spoilt' = IF flush[f].step = "written" THEN spoilt \union flush[f].seen ELSE spoilt
  /\ report' = IF f = ServerFlush THEN NoReport ELSE report
  /\ UNCHANGED <<clock, pending, dumps, recorded, sent, crossed>>

-----------------------------------------------------------------------------
(* Reports of the schedule. *)

Readable == {d \in DOMAIN dumps : clock - d <= ReportAge}

\* After its flush the schedule reads the dumps.
LoadDumps ==
  /\ report = NoReport
  /\ flush[ServerFlush] = NotFlushing
  /\ Readable # {}
  /\ report' = [step |-> "sending", paths |-> UNION {dumps[d] : d \in Readable}]
  /\ UNCHANGED <<clock, pending, dumps, flush, recorded, sent, crossed, spoilt>>

Old == {d \in DOMAIN dumps : clock - d > DumpAge}

\* Once the mail is sent, dumps older than DumpAge are removed.
SendAndPrune ==
  /\ report.step = "sending"
  /\ sent' = sent \union report.paths
  /\ dumps' = [d \in DOMAIN dumps \ Old |-> dumps[d]]
  /\ spoilt' = spoilt \union UNION {dumps[d] : d \in {x \in Old : clock - x > ReportAge}}
  /\ report' = NoReport
  /\ UNCHANGED <<clock, pending, flush, recorded, crossed>>

SendFails ==
  /\ report.step = "sending"
  /\ report' = NoReport
  /\ UNCHANGED <<clock, pending, dumps, flush, recorded, sent, crossed, spoilt>>

\* The counts of the pending file, read under the mutex.
Snapshot == IF flush[ServerFlush] = NotFlushing THEN pending \intersect Countable ELSE {}

\* The command line reports the dumps, without pruning; so does an administrator, who has the
\* pending file flushed first and what is in it by then counted in.
SendOnly ==
  \E merged \in {{}, Snapshot} :
    LET paths == merged \union UNION {dumps[d] : d \in Readable}
    IN  /\ paths # {}
        /\ sent' = sent \union paths
        /\ UNCHANGED <<clock, pending, dumps, flush, report, recorded, crossed, spoilt>>

\* A dump is written and a mail is sent in much less time than dumps are kept.
ClockTicks ==
  /\ clock < MaxClock
  /\ report = NoReport
  /\ \A f \in Flushers : flush[f].step \notin {"writing", "written"}
  /\ clock' = clock + 1
  /\ UNCHANGED <<pending, dumps, flush, report, recorded, sent, crossed, spoilt>>

PathsNext ==
  \/ \E p \in Paths : Record(p)
  \/ \E f \in Flushers : \/ FlushLoads(f) \/ CreateDump(f) \/ WriteDump(f) \/ WriteFails(f)
                         \/ RemovePending(f) \/ FlushEnds(f)
  \/ LoadDumps \/ SendAndPrune \/ SendFails \/ SendOnly
  \/ ClockTicks

PathsSpec == PathsInit /\ [][PathsNext]_pathVars

-----------------------------------------------------------------------------

\* The types of the counts, the dumps and the flushes under way.
PathsTypeOK ==
  /\ clock \in 1..MaxClock
  /\ DOMAIN dumps \subseteq 1..clock
  /\ pending \union sent \union crossed \union spoilt \subseteq recorded
  /\ recorded \subseteq Paths
  /\ \A f \in Flushers : flush[f] # NotFlushing => flush[f].seen \subseteq recorded

\* The places a path is counted at: the dumps, and the pending file unless its flush has
\* written it already.
PlacesOf(p) ==
  {d \in DOMAIN dumps : p \in dumps[d]}
    \union (IF p \in pending /\ \A f \in Flushing(Flushers) :
                                  flush[f].step = "written" => p \notin flush[f].seen
            THEN {0} ELSE {})

\* A recorded path is counted at one place, neither lost nor twice, until a report has sent
\* it; only a flush by another process at the same time, a second flush in the same second,
\* a flush that ended early, or a month without a report may spoil that.
PathsCountedOnce ==
  \A p \in (recorded \intersect Countable) \ (crossed \union spoilt) :
    \/ Cardinality(PlacesOf(p)) = 1
    \/ PlacesOf(p) = {} /\ p \in sent
=============================================================================
