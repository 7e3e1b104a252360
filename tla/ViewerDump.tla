------------------------------ MODULE ViewerDump ------------------------------
(***************************************************************************)
(* The debug session: main() polls the store of rendered outputs, writes   *)
(* the pictures that changed to disk until there are enough of them, and   *)
(* logs the counters of the runners                                        *)
(* (src/app/src/runtime/ViewerFrameDumper.cpp, ViewerDebugSession.cpp and  *)
(* src/model/src/viewer/RenderOutputStore.cpp).  The viewer publishes an   *)
(* output first and counts it afterwards.                                  *)
(***************************************************************************)
EXTENDS Integers, SequencesExt

CONSTANTS
  Pictures,        \* what outputs show; their hashes are taken to be distinct
  OutputCapacity,  \* RenderOutputStore: main's max of the two configured sizes
  MaxFrames,       \* ViewerDumpConfig::maxFrames, after the max(1, .)
  MaxOutputs       \* bound on the number of outputs

ASSUME DumpAssumption ==
  /\ OutputCapacity \in Nat \ {0}
  /\ MaxFrames \in Nat \ {0}
  /\ MaxOutputs \in Nat

\* Of the outputs a store may hold: no buffer, and one that is too short.
None == "none"
Short == "short"

ASSUME PicturesAssumption == Pictures \cap {None, Short} = {}

\* An output: its picture, and whether it repeats the pose and the scene of the one
\* before, and with them the picture.
Outputs == [picture : Pictures \cup {None, Short}, cached : BOOLEAN]

VARIABLES
  published,      \* every output; its position stands for its renderTimestamp
  counted,        \* the viewer runner's publishedOutputCount, cachedOutputCount
  enabled,        \* whether the session dumps, or waits for a fresh output only
  logOpen,        \* whether the log could be opened
  at,             \* where waitForConfiguredOutputs stands
  batch,          \* the snapshot of the store that is being processed
  seen,           \* history variable: the outputs that were in a snapshot
  lastProcessed,  \* m_lastProcessedTimestamp
  dumped,         \* the outputs written, in order
  skipped,        \* m_skippedDuplicateCount
  observed,       \* m_observedNonCachedOutput
  lastReported,   \* m_lastReportedCounters
  logged,         \* history variable: the sum of the increments in the log
  summary         \* the totals of the final summary

viewerVars == <<published, counted>>
dumpConfigVars == <<enabled, logOpen>>
dumpVars == <<batch, seen, lastProcessed, dumped, skipped, observed>>
logVars == <<lastReported, logged, summary>>
sessionVars == <<viewerVars, dumpConfigVars, at, dumpVars, logVars>>

Counters == [outputs : 0..MaxOutputs, cached : 0..MaxOutputs]
NoCounters == [outputs |-> 0, cached |-> 0]
NoSummary == [outputs |-> -1, cached |-> -1]

Plus(a, b) == [outputs |-> a.outputs + b.outputs, cached |-> a.cached + b.cached]

\* clampedDelta, for each counter
Delta(end, begin) ==
  [outputs |-> Max({end.outputs - begin.outputs, 0}),
   cached |-> Max({end.cached - begin.cached, 0})]

\* main() builds the session, which samples the counters, before any runner starts.
DumpInit ==
  /\ published = <<>> /\ counted = NoCounters
  /\ enabled \in BOOLEAN
  /\ logOpen \in BOOLEAN /\ (logOpen => enabled)
  /\ at = "poll"
  /\ batch = <<>> /\ seen = {} /\ lastProcessed = 0
  /\ dumped = <<>> /\ skipped = 0 /\ observed = FALSE
  /\ lastReported = NoCounters /\ logged = NoCounters /\ summary = NoSummary

-----------------------------------------------------------------------------
(* The viewer thread                                                       *)

Publish ==
  /\ counted.outputs = Len(published)
  /\ Len(published) < MaxOutputs
  /\ \E output \in Outputs :
       /\ output.cached =>
            published # <<>> /\ Last(published).picture = output.picture
       /\ published' = Append(published, output)
  /\ UNCHANGED <<counted, dumpConfigVars, at, dumpVars, logVars>>

RecordOutput ==
  /\ counted.outputs < Len(published)
  /\ counted' = Plus(counted, [outputs |-> 1,
                               cached |-> IF Last(published).cached THEN 1 ELSE 0])
  /\ UNCHANGED <<published, dumpConfigVars, at, dumpVars, logVars>>

-----------------------------------------------------------------------------
(* ViewerFrameDumper                                                       *)

\* RenderOutputStore::recent: the store keeps the newest outputs only, oldest first.
Gone == Max({Len(published) - OutputCapacity, 0})
Recent == [k \in 1..(Len(published) - Gone) |-> Gone + k]

ProcessNewOutputs ==
  /\ at = "poll"
  /\ batch' = Recent
  /\ seen' = seen \cup ToSet(Recent)
  /\ at' = "process"
  /\ UNCHANGED <<viewerVars, dumpConfigVars, lastProcessed, dumped, skipped, observed,
                 logVars>>

\* The deadline is looked at before each poll.
DeadlinePasses ==
  /\ at = "poll"
  /\ at' = "timed out"
  /\ UNCHANGED <<viewerVars, dumpConfigVars, dumpVars, logVars>>

\* Mutant: the output processed last is processed again.
NotOlder(i) == i >= lastProcessed

New(i) == i > lastProcessed

\* An output to hand to handleOutput, and all that concerns it but its outcome.
IsHead(i) == at = "process" /\ batch # <<>> /\ i = Head(batch)
Relevant(output) == output.picture # None /\ (enabled \/ ~output.cached)

Processed(i) ==
  /\ batch' = Tail(batch)
  /\ lastProcessed' = IF New(i) THEN i ELSE lastProcessed
  /\ UNCHANGED <<viewerVars, dumpConfigVars, seen, logVars>>

SkipOutput(i) ==
  /\ IsHead(i)
  /\ \/ ~New(i)
     \/ ~Relevant(published[i])
     \/ enabled /\ Len(dumped) >= MaxFrames
  /\ Processed(i)
  /\ UNCHANGED <<at, dumped, skipped, observed>>

Observe(i) ==
  /\ IsHead(i) /\ New(i) /\ Relevant(published[i]) /\ ~enabled
  /\ Processed(i)
  /\ observed' = TRUE
  /\ UNCHANGED <<at, dumped, skipped>>

\* Mutant: any picture written before counts as a duplicate.
SameAsAny(i) == \E j \in ToSet(dumped) : published[j].picture = published[i].picture

SameAsLast(i) == dumped # <<>> /\ published[Last(dumped)].picture = published[i].picture

Dumps(i) ==
  /\ IsHead(i) /\ New(i) /\ Relevant(published[i]) /\ enabled
  /\ Len(dumped) < MaxFrames
  /\ Processed(i)
  /\ UNCHANGED observed

SkipDuplicate(i) ==
  /\ Dumps(i)
  /\ published[i].picture # Short /\ SameAsLast(i)
  /\ skipped' = skipped + 1
  /\ UNCHANGED <<at, dumped>>

WriteOutput(i) ==
  /\ Dumps(i)
  /\ published[i].picture # Short /\ ~SameAsLast(i)
  /\ dumped' = Append(dumped, i)
  /\ UNCHANGED <<at, skipped>>

\* A buffer that is too short, or a file that cannot be written, ends the wait.
WriteFails(i) ==
  /\ Dumps(i)
  /\ published[i].picture = Short \/ ~SameAsLast(i)
  /\ at' = "failed"
  /\ UNCHANGED <<dumped, skipped>>

EndOfBatch ==
  /\ at = "process" /\ batch = <<>>
  /\ at' = "tick"
  /\ UNCHANGED <<viewerVars, dumpConfigVars, dumpVars, logVars>>

Enough == IF enabled THEN Len(dumped) >= MaxFrames ELSE observed

CheckEnough ==
  /\ at = "check"
  /\ at' = IF Enough THEN "completed" ELSE "poll"
  /\ UNCHANGED <<viewerVars, dumpConfigVars, dumpVars, logVars>>

-----------------------------------------------------------------------------
(* ViewerDebugSession                                                      *)

LogSample ==
  /\ at = "tick" /\ logOpen
  /\ logged' = Plus(logged, Delta(counted, lastReported))
  /\ lastReported' = counted
  /\ at' = "check"
  /\ UNCHANGED <<viewerVars, dumpConfigVars, dumpVars, summary>>

\* Less than a report period has passed, or there is no log.
LogNothing ==
  /\ at = "tick"
  /\ at' = "check"
  /\ UNCHANGED <<viewerVars, dumpConfigVars, dumpVars, logVars>>

Ended == at \in {"completed", "failed", "timed out"}

WriteFinalSummary ==
  /\ Ended /\ logOpen /\ summary = NoSummary
  /\ summary' = counted
  /\ UNCHANGED <<viewerVars, dumpConfigVars, at, dumpVars, lastReported, logged>>

-----------------------------------------------------------------------------
DumperStep ==
  \/ ProcessNewOutputs \/ DeadlinePasses
  \/ \E i \in ToSet(batch) :
       SkipOutput(i) \/ Observe(i) \/ SkipDuplicate(i) \/ WriteOutput(i) \/ WriteFails(i)
  \/ EndOfBatch \/ CheckEnough \/ LogSample \/ LogNothing \/ WriteFinalSummary

DumpNext == Publish \/ RecordOutput \/ DumperStep

DumpSpec == DumpInit /\ [][DumpNext]_sessionVars

-----------------------------------------------------------------------------
(* Properties                                                              *)

\* The pictures among the outputs looked at that differ from the one before.
Handled == {i \in seen : i <= lastProcessed /\ published[i].picture # None}
Changes ==
  {i \in Handled : \A j \in Handled :
     j < i /\ (\A k \in Handled : ~(j < k /\ k < i)) =>
       published[j].picture # published[i].picture}

\* However the polls cut the stream of outputs and overlap, what is written are the
\* first MaxFrames changes of picture, in order; a session that failed lacks the last
\* (ViewerFrameDumper.cpp:101-161).
DumpShowsChanges ==
  enabled =>
    /\ \A i, j \in DOMAIN dumped : i < j => dumped[i] < dumped[j]
    /\ ToSet(dumped) \subseteq Changes /\ Len(dumped) <= MaxFrames
    /\ \A i \in Changes \ ToSet(dumped) :
         \/ Len(dumped) = MaxFrames /\ i > Last(dumped)
         \/ at = "failed" /\ i = lastProcessed

\* An output is neither written nor skipped twice, and the summary, which is sampled
\* from the runner, accounts for what was dumped, but for one output that the viewer
\* has published and not yet counted, and for all that the log reported
\* (ViewerDebugSession.cpp:117-169, SceneViewerRunner.cpp:83-90).
SummaryCoversDump ==
  summary # NoSummary =>
    /\ Len(dumped) + skipped <= summary.outputs + 1
    /\ summary.cached <= summary.outputs
    /\ logged.outputs <= summary.outputs /\ logged.cached <= summary.cached
=============================================================================
