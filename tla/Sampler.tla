-------------------------------- MODULE Sampler --------------------------------
(***************************************************************************)
(* The resource collector (resources/src: main, discovery, history) and    *)
(* the thread of the hub that starts it and keeps its last sample          *)
(* (desktop/src/main.rs).  While a sample is made, processes end and their *)
(* pids are used again, the clock is set, and the hub may die.             *)
(*                                                                         *)
(* What launchd and lsof say of a pid is modelled by whom they say it of:  *)
(* the start of the process that has the pid at that moment.  Figures are  *)
(* left out.                                                               *)
(***************************************************************************)
EXTENDS Naturals, Sequences, FiniteSets

CONSTANTS
  Pid,
  MaxStart,      \* bound on the number of processes that are started
  MaxClock,      \* bound on the clock
  MaxPoints,     \* samples the history holds (1440)
  MaxAge         \* and how old they may be (a day)

ASSUME SamplerAssumption ==
  /\ MaxStart \in Nat /\ MaxClock \in Nat \ {0}
  /\ MaxPoints \in Nat \ {0} /\ MaxAge \in Nat \ {0}

VARIABLES
  proc,          \* the start of the process that has each pid, or Nobody
  starts,        \* processes started so far
  clock,
  hubUp,         \* the hub is there
  collector,     \* the collector: pc, what it refreshed, the sample it makes
  bound,         \* what it discovered: jobs and ports, and the starts they are for
  pipe,          \* its output
  shown,         \* the sample the hub hands out
  points         \* the history: the times of its samples

machine == <<proc, starts, clock, hubUp>>
samplerVars == <<machine, collector, bound, pipe, shown, points>>

Nobody == 0
NoProcess == [p \in Pid |-> Nobody]
Unbound == [jobs |-> NoProcess, ports |-> NoProcess, starts |-> NoProcess]
NoSample == [p \in Pid |-> [start |-> Nobody, service |-> Nobody, ports |-> Nobody]]

SamplerInit ==
  /\ proc = NoProcess /\ starts = 0 /\ clock = 1 /\ hubUp = TRUE
  /\ collector = [pc |-> "started", parent |-> FALSE, seen |-> NoProcess, first |-> TRUE]
  /\ bound = Unbound
  /\ pipe = <<>> /\ shown = NoSample
  /\ points = {}

CollectorAt(pc) == collector.pc = pc
CollectorGoes(pc) == collector' = [collector EXCEPT !.pc = pc]

-------------------------------------------------------------------------------
(* The machine.                                                            *)

ProcessStarts(p) ==
  /\ proc[p] = Nobody /\ starts < MaxStart
  /\ starts' = starts + 1
  /\ proc' = [proc EXCEPT ![p] = starts + 1]
  /\ UNCHANGED <<clock, hubUp, collector, bound, pipe, shown, points>>

ProcessEnds(p) ==
  /\ proc[p] # Nobody
  /\ proc' = [proc EXCEPT ![p] = Nobody]
  /\ UNCHANGED <<starts, clock, hubUp, collector, bound, pipe, shown, points>>

\* Time passes, or somebody sets the clock back.
ClockChanges ==
  /\ clock' \in 1..MaxClock \ {clock}
  /\ UNCHANGED <<proc, starts, hubUp, collector, bound, pipe, shown, points>>

HubEnds ==
  /\ hubUp
  /\ hubUp' = FALSE /\ pipe' = <<>>
  /\ UNCHANGED <<proc, starts, clock, collector, bound, shown, points>>

-------------------------------------------------------------------------------
(* The collector.                                                          *)

\* It looks at once who its parent is; that may be nobody already.
LookAtParent ==
  /\ CollectorAt("started")
  /\ collector' = [collector EXCEPT !.pc = "ticking", !.parent = hubUp]
  /\ UNCHANGED <<machine, bound, pipe, shown, points>>

\* Discovery is due every thirty seconds, and at first.
Tick ==
  /\ CollectorAt("ticking")
  /\ IF collector.parent # hubUp
       THEN CollectorGoes("ended")
       ELSE \E pc \in {"discovering"} \cup (IF collector.first THEN {} ELSE {"sampling"}) :
              collector' = [pc |-> pc, parent |-> collector.parent, seen |-> proc, first |-> FALSE]
  /\ UNCHANGED <<machine, bound, pipe, shown, points>>

\* launchctl and lsof, one after the other; each has four seconds and may fail.
DiscoverJobs ==
  /\ CollectorAt("discovering")
  /\ bound' \in { [bound EXCEPT !.jobs = j] : j \in {proc, NoProcess} }
  /\ CollectorGoes("discovering ports")
  /\ UNCHANGED <<machine, pipe, shown, points>>

\* What was discovered is for the processes that were refreshed before.
DiscoverPorts ==
  /\ CollectorAt("discovering ports")
  /\ bound' \in { [bound EXCEPT !.ports = j, !.starts = collector.seen] : j \in {proc, NoProcess} }
  /\ CollectorGoes("sampling")
  /\ UNCHANGED <<machine, pipe, shown, points>>

\* A mutant of Sampled: whoever has the pid has what was discovered of it.
SampledByPid(p) ==
  [start |-> collector.seen[p],
   service |-> IF collector.seen[p] # Nobody THEN bound.jobs[p] ELSE Nobody,
   ports |-> IF collector.seen[p] # Nobody THEN bound.ports[p] ELSE Nobody]

\* A process has it if it is the one it was discovered for.
Sampled(p) ==
  LET fresh == collector.seen[p] # Nobody /\ bound.starts[p] = collector.seen[p]
  IN  [start |-> collector.seen[p],
       service |-> IF fresh THEN bound.jobs[p] ELSE Nobody,
       ports |-> IF fresh THEN bound.ports[p] ELSE Nobody]

\* record(): what is too old goes, and of the rest the earliest beyond the number.
Recorded(at) ==
  LET kept == { t \in points \cup {at} : t + MaxAge > at }
  IN  { t \in kept : Cardinality({ u \in kept : u > t }) < MaxPoints }

\* Once a minute the sample is recorded, if the database lets it.
Sample ==
  /\ CollectorAt("sampling")
  /\ CollectorGoes("writing")
  /\ points' \in {points, Recorded(clock)}
  /\ UNCHANGED <<machine, bound, pipe, shown>>

\* A mutant of WriteSample: that nobody reads is not noticed.
WriteRegardless ==
  /\ CollectorAt("writing")
  /\ IF hubUp THEN pipe = <<>> /\ pipe' = <<[p \in Pid |-> Sampled(p)]>> ELSE UNCHANGED pipe
  /\ CollectorGoes("ticking")
  /\ UNCHANGED <<machine, bound, shown, points>>

WriteSample ==
  /\ CollectorAt("writing")
  /\ IF hubUp
       THEN pipe = <<>> /\ pipe' = <<[p \in Pid |-> Sampled(p)]>> /\ CollectorGoes("ticking")
       ELSE CollectorGoes("ended") /\ UNCHANGED pipe
  /\ UNCHANGED <<machine, bound, shown, points>>

CollectorDies ==
  /\ ~CollectorAt("ended")
  /\ CollectorGoes("ended")
  /\ UNCHANGED <<machine, bound, pipe, shown, points>>

\* The hub's thread takes each line for the new sample.
HubTakes ==
  /\ pipe # <<>>
  /\ shown' = Head(pipe) /\ pipe' = <<>>
  /\ UNCHANGED <<machine, collector, bound, points>>

CollectorRuns ==
  LookAtParent \/ Tick \/ DiscoverJobs \/ DiscoverPorts \/ Sample \/ WriteSample

SamplerNext ==
  \/ \E p \in Pid : ProcessStarts(p) \/ ProcessEnds(p)
  \/ ClockChanges \/ HubEnds \/ CollectorRuns \/ CollectorDies \/ HubTakes

\* The collector runs, what it starts ends in time, and the hub's thread reads.
SamplerFair == WF_samplerVars(CollectorRuns) /\ WF_samplerVars(HubTakes)

SamplerSpec == SamplerInit /\ [][SamplerNext]_samplerVars /\ SamplerFair

-------------------------------------------------------------------------------
\* "Bind cached attribution to observed process start times, not reusable PIDs"
\* (resources/src/main.rs:148): a process that is still there is never shown with
\* the service or the ports of one that had its pid before.
LabelsAreOwn ==
  \A p \in Pid : proc[p] # Nobody /\ shown[p].start = proc[p] =>
    {shown[p].service, shown[p].ports} \subseteq {Nobody, proc[p]}

\* "It never becomes an orphan service" (resources/src/main.rs:286): the collector
\* ends after the hub, whenever the hub ends.
CollectorEnds == ~hubUp ~> CollectorAt("ended")

\* The same comment read to the letter: a process that ended while launchd was asked
\* is shown with what its successor does.
LabelsAreExact ==
  \A p \in Pid : {shown[p].service, shown[p].ports} \subseteq {Nobody, shown[p].start}

\* "Also cap cardinality if wall time moves backwards" (history.rs:31): the cap keeps
\* the latest times, and what is recorded after a clock was set back is not among them.
RecordedIsKept == CollectorAt("sampling") => clock \in Recorded(clock)
================================================================================
