-------------------------------- MODULE AgentLog --------------------------------
(***************************************************************************)
(* What an agent did, from its growing log to the pane of a view:          *)
(* desktop/src/agent_log.rs and agent_events in main.rs, pullAgent in      *)
(* apps/desktop/src/main.js and foldAgent in agent-analysis.js.            *)
(* The agent appends to its log while it is read; the view asks from where *)
(* the last answer ended, on a timer, whether or not one is on its way.    *)
(*                                                                         *)
(* The log is a sequence of bytes.  The first one of a line says what the  *)
(* line reduces to: a tool call or an input.  Of a call only the start is  *)
(* modelled, and the pane is how often it was told of what: in which order *)
(* no property asks.  A log that is replaced, or bound anew, and what the  *)
(* pane forgets beyond 6000 items are left out.                            *)
(***************************************************************************)
EXTENDS Naturals, Sequences, FiniteSets

CONSTANTS
  Pull,          \* answers the view may be waiting for at once
  NoPull,        \* nobody's feed
  MaxLog,        \* bound on the bytes in the log
  MaxEvents,     \* events an answer holds (2000)
  MaxScan,       \* bytes an answer has read (8 million)
  TailBytes      \* what the first request asks for (25 million)

ASSUME AgentLogAssumption ==
  /\ NoPull \notin Pull
  /\ MaxLog \in Nat /\ MaxEvents \in Nat \ {0} /\ MaxScan \in Nat \ {0}
  /\ TailBytes \in Nat \ {0}

VARIABLES
  log,           \* the bytes of the log
  pull,          \* each request: where it is, what it has read
  feed,          \* the feeds requests have made: next, the items folded, and (history)
                 \* base, the farthest tail one of its requests began with
  agentFeed      \* the feed the pane shows

agentVars == <<log, pull, feed, agentFeed>>

Call == "c"
Typed == "t"
Newline == "n"

\* Whole lines, by the positions of their first bytes.
IsStart(i) == i = 0 \/ (i <= Len(log) /\ log[i] = Newline)
Ends(i) == { j \in (i + 1)..Len(log) : log[j] = Newline }
EndOf(i) == CHOOSE j \in Ends(i) : \A k \in Ends(i) : j <= k

\* reduce(): an event for a line read from its start; its rest reduces to nothing.
EventsOf(i) ==
  IF IsStart(i) /\ log[i + 1] # Newline THEN {[kind |-> log[i + 1], line |-> i]} ELSE {}
EventsBetween(from, to) == UNION { EventsOf(i) : i \in { j \in from..(to - 1) : Ends(j) # {} } }

NoFeed == [base |-> 0, next |-> 0, items |-> [e \in {} |-> 0]]
Idle == [pc |-> "idle"]

AgentInit ==
  /\ log = <<>>
  /\ pull = [p \in Pull |-> Idle]
  /\ feed = [p \in Pull |-> NoFeed]
  /\ agentFeed = NoPull

AgentWrites ==
  /\ Len(log) < MaxLog
  /\ \E b \in {Call, Typed, Newline} : log' = Append(log, b)
  /\ UNCHANGED <<pull, feed, agentFeed>>

-------------------------------------------------------------------------------
(* pullAgent asks.                                                         *)

\* The feed that is shown, or a new one of its own.
PullAgent(p) ==
  /\ pull[p] = Idle
  /\ feed' = IF agentFeed = NoPull THEN [feed EXCEPT ![p] = NoFeed] ELSE feed
  /\ LET f == IF agentFeed = NoPull THEN p ELSE agentFeed
     IN  pull' = [pull EXCEPT ![p] =
           [pc |-> IF feed'[f].next = 0 THEN "tail" ELSE "open", feed |-> f,
            at |-> feed'[f].next, tail |-> feed'[f].next = 0]]
  /\ UNCHANGED <<log, agentFeed>>

-------------------------------------------------------------------------------
(* agent_events answers.                                                   *)

\* tail_start: skip to behind the next newline.  The size was read before, and a
\* line that is still being written has none.
TailStart(size) ==
  IF size <= TailBytes THEN 0
  ELSE IF Ends(size - TailBytes) = {} THEN size
  ELSE IF EndOf(size - TailBytes) > size THEN size ELSE EndOf(size - TailBytes)

OpenTail(p) ==
  /\ pull[p].pc = "tail"
  /\ \E size \in { Len(log), IF Len(log) = 0 THEN 0 ELSE Len(log) - 1 } :
       pull' = [pull EXCEPT ![p].pc = "open", ![p].at = TailStart(size)]
  /\ UNCHANGED <<log, feed, agentFeed>>

OpenLog(p) ==
  /\ pull[p].pc = "open"
  /\ LET at == IF pull[p].at <= Len(log) THEN pull[p].at ELSE Len(log)
     IN  pull' = [pull EXCEPT ![p] =
           [pc |-> "reading", feed |-> @.feed, tail |-> @.tail, base |-> at, at |-> at,
            events |-> {}]]
  /\ UNCHANGED <<log, feed, agentFeed>>

More(p) == pull[p].at - pull[p].base < MaxScan /\ Cardinality(pull[p].events) < MaxEvents

\* A mutant of ReadLine: what there is of a line is consumed.
ReadWhatThereIs(p) ==
  /\ pull[p].pc = "reading"
  /\ pull[p].at < Len(log) /\ More(p)
  /\ LET at == pull[p].at
         whole == Ends(at) # {}
     IN  pull' = [pull EXCEPT ![p].at = IF whole THEN EndOf(at) ELSE Len(log),
                              ![p].events = IF whole THEN @ \cup EventsOf(at) ELSE @]
  /\ UNCHANGED <<log, feed, agentFeed>>

ReadLine(p) ==
  /\ pull[p].pc = "reading"
  /\ Ends(pull[p].at) # {} /\ More(p)
  /\ pull' = [pull EXCEPT ![p].at = EndOf(@), ![p].events = @ \cup EventsOf(pull[p].at)]
  /\ UNCHANGED <<log, feed, agentFeed>>

\* The end of the file, a line without an end, or enough.
StopReading(p) ==
  /\ pull[p].pc = "reading"
  /\ Ends(pull[p].at) = {} \/ ~More(p)
  /\ pull' = [pull EXCEPT ![p].pc = "answered"]
  /\ UNCHANGED <<log, feed, agentFeed>>

-------------------------------------------------------------------------------
(* The answer is folded into the feed the request was made for.            *)

\* foldAgent(): a call whose id is there already is skipped, an input is not.
Times(items, e) == IF e \in DOMAIN items THEN items[e] ELSE 0
Fold(items, events) ==
  [e \in DOMAIN items \cup events |->
     IF e \in events /\ ~(e.kind = Call /\ e \in DOMAIN items)
       THEN Times(items, e) + 1 ELSE Times(items, e)]

PullReturns(p) ==
  /\ pull[p].pc = "answered"
  /\ LET f == pull[p].feed
     IN  /\ feed' = [feed EXCEPT ![f].items = Fold(@, pull[p].events), ![f].next = pull[p].at,
                                 ![f].base = IF pull[p].tail /\ pull[p].base > @
                                               THEN pull[p].base ELSE @]
         /\ agentFeed' = f
  /\ pull' = [pull EXCEPT ![p] = Idle]
  /\ UNCHANGED log

\* The request fails, or the answer is lost: the timer asks again.
PullFails(p) ==
  /\ pull[p] # Idle
  /\ pull' = [pull EXCEPT ![p] = Idle]
  /\ UNCHANGED <<log, feed, agentFeed>>

AgentNext ==
  \/ AgentWrites
  \/ \E p \in Pull :
       \/ PullAgent(p) \/ OpenTail(p) \/ OpenLog(p) \/ ReadLine(p) \/ StopReading(p)
       \/ PullReturns(p) \/ PullFails(p)

AgentSpec == AgentInit /\ [][AgentNext]_agentVars

-------------------------------------------------------------------------------
\* However answers overlap with each other and with the agent's writing, every whole
\* line the pane has passed is in it, and no call is in it twice ("Only whole lines
\* are consumed", agent_log.rs:160).
CallsShownOnce ==
  agentFeed # NoPull =>
    LET f == feed[agentFeed]
    IN  /\ EventsBetween(f.base, f.next) \subseteq DOMAIN f.items
        /\ \A e \in DOMAIN f.items : e.kind = Call => f.items[e] = 1

\* An input begins a turn in the pane ("A turn is everything between two of the
\* person's messages", agent-analysis.js:37); two answers that overlap begin it twice.
InputsShownOnce ==
  agentFeed # NoPull =>
    LET items == feed[agentFeed].items
    IN  \A e \in DOMAIN items : items[e] = 1
================================================================================
