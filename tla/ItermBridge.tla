------------------------------ MODULE ItermBridge ------------------------------
(***************************************************************************)
(* The desktop's way to iTerm: Bridge and iterm() in desktop/src/main.rs.  *)
(* A Python child answers one line for every line it reads; neither says   *)
(* which request it belongs to.  A mutex lets one request at a time at the *)
(* child, which has four seconds.  The child is external                   *)
(* (apps/desktop/iterm_bridge.py).                                         *)
(***************************************************************************)
EXTENDS Naturals, Sequences

CONSTANTS
  ItermRequest,    \* requests views make
  NoRequest,       \* nobody asks
  ChannelSize      \* answers the reading thread hands over ahead (2)

ASSUME ItermAssumption ==
  /\ ChannelSize \in Nat \ {0}
  /\ ItermRequest \cap {NoRequest, "nothing", "unavailable", "failed"} = {}

VARIABLES
  bridge,          \* the child and its thread are there
  asked,           \* lines in the child's input
  lines,           \* lines in its output
  channel,         \* lines its thread has read
  asking,          \* the request that has the mutex
  told,            \* what each request was answered
  typed            \* history: requests the child has served

itermVars == <<bridge, asked, lines, channel, asking, told, typed>>

ItermInit ==
  /\ bridge = TRUE
  /\ asked = <<>> /\ lines = <<>> /\ channel = <<>>
  /\ asking = NoRequest
  /\ told = [r \in ItermRequest |-> "nothing"]
  /\ typed = {}

AskIterm(r) ==
  /\ asking = NoRequest /\ told[r] = "nothing"
  /\ IF bridge
       THEN /\ asking' = r
            /\ asked' = Append(asked, r)
            /\ UNCHANGED told
       ELSE /\ told' = [told EXCEPT ![r] = "unavailable"]
            /\ UNCHANGED <<asking, asked>>
  /\ UNCHANGED <<bridge, lines, channel, typed>>

ChildAnswers ==
  /\ asked # <<>>
  /\ lines' = Append(lines, Head(asked))
  /\ asked' = Tail(asked)
  /\ typed' = typed \cup {Head(asked)}
  /\ UNCHANGED <<bridge, channel, asking, told>>

ThreadReads ==
  /\ lines # <<>> /\ Len(channel) < ChannelSize
  /\ channel' = Append(channel, Head(lines))
  /\ lines' = Tail(lines)
  /\ UNCHANGED <<bridge, asked, asking, told, typed>>

AnswerIterm ==
  /\ asking # NoRequest /\ channel # <<>>
  /\ told' = [told EXCEPT ![asking] = Head(channel)]
  /\ channel' = Tail(channel)
  /\ asking' = NoRequest
  /\ UNCHANGED <<bridge, asked, lines, typed>>

\* A mutant of GiveUpIterm: the child is kept for the next request.
KeepIterm ==
  /\ asking # NoRequest
  /\ told' = [told EXCEPT ![asking] = "failed"]
  /\ asking' = NoRequest
  /\ UNCHANGED <<bridge, asked, lines, channel, typed>>

\* No answer in time, or the child is gone: it is killed, and with it goes whatever
\* it would have said.  No other is started.
GiveUpIterm ==
  /\ asking # NoRequest
  /\ told' = [told EXCEPT ![asking] = "failed"]
  /\ asking' = NoRequest
  /\ bridge' = FALSE
  /\ asked' = <<>> /\ lines' = <<>> /\ channel' = <<>>
  /\ UNCHANGED typed

ItermNext ==
  \/ \E r \in ItermRequest : AskIterm(r)
  \/ ChildAnswers \/ ThreadReads \/ AnswerIterm \/ GiveUpIterm

ItermSpec == ItermInit /\ [][ItermNext]_itermVars

-------------------------------------------------------------------------------
\* A view is shown the screen it asked for and told that its own input was accepted,
\* although answers come late and name no request; who is told so can rely on it.
AnswerIsOwn ==
  \A r \in ItermRequest :
    told[r] \in ItermRequest => told[r] = r /\ r \in typed
================================================================================
