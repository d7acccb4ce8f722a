------------------------------- MODULE MCGateway -------------------------------
(* Instances of Gateway for TLC. *)
EXTENDS Gateway
MCGrants == {{"workspace"}, {"terminal", "clipboard_get"}}
W(p, o) == [service |-> "workspace", at |-> p, op |-> o]
MCAsked ==
  { W("remote", "use"), W("remote", "stop"), W("remote", "owner"), W("local", "use"),
    [service |-> "terminal", at |-> "local", op |-> "use"],
    [service |-> "terminal", at |-> "local", op |-> "stop"],
    [service |-> "clipboard_get", at |-> "local", op |-> "use"] }
===============================================================================
