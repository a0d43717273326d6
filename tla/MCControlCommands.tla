--------------------------- MODULE MCControlCommands ---------------------------
(* Instances of ControlCommands for TLC.                                        *)
EXTENDS ControlCommands

CONSTANTS c1, c2

Req(i, a) == [id |-> i, action |-> a, source |-> "web"]

\* A pause and a resume, and a second request under the id of each.
Mixed == {Req(1, "resume"), Req(2, "pause"), Req(2, "continue")}

\* A plan, and a command after it in the inbox.
PlanFirst == {Req(1, "continue"), Req(2, "pause")}
=============================================================================
