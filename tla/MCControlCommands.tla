-------------------------- MODULE MCControlCommands --------------------------
(* Instances of ControlCommands for TLC. *)
EXTENDS ControlCommands

\* Positions are merged, and the account may be missing; orders, deals and
\* quotes are handled like the account.
SomeScopes == <<"ACCOUNT", "POSITION">>

SomeRequests == {{"POSITION", "CREDIT_ACCOUNT"}}
=============================================================================
