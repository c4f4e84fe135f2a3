---------------------------- MODULE MCEventTables ----------------------------
(***************************************************************************)
(* The threads that TLC lets use the tables of an event manager.           *)
(***************************************************************************)
EXTENDS CsEventTables

\* one thread pops lists as the controller does, the other is the user's
Everything == [w \in Threads |-> IF w = "ctl" THEN {"schedule", "pop"} ELSE AllCalls \ {"pop"}]

\* the user looks for the nearest event while the controller raises it
LooksBesidePop == [w \in Threads |-> IF w = "ctl" THEN {"pop"} ELSE {"schedule", "look"}]

\* events are deleted
Deletes == [w \in Threads |-> {"schedule", "delete"}]

\* the user installs handlers
Installs == [w \in Threads |-> {"install"}]

\* the user raises events, and the handlers delete lists
Throws == [w \in Threads |-> {"schedule", "throw", "install"}]

=============================================================================
