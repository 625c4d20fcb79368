---------------------------- MODULE MCAcpHarness ----------------------------
(***************************************************************************)
(* AcpHarness for TLC.                                                     *)
(***************************************************************************)
EXTENDS AcpHarness

\* The order in which the relay delivers events is not the order in which they
\* were created: the first to arrive is the newest, the second the oldest.
NewestFirst == [e \in Events |-> IF e = 1 THEN 3 ELSE IF e = 2 THEN 1 ELSE 2]
=============================================================================
