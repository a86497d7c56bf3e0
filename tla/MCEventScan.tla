---------------------------- MODULE MCEventScan -----------------------------
(* Instances of EventScan: the Identity contract and one more. *)
EXTENDS EventScan

CONSTANTS identity, other, request, job, latest

\* All events, as the renderer asks for them, and two pages of a client that goes
\* backwards, the second given from the later block to the earlier.
SomeQueries == {<<0, latest>>, <<1, 2>>, <<1, 0>>}
AllEvents == {<<0, latest>>}
=============================================================================
