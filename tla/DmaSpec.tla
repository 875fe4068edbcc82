------------------------------ MODULE DmaSpec ------------------------------
(***************************************************************************)
(* What a caller of socDmaRead/socDmaWrite expects: the pages of one       *)
(* request are moved one by one, in order, while the call lasts; a call    *)
(* that returns success has moved them all; a call may fail instead.  One  *)
(* request is served at a time.                                            *)
(***************************************************************************)
EXTENDS Integers

CONSTANTS Procs, MaxPages

VARIABLES
  serving,            \* the set of processes inside a call (at most one)
  asked,              \* how many pages each call asks for
  pages               \* which of them have been moved

specVars == <<serving, asked, pages>>

DmaInit ==
  /\ serving = {}
  /\ asked = [p \in Procs |-> 0]
  /\ pages = [p \in Procs |-> {}]

\* 0 pages: the request could not be set up and will fail.
Request(p) ==
  /\ serving = {}
  /\ serving' = {p}
  /\ \E n \in 0 .. MaxPages : asked' = [asked EXCEPT ![p] = n]
  /\ UNCHANGED pages

Move(p) ==
  /\ p \in serving
  /\ \E k \in 1 .. asked[p] :
       /\ pages[p] = 1 .. (k - 1)
       /\ pages' = [pages EXCEPT ![p] = 1 .. k]
  /\ UNCHANGED <<serving, asked>>

Return(p, ok) ==
  /\ p \in serving
  /\ ok => asked[p] > 0 /\ pages[p] = 1 .. asked[p]
  /\ serving' = {}
  /\ asked' = [asked EXCEPT ![p] = 0]
  /\ pages' = [pages EXCEPT ![p] = {}]

DmaNext ==
  \E p \in Procs : Request(p) \/ Move(p) \/ (\E ok \in BOOLEAN : Return(p, ok))

Spec == DmaInit /\ [][DmaNext]_specVars
=============================================================================
