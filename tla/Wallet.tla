------------------------------- MODULE Wallet -------------------------------
(***************************************************************************)
(* The wallet of a node from its key file to the deposit addresses it      *)
(* gives out (src/src/main.rs): main gets the phrase, derives the wallet   *)
(* and only then serves requests.  A stop takes the phrase and the         *)
(* requests in flight with it; the key file and the index stay.            *)
(***************************************************************************)
EXTENDS KeyFile, AddressAllocation

VARIABLE origin  \* history: the phrase each request's address is derived from

vars == <<startVars, allocationVars, origin>>

TypeOK ==
  /\ StartTypeOK
  /\ AllocationTypeOK
  /\ origin \in [Requests -> SUBSET Phrases]

Init == StartInit /\ AllocationInit /\ origin = [r \in Requests |-> {}]

-----------------------------------------------------------------------------
StartStep == StartUp /\ UNCHANGED <<allocationVars, origin>>

\* web.rs serves a request with the wallet that main made of the phrase.
ServeStep(r) ==
  /\ node = "running"
  /\ Serve(r)
  /\ origin' = IF request[r].pc = "new" THEN [origin EXCEPT ![r] = phrase] ELSE origin
  /\ UNCHANGED startVars

StopStep ==
  /\ Stop
  /\ IF node = "running" THEN Crash ELSE UNCHANGED allocationVars
  /\ UNCHANGED origin

Next == StartStep \/ (\E r \in Requests : ServeStep(r)) \/ StopStep

Spec == Init /\ [][Next]_vars

-----------------------------------------------------------------------------
\* The key file holds the phrase of every deposit address ever given out,
\* through any number of starts, wrong passwords and stops: what is sent to an
\* address while the node is down is not lost with the process (crypto.rs writes
\* the file before main derives the wallet, and never over another one).
AddressesAreRecoverable ==
  \A r \in Requests : request[r].pc # "new" => origin[r] = {file}
=============================================================================
