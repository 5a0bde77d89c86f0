-------------------------------- MODULE Relay --------------------------------
(***************************************************************************)
(* What the engine promises of the requests it passes on: they reach the   *)
(* parent one at a time, each once and in the order they were submitted.   *)
(* Requests that were submitted may stay undelivered, when a process ends. *)
(***************************************************************************)
EXTENDS Naturals, Sequences

CONSTANT Requests

VARIABLES submitted, delivered

relayVars == <<submitted, delivered>>

RelayInit == submitted = <<>> /\ delivered = <<>>

\* The engine takes a request from a client.
Submit(m) ==
    /\ submitted' = Append(submitted, m)
    /\ UNCHANGED delivered

\* The parent takes the first request it has not taken yet.
Deliver ==
    /\ Len(delivered) < Len(submitted)
    /\ delivered' = Append(delivered, submitted[Len(delivered) + 1])
    /\ UNCHANGED submitted

RelayNext == Deliver \/ \E m \in Requests : Submit(m)

RelaySpec == RelayInit /\ [][RelayNext]_relayVars
==============================================================================
