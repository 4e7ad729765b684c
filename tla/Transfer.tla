------------------------------ MODULE Transfer ------------------------------
(***************************************************************************)
(* What an application sees of a connection: it hands over the bytes of one *)
(* flow after the other, the bytes come out at the other side in order,     *)
(* and a flow is reported done once, after its last byte has come out.      *)
(***************************************************************************)
EXTENDS Naturals, Sequences

CONSTANT Flows      \* for each flow, the sizes of its chunks

VARIABLES flow, chunk,   \* the flow in progress, its chunks handed over
          offered,       \* the number of bytes handed over
          delivered,     \* the number of bytes that came out
          done           \* the number of flows reported done

vars == <<flow, chunk, offered, delivered, done>>

Init == flow = 0 /\ chunk = 0 /\ offered = 0 /\ delivered = 0 /\ done = 0

Start == /\ done = flow /\ flow < Len(Flows)
         /\ flow' = flow + 1 /\ chunk' = 1
         /\ offered' = offered + Flows[flow + 1][1]
         /\ UNCHANGED <<delivered, done>>

Chunk == /\ flow > done /\ chunk < Len(Flows[flow])
         /\ chunk' = chunk + 1
         /\ offered' = offered + Flows[flow][chunk + 1]
         /\ UNCHANGED <<flow, delivered, done>>

Deliver == /\ delivered' > delivered /\ delivered' <= offered
           /\ delivered' \in Nat
           /\ UNCHANGED <<flow, chunk, offered, done>>

Report == /\ flow > done /\ chunk = Len(Flows[flow])
          /\ delivered = offered
          /\ done' = flow
          /\ UNCHANGED <<flow, chunk, offered, delivered>>

Next == Start \/ Chunk \/ Deliver \/ Report

Spec == Init /\ [][Next]_vars
=============================================================================
