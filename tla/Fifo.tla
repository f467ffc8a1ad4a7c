-------------------------------- MODULE Fifo --------------------------------
(***************************************************************************)
(* What a connection promises its two users: what one side has been given  *)
(* is at every time a beginning of what the other has sent.                *)
(***************************************************************************)
EXTENDS Naturals, Sequences

CONSTANT Side

VARIABLES sent, rcvd   \* sent[s], rcvd[s]: messages sent by s, given to s

Peer(s) == CHOOSE p \in Side : p # s

Init == sent = [s \in Side |-> <<>>] /\ rcvd = [s \in Side |-> <<>>]

Send(s) ==
  /\ \E d \in 1..(Len(sent[s]) + 1) : sent' = [sent EXCEPT ![s] = Append(@, d)]
  /\ UNCHANGED rcvd

Give(s) ==
  /\ Len(rcvd[s]) < Len(sent[Peer(s)])
  /\ rcvd' = [rcvd EXCEPT ![s] = Append(@, sent[Peer(s)][Len(@) + 1])]
  /\ UNCHANGED sent

Next == \E s \in Side : Send(s) \/ Give(s)

Spec == Init /\ [][Next]_<<sent, rcvd>>
=============================================================================
