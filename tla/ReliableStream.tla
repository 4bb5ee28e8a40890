--------------------------- MODULE ReliableStream ---------------------------
(***************************************************************************)
(* What a conversation promises its two applications: in each direction a  *)
(* stream of payloads, of which the reader is given every one once, in     *)
(* order, and none before it was written.                                  *)
(***************************************************************************)
EXTENDS Naturals, Sequences

CONSTANTS
  Node,     \* the two ends
  Payload,  \* what may be written
  Batch     \* the most payloads one Write accepts

VARIABLES
  sent,   \* sent[n]: the payloads accepted by Write at n
  got     \* got[n]: the payloads returned by Read at the peer of n

vars == <<sent, got>>

Init ==
  /\ sent = [n \in Node |-> <<>>]
  /\ got = [n \in Node |-> <<>>]

\* Write accepts a batch of payloads.  (The first conjunct follows from the
\* second; it saves TLC the choice of a batch in every other step.)
Accept(n) ==
  /\ sent' # sent
  /\ \E k \in 1..Batch : \E batch \in [1..k -> Payload] :
       sent' = [sent EXCEPT ![n] = @ \o batch]
  /\ UNCHANGED got

\* Read hands over the first payload that was accepted and not yet read.
Deliver(n) ==
  /\ Len(got[n]) < Len(sent[n])
  /\ got' = [got EXCEPT ![n] = Append(@, sent[n][Len(@) + 1])]
  /\ UNCHANGED sent

Next == \E n \in Node : Accept(n) \/ Deliver(n)

Spec == Init /\ [][Next]_vars
=============================================================================
