------------------------------ MODULE RUDPLive ------------------------------
(***************************************************************************)
(* Progress of the conversation of module RUDP: what the timers, the       *)
(* applications and the network have to do for ever so that what is        *)
(* written is read, and that is all they have to do.                       *)
(***************************************************************************)
EXTENDS RUDP

\* The datagrams a step of n adds to the network.
Sent(n) == {d \in net' : d.to = Peer(n)} \ net
Unacked(n) == {s \in sndBuf[n] : ~s.acked}
Lowest(n) == CHOOSE s \in Unacked(n) : \A t \in Unacked(n) : s.sn <= t.sn

Writers == {n \in Node : MaxWrite[n] > 0}
-----------------------------------------------------------------------------
(* The timer service runs update for ever, and the network does not lose all *)
(* it is given.  Each need of an end has a condition of its own.             *)

\* A retransmission timer expires, and that segment gets through.
UpdateResend(n) ==
  /\ Unacked(n) # {}
  /\ Update(n)
  /\ \E d \in Sent(n) : [sn |-> Lowest(n).sn, data |-> Lowest(n).data] \in d.push

\* cwnd is at least 1 (see Congestion): with nothing in flight, flush moves.
UpdateMove(n) ==
  /\ Update(n)
  /\ sndNxt'[n] > sndNxt[n]

\* The probe timer is armed; it expires, and the question gets through.
UpdateProbe(n) ==
  /\ rmtWnd[n] = 0
  /\ Update(n)
  /\ probeWait[n] => \E d \in Sent(n) : d.ask

\* The acks and the window notice that are due are sent, by update or at the end
\* of Input, and get through.
Tell(n) ==
  /\ ackList[n] # {} \/ tell[n]
  /\ Update(n) \/ InputEnd(n)
  /\ \E d \in Sent(n) : d.acks # {} \/ d.tell

(* A datagram of which there is need is not passed over for ever while it, or *)
(* another as good, is in the network.                                        *)
DeliverPush(n) == \E d \in net : (\E s \in d.push : s.sn <= rcvNxt[n]) /\ InputBegin(n, d)
DeliverAsk(n)  == \E d \in net : d.ask /\ InputBegin(n, d)
DeliverUna(n)  == \E d \in net : d.una > sndUna[n] /\ InputBegin(n, d)
DeliverWnd(n)  == \E d \in net : rmtWnd[n] = 0 /\ d.wnd > 0 /\ InputBegin(n, d)

\* The network comes to the end of its copies of a datagram, by loss or delivery.
Leave(n) == \E d \in net : d.to = n /\ (Lose(d) \/ InputBegin(n, d)) /\ d \notin net'

\* The mutex of a session is given to Read again and again, Input comes to its
\* end, and no datagram stays in the network for ever.
Fairness ==
  /\ \A n \in Node : WF_vars(InputPush(n)) /\ WF_vars(InputEnd(n)) /\ WF_vars(Leave(n))
  /\ \A n \in Writers :
       /\ SF_vars(UpdateResend(n)) /\ SF_vars(UpdateMove(n)) /\ SF_vars(UpdateProbe(n))
       /\ SF_vars(DeliverUna(n)) /\ SF_vars(DeliverWnd(n))
       /\ SF_vars(Read(Peer(n))) /\ SF_vars(Tell(Peer(n)))
       /\ SF_vars(DeliverPush(Peer(n))) /\ SF_vars(DeliverAsk(Peer(n)))

FairSpec == Spec /\ Fairness
-----------------------------------------------------------------------------
(* Properties                                                              *)

\* Everything Write accepted is read at the other end.
EventuallyRead ==
  \A n \in Node : \A k \in 1..MaxWrite[n] :
    written[n] >= k ~> Len(read[Peer(n)]) >= k

\* The sender learns of it: its queues are empty again, so that no Write has to
\* wait for ever.
EventuallyReleased == \A n \in Node : []<>(WaitSnd(n) = 0)

\* A window that closed opens again although the notice of Receive may be lost
\* and nothing is left to retransmit: the probe timer asks for it.
WindowReopens == \A n \in Node : rmtWnd[n] = 0 ~> rmtWnd[n] > 0
=============================================================================
