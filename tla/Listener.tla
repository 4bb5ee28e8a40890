------------------------------ MODULE Listener ------------------------------
(***************************************************************************)
(* The server side of listener.go: the monitor goroutine demultiplexes     *)
(* datagrams to sessions by remote address, creates a session for an       *)
(* address it does not know, and queues it for Accept; the application     *)
(* accepts sessions and closes them, or the listener, at any time.         *)
(*                                                                         *)
(* The steps of a goroutine are cut at every lock or channel operation on  *)
(* shared state.  A session is named by its index in info, the order of    *)
(* newUDPSession.  What Input does with a datagram is in module RUDP; here *)
(* it only counts which conversation's datagram a session was given.  A    *)
(* batch of datagrams read at once is handled as if read one by one.       *)
(***************************************************************************)
EXTENDS Integers, Sequences, FiniteSets

CONSTANTS
  Remote,     \* addresses of peers
  Conv,       \* conversation ids peers use
  Backlog,    \* acceptBacklog, the capacity of chAccepts
  OwnConn,    \* TRUE: Listen made the socket; FALSE: the caller of ServeConn owns it
  MaxSession  \* bound: sessions created

ASSUME BacklogAssumption == Backlog \in Nat \ {0}
ASSUME OwnConnAssumption == OwnConn \in BOOLEAN
ASSUME MaxSessionAssumption == MaxSession \in Nat

VARIABLES
  info,        \* info[s]: the remote and conv of session s
  sessions,    \* the map from addresses to sessions
  chAccepts,   \* the channel of sessions to accept
  accepted,    \* history: the sessions Accept has returned
  die,         \* the sessions whose die channel is closed
  unmapping,   \* those whose Close has yet to call closeSession
  given,       \* given[s]: the datagrams passed to s.rudpInput, by origin
  monitor,     \* the monitor goroutine: its place and local variables
  listenerDie, \* l.die is closed
  connClosed,  \* the socket is closed
  readError,   \* l.chSocketReadError is closed
  failed       \* the sessions whose chSocketReadError is closed

sessVars  == <<info, given>>
closeVars == <<die, unmapping>>
errVars   == <<readError, failed>>
vars == <<sessVars, sessions, chAccepts, accepted, closeVars, monitor, listenerDie,
          connClosed, errVars>>

None == 0
Sid == 1..Len(info)
Origin == [from : Remote, conv : Conv]
Places == {"read", "lookup", "input", "replace", "unmap", "create", "map", "offer",
           "notify", "exit"}

At(pc) == monitor.pc = pc
GoTo(pc) == monitor' = [monitor EXCEPT !.pc = pc]
Here == [from |-> monitor.from, conv |-> monitor.conv]  \* of the datagram in hand

Init ==
  /\ info = <<>> /\ given = <<>>
  /\ sessions = [r \in Remote |-> None]
  /\ chAccepts = <<>> /\ accepted = {}
  /\ die = {} /\ unmapping = {}
  /\ \E d \in Origin :
       monitor = [pc |-> "read", from |-> d.from, conv |-> d.conv, first |-> FALSE, s |-> None]
  /\ listenerDie = FALSE /\ connClosed = FALSE
  /\ readError = FALSE /\ failed = {}
-----------------------------------------------------------------------------
(* The monitor: ReadFrom and packetInput                                   *)

\* A datagram of any origin arrives; first says that its sn is 0.
Recv ==
  /\ At("read") /\ ~connClosed
  /\ Len(info) < MaxSession
  /\ \E d \in Origin, first \in BOOLEAN :
       monitor' = [pc |-> "lookup", from |-> d.from, conv |-> d.conv, first |-> first, s |-> None]
  /\ UNCHANGED <<sessVars, sessions, chAccepts, accepted, closeVars, listenerDie,
                 connClosed, errVars>>

\* Mutant of Lookup: the conversation id is not compared.
LookupAnyConv ==
  /\ At("lookup")
  /\ LET s == sessions[monitor.from]
     IN  monitor' = [monitor EXCEPT !.s = s, !.pc = IF s = None THEN "create" ELSE "input"]
  /\ UNCHANGED <<sessVars, sessions, chAccepts, accepted, closeVars, listenerDie,
                 connClosed, errVars>>

\* The session of the address is looked up under the read lock.  A datagram of
\* another conversation is dropped, unless it is the first of one.
Lookup ==
  /\ At("lookup")
  /\ LET s == sessions[monitor.from]
     IN  monitor' = [monitor EXCEPT !.s = s,
           !.pc = IF s = None THEN "create"
                  ELSE IF info[s].conv = monitor.conv THEN "input"
                  ELSE IF monitor.first THEN "replace" ELSE "read"]
  /\ UNCHANGED <<sessVars, sessions, chAccepts, accepted, closeVars, listenerDie,
                 connClosed, errVars>>

Input ==
  /\ At("input")
  /\ given' = [given EXCEPT ![monitor.s] = @ \cup {Here}]
  /\ GoTo("read")
  /\ UNCHANGED <<info, sessions, chAccepts, accepted, closeVars, listenerDie, connClosed,
                 errVars>>

\* s.Close() of the session to be replaced, up to its flush; if the application
\* closes it already, Close returns at once.
Replace ==
  /\ At("replace")
  /\ die' = die \cup {monitor.s}
  /\ GoTo(IF monitor.s \in die THEN "create" ELSE "unmap")
  /\ UNCHANGED <<sessVars, sessions, chAccepts, accepted, unmapping, listenerDie,
                 connClosed, errVars>>

\* closeSession, whoever calls it: the entry of the address goes, whichever
\* session it names.
Unmap(s) == sessions' = [sessions EXCEPT ![info[s].remote] = None]

ReplaceUnmap ==
  /\ At("unmap")
  /\ Unmap(monitor.s)
  /\ GoTo("create")
  /\ UNCHANGED <<sessVars, chAccepts, accepted, closeVars, listenerDie, connClosed, errVars>>

\* Mutant of Create: the limit of the backlog is off by one.
CreateOneMore ==
  /\ At("create")
  /\ \/ /\ Len(chAccepts) <= Backlog
        /\ info' = Append(info, [remote |-> monitor.from, conv |-> monitor.conv])
        /\ given' = Append(given, {Here})
        /\ monitor' = [monitor EXCEPT !.pc = "map", !.s = Len(info) + 1]
     \/ /\ Len(chAccepts) > Backlog
        /\ GoTo("read")
        /\ UNCHANGED sessVars
  /\ UNCHANGED <<sessions, chAccepts, accepted, closeVars, listenerDie, connClosed, errVars>>

\* While there is room in the backlog a session is made and given the datagram.
Create ==
  /\ At("create")
  /\ \/ /\ Len(chAccepts) < Backlog
        /\ info' = Append(info, [remote |-> monitor.from, conv |-> monitor.conv])
        /\ given' = Append(given, {Here})
        /\ monitor' = [monitor EXCEPT !.pc = "map", !.s = Len(info) + 1]
     \/ /\ Len(chAccepts) = Backlog
        /\ GoTo("read")
        /\ UNCHANGED sessVars
  /\ UNCHANGED <<sessions, chAccepts, accepted, closeVars, listenerDie, connClosed, errVars>>

\* Mutant of Map: the session is offered to Accept before it is in the map.
MapAfterOffer ==
  /\ \/ At("map") /\ chAccepts' = Append(chAccepts, monitor.s) /\ GoTo("late")
        /\ UNCHANGED sessions
     \/ /\ At("late") /\ UNCHANGED chAccepts /\ GoTo("read")
        /\ sessions' = [sessions EXCEPT ![monitor.from] = monitor.s]
  /\ UNCHANGED <<sessVars, accepted, closeVars, listenerDie, connClosed, errVars>>

\* It enters the map under the write lock,
Map ==
  /\ At("map")
  /\ sessions' = [sessions EXCEPT ![monitor.from] = monitor.s]
  /\ GoTo("offer")
  /\ UNCHANGED <<sessVars, chAccepts, accepted, closeVars, listenerDie, connClosed, errVars>>

\* and is sent to chAccepts, which blocks when there is no room.
Offer ==
  /\ At("offer") /\ Len(chAccepts) < Backlog
  /\ chAccepts' = Append(chAccepts, monitor.s)
  /\ GoTo("read")
  /\ UNCHANGED <<sessVars, sessions, accepted, closeVars, listenerDie, connClosed, errVars>>

\* ReadFrom fails, as it does on a closed socket, and notifyReadError closes
\* chSocketReadError,
ReadFails ==
  /\ At("read")
  /\ readError' = TRUE
  /\ GoTo("notify")
  /\ UNCHANGED <<sessVars, sessions, chAccepts, accepted, closeVars, listenerDie,
                 connClosed, failed>>

\* Mutant of NotifySessions: the monitor goes on reading after an error.
NotifyAndContinue ==
  /\ At("notify")
  /\ failed' = failed \cup {s \in Sid : \E r \in Remote : sessions[r] = s}
  /\ GoTo("read")
  /\ UNCHANGED <<sessVars, sessions, chAccepts, accepted, closeVars, listenerDie,
                 connClosed, readError>>

\* then passes the error to every session of the map under the read lock, and
\* the monitor returns.
NotifySessions ==
  /\ At("notify")
  /\ failed' = failed \cup {s \in Sid : \E r \in Remote : sessions[r] = s}
  /\ GoTo("exit")
  /\ UNCHANGED <<sessVars, sessions, chAccepts, accepted, closeVars, listenerDie,
                 connClosed, readError>>
-----------------------------------------------------------------------------
(* The application                                                         *)

\* AcceptRUDP, the case that takes a session; the others (timeout, read error,
\* die) may be chosen as well and change nothing.
Accept ==
  /\ chAccepts # <<>>
  /\ accepted' = accepted \cup {Head(chAccepts)}
  /\ chAccepts' = Tail(chAccepts)
  /\ UNCHANGED <<sessVars, sessions, closeVars, monitor, listenerDie, connClosed, errVars>>

\* Close of an accepted session: dieOnce and the last flush,
CloseDie(s) ==
  /\ s \in accepted \ die
  /\ die' = die \cup {s}
  /\ unmapping' = unmapping \cup {s}
  /\ UNCHANGED <<sessVars, sessions, chAccepts, accepted, monitor, listenerDie, connClosed,
                 errVars>>

\* then closeSession.
CloseUnmap(s) ==
  /\ s \in unmapping
  /\ unmapping' = unmapping \ {s}
  /\ Unmap(s)
  /\ UNCHANGED <<sessVars, chAccepts, accepted, die, monitor, listenerDie, connClosed, errVars>>

\* Listener.Close: dieOnce, and the socket if it is our own.
ListenerDie ==
  /\ ~listenerDie
  /\ listenerDie' = TRUE
  /\ UNCHANGED <<sessVars, sessions, chAccepts, accepted, closeVars, monitor, connClosed, errVars>>

\* Mutant of CloseConn: the ownership test is inverted.
CloseConnForeign ==
  /\ listenerDie /\ ~OwnConn /\ ~connClosed
  /\ connClosed' = TRUE
  /\ UNCHANGED <<sessVars, sessions, chAccepts, accepted, closeVars, monitor, listenerDie, errVars>>

CloseConn ==
  /\ listenerDie /\ OwnConn /\ ~connClosed
  /\ connClosed' = TRUE
  /\ UNCHANGED <<sessVars, sessions, chAccepts, accepted, closeVars, monitor, listenerDie, errVars>>
-----------------------------------------------------------------------------
\* The monitor while it has a datagram, or an error, in hand.
Handle ==
  Lookup \/ Input \/ Replace \/ ReplaceUnmap \/ Create \/ Map \/ Offer \/ NotifySessions

Next ==
  \/ Recv \/ ReadFails
  \/ Handle
  \/ Accept
  \/ \E s \in Sid : CloseDie(s) \/ CloseUnmap(s)
  \/ ListenerDie
  \/ CloseConn

\* A goroutine that can run does.  No peer has to send and nobody has to accept
\* or close; a read of a closed socket fails.
Fairness ==
  /\ WF_vars(Handle)
  /\ WF_vars(connClosed /\ ReadFails)
  /\ \A s \in 1..MaxSession : WF_vars(s \in Sid /\ CloseUnmap(s))
  /\ WF_vars(CloseConn)

Spec == Init /\ [][Next]_vars /\ Fairness
-----------------------------------------------------------------------------
(* Properties                                                              *)

\* The tables of the listener name existing sessions and addresses.
TypeOK ==
  /\ info \in Seq([remote : Remote, conv : Conv])
  /\ given \in [Sid -> SUBSET Origin]
  /\ sessions \in [Remote -> Sid \cup {None}]
  /\ chAccepts \in Seq(Sid) /\ accepted \subseteq Sid
  /\ die \subseteq Sid /\ unmapping \subseteq die /\ failed \subseteq Sid
  /\ monitor \in [pc : Places, from : Remote, conv : Conv, first : BOOLEAN,
                  s : Sid \cup {None}]
  /\ listenerDie \in BOOLEAN /\ connClosed \in BOOLEAN /\ readError \in BOOLEAN

\* packetInput looks at the length of chAccepts long before it sends: the send
\* finds room all the same, so a slow Accept never stops the one goroutine that
\* serves every session.
MonitorNeverBlocks == At("offer") => Len(chAccepts) < Backlog

\* A session whose Close has returned is not in the map, where it would swallow
\* every later datagram of its conversation.
ClosedIsUnmapped ==
  \A r \in Remote :
    sessions[r] \in die =>
      sessions[r] \in unmapping \/ (At("unmap") /\ monitor.s = sessions[r])

\* The state is typed, and Input is given datagrams of the session's own address
\* and conversation only, whatever replaces or closes sessions meanwhile.
OwnDatagrams ==
  /\ TypeOK
  /\ \A s \in Sid : given[s] = {[from |-> info[s].remote, conv |-> info[s].conv]}

\* When the monitor has stopped, every session it still has in its map was told
\* of the read error: none waits for datagrams nobody will deliver.
ErrorReachesMapped ==
  readError => At("notify") \/ \A r \in Remote : sessions[r] # None => sessions[r] \in failed

\* Closing a listener that owns its socket ends the monitor, whatever it is
\* doing, and so fails every session in the map.
CloseEndsMonitor == listenerDie /\ OwnConn ~> At("exit")

\* "closeSession tells the listener that a session was closed" and a new
\* conversation "replaces the existing connection": a session that was not closed
\* stays in the map, where the datagrams of its peer find it.
LiveSessionMapped ==
  \A s \in Sid \ die : sessions[info[s].remote] = s \/ (At("map") /\ monitor.s = s)
=============================================================================
