--------------------------- MODULE ListenerProofs ---------------------------
(***************************************************************************)
(* The safety properties of Listener, for every set of peers, every        *)
(* backlog and every number of sessions.                                   *)
(***************************************************************************)
EXTENDS Listener, TLAPS

\* The session the monitor works on, from Lookup or Create on.
InHand ==
  At("input") \/ At("replace") \/ At("unmap") \/ At("map") \/ At("offer")
    => /\ monitor.s \in Sid
       /\ info[monitor.s].remote = monitor.from
       /\ At("input") => info[monitor.s].conv = monitor.conv

\* A session not yet in the map is known to nobody but the monitor.
Fresh ==
  At("map") => /\ monitor.s \notin accepted \cup die
               /\ \A i \in 1..Len(chAccepts) : chAccepts[i] # monitor.s

\* The map has sessions under their own address only.
Keyed == \A r \in Remote : sessions[r] # None => info[sessions[r]].remote = r

\* From the check of packetInput to the send, only Accept touches chAccepts.
Room == Len(chAccepts) <= Backlog /\ (At("map") \/ At("offer") => Len(chAccepts) < Backlog)

\* After a read error the monitor does nothing but report it.
Stopped ==
  /\ readError => At("notify") \/ At("exit")
  /\ At("exit") => \A r \in Remote : sessions[r] # None => sessions[r] \in failed

Given == \A s \in Sid : given[s] = {[from |-> info[s].remote, conv |-> info[s].conv]}

LInv == TypeOK /\ InHand /\ Fresh /\ Keyed /\ Room /\ Stopped /\ Given /\ ClosedIsUnmapped

-----------------------------------------------------------------------------
\* An element of a sequence.
LEMMA SeqElement == ASSUME NEW R, NEW q \in Seq(R), NEW i \in 1..Len(q) PROVE q[i] \in R
OBVIOUS

\* A new listener knows nobody.
LEMMA LInit == Init => LInv
<1> SUFFICES ASSUME Init PROVE LInv
  OBVIOUS
<1>1. info = <<>> /\ given = <<>> /\ chAccepts = <<>> /\ Sid = {}
  BY DEF Init, Sid
<1>2. TypeOK
  <2>1. /\ info \in Seq([remote : Remote, conv : Conv]) /\ given \in [Sid -> SUBSET Origin]
        /\ chAccepts \in Seq(Sid)
    BY <1>1
  <2>2. monitor \in [pc : Places, from : Remote, conv : Conv, first : BOOLEAN,
                     s : Sid \cup {None}]
    BY DEF Init, Origin, Places
  <2>3. QED
    BY <1>1, <2>1, <2>2 DEF Init, TypeOK
<1>3. At("read") /\ Len(chAccepts) = 0
  BY <1>1 DEF Init, At
<1>4. QED
  BY <1>1, <1>2, <1>3, BacklogAssumption
     DEF Init, LInv, InHand, Fresh, Keyed, Room, Stopped, Given, ClosedIsUnmapped, At

\* The steps of the monitor that only choose its next place.
LEMMA PlaceStep ==
  ASSUME LInv, UNCHANGED <<sessVars, sessions, chAccepts, accepted, closeVars, errVars>>,
         listenerDie' \in BOOLEAN, connClosed' \in BOOLEAN,
         \/ monitor' = monitor
         \/ Recv
         \/ Lookup
  PROVE  LInv'
<1>1. /\ TypeOK /\ InHand /\ Fresh /\ Keyed /\ Room /\ Stopped /\ Given /\ ClosedIsUnmapped
      /\ UNCHANGED <<info, given, sessions, chAccepts, accepted, die, unmapping, readError, failed>>
      /\ Sid' = Sid
  BY DEF LInv, sessVars, closeVars, errVars, Sid
<1>2. CASE monitor' = monitor
  BY <1>1, <1>2 DEF LInv, TypeOK, InHand, Fresh, Keyed, Room, Stopped, Given,
                    ClosedIsUnmapped, At
<1>3. CASE Recv
  <2>1. PICK d \in Origin, first \in BOOLEAN :
          monitor' = [pc |-> "lookup", from |-> d.from, conv |-> d.conv, first |-> first, s |-> None]
    BY <1>3 DEF Recv
  <2>2. /\ monitor' \in [pc : Places, from : Remote, conv : Conv, first : BOOLEAN,
                         s : Sid \cup {None}]
        /\ monitor'.pc = "lookup" /\ At("read")
    BY <1>3, <2>1 DEF Recv, Origin, Places
  <2>3. TypeOK'
    BY <1>1, <2>2 DEF TypeOK
  <2>4. QED
    BY <1>1, <2>2, <2>3 DEF LInv, InHand, Fresh, Keyed, Room, Stopped, Given,
                            ClosedIsUnmapped, At
<1>4. CASE Lookup
  <2> DEFINE s == sessions[monitor.from]
  <2>1. /\ monitor \in [pc : Places, from : Remote, conv : Conv, first : BOOLEAN,
                        s : Sid \cup {None}]
        /\ s \in Sid \cup {None} /\ monitor.pc = "lookup"
        /\ None \notin Sid
    BY <1>1, <1>4 DEF TypeOK, Lookup, At, Sid, None
  <2>2. PICK pc \in {"create", "input", "replace", "read"} :
          /\ monitor' = [monitor EXCEPT !.s = s, !.pc = pc]
          /\ pc = "input" => s # None /\ info[s].conv = monitor.conv
          /\ pc = "replace" => s # None
    <3>1. monitor' = [monitor EXCEPT !.s = s,
           !.pc = IF s = None THEN "create"
                  ELSE IF info[s].conv = monitor.conv THEN "input"
                  ELSE IF monitor.first THEN "replace" ELSE "read"]
      BY <1>4 DEF Lookup
    <3>2. CASE s = None
      BY <3>1, <3>2
    <3>3. CASE s # None /\ info[s].conv = monitor.conv
      BY <3>1, <3>3
    <3>4. CASE s # None /\ info[s].conv # monitor.conv /\ monitor.first
      BY <3>1, <3>4
    <3>5. CASE s # None /\ info[s].conv # monitor.conv /\ ~monitor.first
      BY <3>1, <3>5
    <3>6. QED
      BY <3>2, <3>3, <3>4, <3>5
  <2> HIDE DEF s
  <2>3. /\ monitor'.pc = pc /\ monitor'.s = s /\ monitor'.from = monitor.from
        /\ monitor'.conv = monitor.conv
        /\ monitor' \in [pc : Places, from : Remote, conv : Conv, first : BOOLEAN,
                         s : Sid \cup {None}]
    BY <2>1, <2>2 DEF Places
  <2>4. TypeOK'
    BY <1>1, <2>3 DEF TypeOK
  <2>5. s # None => info[s].remote = monitor.from
    BY <1>1, <2>1 DEF Keyed, s
  <2>6. InHand'
    BY <1>1, <2>1, <2>2, <2>3, <2>5 DEF InHand, At
  <2>7. QED
    BY <1>1, <2>1, <2>2, <2>3, <2>4, <2>6 DEF LInv, Fresh, Keyed, Room, Stopped, Given,
                                       ClosedIsUnmapped, At
<1>5. QED
  BY <1>2, <1>3, <1>4

\* Input gives a session a datagram of its own.
LEMMA InputStep ==
  ASSUME LInv, Input
  PROVE  LInv'
<1>1. /\ TypeOK /\ InHand /\ Fresh /\ Keyed /\ Room /\ Stopped /\ Given /\ ClosedIsUnmapped
      /\ UNCHANGED <<info, sessions, chAccepts, accepted, die, unmapping, readError, failed,
                     listenerDie, connClosed>>
      /\ Sid' = Sid /\ At("input")
  BY DEF LInv, closeVars, errVars, Sid, Input
<1>2. /\ monitor \in [pc : Places, from : Remote, conv : Conv, first : BOOLEAN,
                      s : Sid \cup {None}]
      /\ given \in [Sid -> SUBSET Origin] /\ monitor.pc = "input"
  BY <1>1 DEF TypeOK, At
<1>3. /\ monitor.s \in Sid /\ Here \in Origin
      /\ Here = [from |-> info[monitor.s].remote, conv |-> info[monitor.s].conv]
  BY <1>1, <1>2 DEF InHand, Here, Origin
<1>4. given' = given
  <2>1. given' = [given EXCEPT ![monitor.s] = @ \cup {Here}]
    BY DEF Input
  <2>2. given[monitor.s] = {Here}
    BY <1>1, <1>3 DEF Given
  <2>3. QED
    BY <1>2, <1>3, <2>1, <2>2
<1>5. /\ monitor' = [monitor EXCEPT !.pc = "read"] /\ monitor'.pc = "read"
      /\ monitor' \in [pc : Places, from : Remote, conv : Conv, first : BOOLEAN,
                       s : Sid \cup {None}]
  BY <1>2 DEF Input, GoTo, Places
<1>6. TypeOK'
  BY <1>1, <1>4, <1>5 DEF TypeOK
<1>7. QED
  BY <1>1, <1>2, <1>4, <1>5, <1>6 DEF LInv, InHand, Fresh, Keyed, Room, Stopped, Given,
                              ClosedIsUnmapped, At

\* The monitor begins to close a session it replaces.
LEMMA ReplaceStep ==
  ASSUME LInv, Replace
  PROVE  LInv'
<1>1. /\ TypeOK /\ InHand /\ Fresh /\ Keyed /\ Room /\ Stopped /\ Given /\ ClosedIsUnmapped
      /\ UNCHANGED <<info, given, sessions, chAccepts, accepted, unmapping, readError, failed,
                     listenerDie, connClosed>>
      /\ Sid' = Sid /\ At("replace") /\ die' = die \cup {monitor.s}
  BY DEF LInv, sessVars, errVars, Sid, Replace
<1>2. /\ monitor \in [pc : Places, from : Remote, conv : Conv, first : BOOLEAN,
                      s : Sid \cup {None}]
      /\ monitor.pc = "replace" /\ monitor.s \in Sid
      /\ info[monitor.s].remote = monitor.from
  BY <1>1 DEF TypeOK, At, InHand
<1>3. PICK pc \in {"create", "unmap"} :
        /\ monitor' = [monitor EXCEPT !.pc = pc]
        /\ pc = "create" => monitor.s \in die
  <2>1. monitor' = [monitor EXCEPT !.pc = IF monitor.s \in die THEN "create" ELSE "unmap"]
    BY DEF Replace, GoTo
  <2>2. CASE monitor.s \in die
    BY <2>1, <2>2
  <2>3. CASE monitor.s \notin die
    BY <2>1, <2>3
  <2>4. QED
    BY <2>2, <2>3
<1>4. /\ monitor'.pc = pc /\ monitor'.s = monitor.s /\ monitor'.from = monitor.from
      /\ monitor' \in [pc : Places, from : Remote, conv : Conv, first : BOOLEAN,
                       s : Sid \cup {None}]
  BY <1>2, <1>3 DEF Places
<1>5. TypeOK'
  BY <1>1, <1>2, <1>4 DEF TypeOK
<1>6. InHand' /\ Fresh' /\ Keyed' /\ Room' /\ Stopped' /\ Given'
  BY <1>1, <1>2, <1>3, <1>4 DEF InHand, Fresh, Keyed, Room, Stopped, Given, At
<1>7. ClosedIsUnmapped'
  <2>1. ASSUME NEW r \in Remote, sessions[r] \in die, sessions[r] \notin unmapping PROVE FALSE
    BY <1>1, <1>2, <2>1 DEF ClosedIsUnmapped, At
  <2>2. ASSUME NEW r \in Remote, sessions[r] = monitor.s, monitor.s \notin die
        PROVE  monitor'.pc = "unmap"
    BY <1>3, <1>4, <2>2
  <2>3. QED
    BY <1>1, <1>4, <2>1, <2>2 DEF ClosedIsUnmapped, At
<1>8. QED
  BY <1>5, <1>6, <1>7 DEF LInv

\* closeSession, called for a session whose end is under way: what else the map
\* holds stays as it is.
LEMMA UnmapStep ==
  ASSUME LInv, NEW s \in Sid, Unmap(s),
         UNCHANGED <<sessVars, chAccepts, accepted, die, listenerDie, connClosed, errVars>>,
         unmapping' \in SUBSET unmapping, unmapping \ unmapping' \subseteq {s},
         \/ monitor' = monitor
         \/ At("unmap") /\ monitor.s = s /\ GoTo("create")
  PROVE  LInv'
<1>1. /\ TypeOK /\ InHand /\ Fresh /\ Keyed /\ Room /\ Stopped /\ Given /\ ClosedIsUnmapped
      /\ UNCHANGED <<info, given, chAccepts, accepted, die, readError, failed,
                     listenerDie, connClosed>>
      /\ Sid' = Sid
  BY DEF LInv, sessVars, errVars, Sid
<1>2. /\ sessions \in [Remote -> Sid \cup {None}] /\ info[s].remote \in Remote
      /\ monitor \in [pc : Places, from : Remote, conv : Conv, first : BOOLEAN,
                      s : Sid \cup {None}]
      /\ None \notin Sid /\ die \subseteq Sid
  <2>1. info \in Seq([remote : Remote, conv : Conv]) /\ s \in 1..Len(info)
    BY <1>1 DEF TypeOK, Sid
  <2>2. info[s] \in [remote : Remote, conv : Conv]
    BY <2>1, SeqElement, Zenon
  <2>3. info[s].remote \in Remote
    BY <2>2
  <2>4. None \notin Sid
    BY DEF Sid, None
  <2>5. QED
    BY <1>1, <2>3, <2>4 DEF TypeOK
<1>3. /\ sessions' \in [Remote -> Sid \cup {None}]
      /\ \A r \in Remote : sessions'[r] = IF r = info[s].remote THEN None ELSE sessions[r]
  BY <1>2 DEF Unmap
<1>4. ASSUME NEW r \in Remote, sessions'[r] # None
      PROVE  sessions'[r] = sessions[r] /\ sessions[r] # s
  <2>1. r # info[s].remote /\ sessions'[r] = sessions[r]
    BY <1>3, <1>4
  <2>2. info[sessions[r]].remote = r
    BY <1>1, <1>4, <2>1 DEF Keyed
  <2>3. QED
    BY <2>1, <2>2
<1>5. CASE monitor' = monitor
  <2>1. TypeOK'
    BY <1>1, <1>3, <1>5 DEF TypeOK
  <2>2. InHand' /\ Fresh' /\ Keyed' /\ Room' /\ Stopped' /\ Given'
    BY <1>1, <1>4, <1>5 DEF InHand, Fresh, Keyed, Room, Stopped, Given, At
  <2>3. ClosedIsUnmapped'
    BY <1>1, <1>2, <1>4, <1>5 DEF ClosedIsUnmapped, At
  <2>4. QED
    BY <2>1, <2>2, <2>3 DEF LInv
<1>6. CASE At("unmap") /\ monitor.s = s /\ GoTo("create")
  <2>1. /\ monitor'.pc = "create" /\ monitor'.s = s /\ monitor'.from = monitor.from
        /\ monitor' \in [pc : Places, from : Remote, conv : Conv, first : BOOLEAN,
                         s : Sid \cup {None}]
        /\ monitor.pc = "unmap"
    BY <1>2, <1>6 DEF GoTo, Places, At
  <2>2. TypeOK'
    BY <1>1, <1>3, <2>1 DEF TypeOK
  <2>3. InHand' /\ Fresh' /\ Keyed' /\ Room' /\ Stopped' /\ Given'
    BY <1>1, <1>4, <2>1 DEF InHand, Fresh, Keyed, Room, Stopped, Given, At
  <2>4. ClosedIsUnmapped'
    BY <1>1, <1>2, <1>4, <1>6, <2>1 DEF ClosedIsUnmapped, At
  <2>5. QED
    BY <2>2, <2>3, <2>4 DEF LInv
<1>7. QED
  BY <1>5, <1>6

\* packetInput makes a session, or drops the datagram.
LEMMA CreateStep ==
  ASSUME LInv, Create
  PROVE  LInv'
<1>1. /\ TypeOK /\ InHand /\ Fresh /\ Keyed /\ Room /\ Stopped /\ Given /\ ClosedIsUnmapped
      /\ UNCHANGED <<sessions, chAccepts, accepted, die, unmapping, readError, failed,
                     listenerDie, connClosed>>
      /\ At("create")
  BY DEF LInv, closeVars, errVars, Create
<1>2. /\ monitor \in [pc : Places, from : Remote, conv : Conv, first : BOOLEAN,
                      s : Sid \cup {None}]
      /\ monitor.pc = "create" /\ info \in Seq([remote : Remote, conv : Conv])
      /\ given \in [Sid -> SUBSET Origin] /\ Len(info) \in Nat /\ Sid = 1..Len(info)
  BY <1>1 DEF TypeOK, At, Sid
<1>3. CASE GoTo("read") /\ UNCHANGED sessVars
  <2>1. /\ info' = info /\ given' = given /\ Sid' = Sid
    BY <1>3 DEF sessVars, Sid
  <2>2. /\ monitor'.pc = "read"
        /\ monitor' \in [pc : Places, from : Remote, conv : Conv, first : BOOLEAN,
                         s : Sid \cup {None}]
    BY <1>2, <1>3 DEF GoTo, Places
  <2>3. TypeOK'
    BY <1>1, <2>1, <2>2 DEF TypeOK
  <2>4. QED
    BY <1>1, <1>2, <2>1, <2>2, <2>3 DEF LInv, InHand, Fresh, Keyed, Room, Stopped, Given,
                                  ClosedIsUnmapped, At
<1>4. CASE /\ Len(chAccepts) < Backlog
           /\ info' = Append(info, [remote |-> monitor.from, conv |-> monitor.conv])
           /\ given' = Append(given, {Here})
           /\ monitor' = [monitor EXCEPT !.pc = "map", !.s = Len(info) + 1]
  <2> DEFINE new == Len(info) + 1
             rec == [remote |-> monitor.from, conv |-> monitor.conv]
  <2>1. rec \in [remote : Remote, conv : Conv] /\ {Here} \in SUBSET Origin /\ new \in Nat
    BY <1>2 DEF Here, Origin
  <2>2. given \in Seq(SUBSET Origin) /\ Len(given) = Len(info)
    BY <1>2
  <2>3. /\ info' \in Seq([remote : Remote, conv : Conv]) /\ Len(info') = new
        /\ info'[new] = rec /\ \A s \in Sid : info'[s] = info[s]
    BY <1>2, <1>4, <2>1
  <2>4. /\ given' \in Seq(SUBSET Origin) /\ Len(given') = new
        /\ given'[new] = {Here} /\ \A s \in Sid : given'[s] = given[s]
    BY <1>2, <1>4, <2>1, <2>2
  <2>5. Sid' = Sid \cup {new} /\ new \notin Sid
    BY <1>2, <2>1, <2>3 DEF Sid
  <2> HIDE DEF new, rec
  <2>6. /\ monitor'.pc = "map" /\ monitor'.s = new /\ monitor'.from = monitor.from
        /\ monitor' \in [pc : Places, from : Remote, conv : Conv, first : BOOLEAN,
                         s : Sid' \cup {None}]
    BY <1>2, <1>4, <2>5 DEF Places, new
  <2>7. given' \in [Sid' -> SUBSET Origin]
    BY <2>3, <2>4 DEF Sid
  <2>8. /\ sessions \in [Remote -> Sid \cup {None}] /\ chAccepts \in Seq(Sid)
        /\ accepted \subseteq Sid /\ die \subseteq Sid /\ None \notin Sid
    BY <1>1 DEF TypeOK, Sid, None
  <2>9. chAccepts \in Seq(Sid')
    BY <2>5, <2>8
  <2>10. TypeOK'
    BY <1>1, <2>3, <2>5, <2>6, <2>7, <2>8, <2>9 DEF TypeOK
  <2>11. InHand'
    BY <2>3, <2>5, <2>6 DEF InHand, At, rec
  <2>12. Fresh'
    <3>1. \A i \in 1..Len(chAccepts) : chAccepts[i] \in Sid
      BY <2>8
    <3>2. QED
      BY <1>1, <2>5, <2>6, <2>8, <3>1 DEF Fresh
  <2>13. Keyed'
    BY <1>1, <2>3, <2>8 DEF Keyed
  <2>14. Room' /\ Stopped'
    BY <1>1, <1>2, <1>4, <2>6 DEF Room, Stopped, At
  <2>15. Given'
    BY <1>1, <2>3, <2>4, <2>5 DEF Given, Here, rec
  <2>16. ClosedIsUnmapped'
    BY <1>1, <1>2, <2>6 DEF ClosedIsUnmapped, At
  <2>17. QED
    BY <2>10, <2>11, <2>12, <2>13, <2>14, <2>15, <2>16 DEF LInv
<1>5. QED
  BY <1>3, <1>4 DEF Create

\* The new session enters the map.
LEMMA MapStep ==
  ASSUME LInv, Map
  PROVE  LInv'
<1>1. /\ TypeOK /\ InHand /\ Fresh /\ Keyed /\ Room /\ Stopped /\ Given /\ ClosedIsUnmapped
      /\ UNCHANGED <<info, given, chAccepts, accepted, die, unmapping, readError, failed,
                     listenerDie, connClosed>>
      /\ At("map") /\ Sid' = Sid
  BY DEF LInv, sessVars, closeVars, errVars, Map, Sid
<1>2. /\ monitor \in [pc : Places, from : Remote, conv : Conv, first : BOOLEAN,
                      s : Sid \cup {None}]
      /\ monitor.pc = "map" /\ sessions \in [Remote -> Sid \cup {None}]
      /\ monitor.s \in Sid /\ info[monitor.s].remote = monitor.from /\ monitor.s \notin die
  BY <1>1 DEF TypeOK, At, InHand, Fresh
<1>3. /\ monitor'.pc = "offer" /\ monitor'.s = monitor.s /\ monitor'.from = monitor.from
      /\ monitor' \in [pc : Places, from : Remote, conv : Conv, first : BOOLEAN,
                       s : Sid \cup {None}]
  BY <1>2 DEF Map, GoTo, Places
<1>4. /\ sessions' \in [Remote -> Sid \cup {None}]
      /\ \A r \in Remote : sessions'[r] = IF r = monitor.from THEN monitor.s ELSE sessions[r]
  BY <1>2 DEF Map
<1>5. TypeOK'
  BY <1>1, <1>3, <1>4 DEF TypeOK
<1>6. InHand' /\ Fresh' /\ Keyed' /\ Room' /\ Stopped' /\ Given'
  BY <1>1, <1>2, <1>3, <1>4 DEF InHand, Fresh, Keyed, Room, Stopped, Given, At
<1>7. ClosedIsUnmapped'
  BY <1>1, <1>2, <1>3, <1>4 DEF ClosedIsUnmapped, At
<1>8. QED
  BY <1>5, <1>6, <1>7 DEF LInv

\* It is queued for Accept.
LEMMA OfferStep ==
  ASSUME LInv, Offer
  PROVE  LInv'
<1>1. /\ TypeOK /\ InHand /\ Fresh /\ Keyed /\ Room /\ Stopped /\ Given /\ ClosedIsUnmapped
      /\ UNCHANGED <<info, given, sessions, accepted, die, unmapping, readError, failed,
                     listenerDie, connClosed>>
      /\ At("offer") /\ Sid' = Sid /\ Len(chAccepts) < Backlog
      /\ chAccepts' = Append(chAccepts, monitor.s)
  BY DEF LInv, sessVars, closeVars, errVars, Offer, Sid
<1>2. /\ monitor \in [pc : Places, from : Remote, conv : Conv, first : BOOLEAN,
                      s : Sid \cup {None}]
      /\ monitor.pc = "offer" /\ chAccepts \in Seq(Sid) /\ monitor.s \in Sid
  BY <1>1 DEF TypeOK, At, InHand
<1>3. /\ monitor'.pc = "read"
      /\ monitor' \in [pc : Places, from : Remote, conv : Conv, first : BOOLEAN,
                       s : Sid \cup {None}]
  BY <1>2 DEF Offer, GoTo, Places
<1>4. chAccepts' \in Seq(Sid) /\ Len(chAccepts') = Len(chAccepts) + 1 /\ Len(chAccepts) \in Nat
  BY <1>1, <1>2
<1>5. Room'
  BY <1>1, <1>3, <1>4, BacklogAssumption DEF Room, At
<1>6. TypeOK'
  BY <1>1, <1>3, <1>4 DEF TypeOK
<1>7. QED
  BY <1>1, <1>2, <1>3, <1>5, <1>6 DEF LInv, InHand, Fresh, Keyed, Stopped, Given,
                                  ClosedIsUnmapped, At

\* A read error, and what the monitor does of it before it returns.
LEMMA ErrorStep ==
  ASSUME LInv, ReadFails \/ NotifySessions
  PROVE  LInv'
<1>1. /\ TypeOK /\ InHand /\ Fresh /\ Keyed /\ Room /\ Stopped /\ Given /\ ClosedIsUnmapped
      /\ UNCHANGED <<info, given, sessions, chAccepts, accepted, die, unmapping,
                     listenerDie, connClosed>>
      /\ Sid' = Sid /\ (At("read") \/ At("notify"))
  BY DEF LInv, sessVars, closeVars, Sid, ReadFails, NotifySessions
<1>2. /\ monitor \in [pc : Places, from : Remote, conv : Conv, first : BOOLEAN,
                      s : Sid \cup {None}]
      /\ monitor.pc \in {"read", "notify"} /\ sessions \in [Remote -> Sid \cup {None}]
      /\ failed \subseteq Sid
  BY <1>1 DEF TypeOK, At
<1>3. PICK pc \in {"notify", "exit"} :
        /\ monitor' = [monitor EXCEPT !.pc = pc]
        /\ readError' = TRUE \/ readError' = readError
        /\ failed \subseteq failed' /\ failed' \subseteq Sid
        /\ pc = "exit" => \A r \in Remote : sessions[r] \in Sid => sessions[r] \in failed'
  BY <1>2 DEF ReadFails, NotifySessions, GoTo
<1>4. /\ monitor'.pc = pc
      /\ monitor' \in [pc : Places, from : Remote, conv : Conv, first : BOOLEAN,
                       s : Sid \cup {None}]
  BY <1>2, <1>3 DEF Places
<1>5. TypeOK'
  BY <1>1, <1>3, <1>4 DEF TypeOK
<1>6. Stopped'
  BY <1>1, <1>2, <1>3, <1>4 DEF Stopped, At
<1>7. QED
  BY <1>1, <1>2, <1>4, <1>5, <1>6 DEF LInv, InHand, Fresh, Keyed, Room, Given,
                                  ClosedIsUnmapped, At

\* The application accepts a session.
LEMMA AcceptStep ==
  ASSUME LInv, Accept
  PROVE  LInv'
<1>1. /\ TypeOK /\ InHand /\ Fresh /\ Keyed /\ Room /\ Stopped /\ Given /\ ClosedIsUnmapped
      /\ UNCHANGED <<info, given, sessions, die, unmapping, monitor, readError, failed,
                     listenerDie, connClosed>>
      /\ Sid' = Sid /\ chAccepts # <<>> /\ At("map")' = At("map") /\ At("offer")' = At("offer")
      /\ accepted' = accepted \cup {Head(chAccepts)} /\ chAccepts' = Tail(chAccepts)
  BY DEF LInv, sessVars, closeVars, errVars, Sid, Accept, At
<1>2. chAccepts \in Seq(Sid)
  BY <1>1 DEF TypeOK
<1>3. /\ Head(chAccepts) = chAccepts[1] /\ 1 \in 1..Len(chAccepts) /\ chAccepts[1] \in Sid
      /\ chAccepts' \in Seq(Sid) /\ Len(chAccepts') = Len(chAccepts) - 1 /\ Len(chAccepts) \in Nat
      /\ \A i \in 1..Len(chAccepts') : chAccepts'[i] = chAccepts[i + 1]
  BY <1>1, <1>2
<1>4. TypeOK'
  BY <1>1, <1>3 DEF TypeOK
<1>5. Fresh'
  <2>1. ASSUME At("map")
        PROVE  /\ monitor.s \notin accepted' \cup die
               /\ \A i \in 1..Len(chAccepts') : chAccepts'[i] # monitor.s
    <3>1. /\ monitor.s \notin accepted \cup die
          /\ \A i \in 1..Len(chAccepts) : chAccepts[i] # monitor.s
      BY <1>1, <2>1 DEF Fresh
    <3>2. \A i \in 1..Len(chAccepts') : i + 1 \in 1..Len(chAccepts)
      BY <1>3
    <3>3. QED
      BY <1>1, <1>3, <3>1, <3>2
  <2>2. QED
    BY <1>1, <2>1 DEF Fresh
<1>6. Room'
  BY <1>1, <1>3, BacklogAssumption DEF Room
<1>7. QED
  BY <1>1, <1>4, <1>5, <1>6 DEF LInv, InHand, Keyed, Stopped, Given, ClosedIsUnmapped, At

\* The application begins to close a session.
LEMMA CloseDieStep ==
  ASSUME LInv, NEW s \in Sid, CloseDie(s)
  PROVE  LInv'
<1>1. /\ TypeOK /\ InHand /\ Fresh /\ Keyed /\ Room /\ Stopped /\ Given /\ ClosedIsUnmapped
      /\ UNCHANGED <<info, given, sessions, chAccepts, accepted, monitor, readError, failed,
                     listenerDie, connClosed>>
      /\ Sid' = Sid /\ s \in accepted
      /\ die' = die \cup {s} /\ unmapping' = unmapping \cup {s}
  BY DEF LInv, sessVars, errVars, Sid, CloseDie
<1>2. TypeOK'
  BY <1>1 DEF TypeOK
<1>3. QED
  BY <1>1, <1>2 DEF LInv, InHand, Fresh, Keyed, Room, Stopped, Given, ClosedIsUnmapped, At
-----------------------------------------------------------------------------
(* The theorems                                                            *)

\* Every step keeps the invariant.
LEMMA LNext == LInv /\ [Next]_vars => LInv'
<1> SUFFICES ASSUME LInv, [Next]_vars PROVE LInv'
  OBVIOUS
<1>1. TypeOK /\ listenerDie \in BOOLEAN /\ connClosed \in BOOLEAN /\ unmapping \subseteq unmapping
  BY DEF LInv, TypeOK
<1>2. ASSUME Recv \/ Lookup PROVE LInv'
  <2>1. UNCHANGED <<sessVars, sessions, chAccepts, accepted, closeVars, errVars>>
        /\ UNCHANGED <<listenerDie, connClosed>>
    BY <1>2 DEF Recv, Lookup
  <2>2. QED
    BY <1>1, <1>2, <2>1, PlaceStep
<1>3. ASSUME ListenerDie \/ CloseConn PROVE LInv'
  <2>1. /\ UNCHANGED <<sessVars, sessions, chAccepts, accepted, closeVars, errVars>>
        /\ monitor' = monitor /\ listenerDie' \in BOOLEAN /\ connClosed' \in BOOLEAN
    BY <1>1, <1>3 DEF ListenerDie, CloseConn
  <2>2. QED
    BY <2>1, PlaceStep
<1>4. CASE UNCHANGED vars
  <2>1. /\ UNCHANGED <<sessVars, sessions, chAccepts, accepted, closeVars, errVars>>
        /\ monitor' = monitor /\ listenerDie' \in BOOLEAN /\ connClosed' \in BOOLEAN
    BY <1>1, <1>4 DEF vars
  <2>2. QED
    BY <2>1, PlaceStep
<1>5. ASSUME ReplaceUnmap PROVE LInv'
  <2>1. monitor.s \in Sid
    BY <1>5 DEF LInv, InHand, ReplaceUnmap
  <2>2. /\ Unmap(monitor.s) /\ At("unmap") /\ GoTo("create") /\ unmapping' = unmapping
        /\ UNCHANGED <<sessVars, chAccepts, accepted, die, listenerDie, connClosed, errVars>>
    BY <1>5 DEF ReplaceUnmap, closeVars
  <2>3. unmapping' \in SUBSET unmapping /\ unmapping \ unmapping' \subseteq {monitor.s}
    BY <2>2
  <2>4. QED
    BY <2>1, <2>2, <2>3, UnmapStep
<1>6. ASSUME NEW s \in Sid, CloseUnmap(s) PROVE LInv'
  <2>1. /\ Unmap(s) /\ unmapping' = unmapping \ {s} /\ monitor' = monitor
        /\ UNCHANGED <<sessVars, chAccepts, accepted, die, listenerDie, connClosed, errVars>>
    BY <1>6 DEF CloseUnmap
  <2>2. unmapping' \in SUBSET unmapping /\ unmapping \ unmapping' \subseteq {s}
    BY <2>1
  <2>3. QED
    BY <2>1, <2>2, UnmapStep
<1>7. QED
  BY <1>2, <1>3, <1>4, <1>5, <1>6, InputStep, ReplaceStep, CreateStep, MapStep, OfferStep,
     ErrorStep, AcceptStep, CloseDieStep DEF Next, Handle

\* The invariant of the demultiplexer: map, backlog and monitor of listener.go.
THEOREM ListenerInvariance == Spec => []LInv
<1>1. QED
  BY LInit, LNext, PTL DEF Spec

\* The send of packetInput to chAccepts always finds room.
THEOREM NeverBlocks == Spec => []MonitorNeverBlocks
<1>1. LInv => MonitorNeverBlocks
  BY DEF LInv, Room, MonitorNeverBlocks
<1>2. QED
  BY <1>1, ListenerInvariance, PTL

\* No closed session stays in the map once its Close has returned.
THEOREM ClosedGone == Spec => []ClosedIsUnmapped
<1>1. LInv => ClosedIsUnmapped
  BY DEF LInv
<1>2. QED
  BY <1>1, ListenerInvariance, PTL

\* packetInput gives a session datagrams of its own peer and conversation only.
THEOREM OwnOnly == Spec => []OwnDatagrams
<1>1. LInv => OwnDatagrams
  BY DEF LInv, Given, OwnDatagrams
<1>2. QED
  BY <1>1, ListenerInvariance, PTL

\* When the monitor has returned every session in the map knows the read error.
THEOREM ErrorReaches == Spec => []ErrorReachesMapped
<1>1. LInv => ErrorReachesMapped
  BY DEF LInv, Stopped, ErrorReachesMapped
<1>2. QED
  BY <1>1, ListenerInvariance, PTL
=============================================================================
