------------------------- MODULE StreamStoreProofs -------------------------
(***************************************************************************)
(* Theorems about StreamStore for any clients and bounds: nothing follows   *)
(* the end marker, a subscription meets no gap, and every client receives   *)
(* the events in order, each once, however often it resumes.                *)
(***************************************************************************)
EXTENDS StreamStore, TLAPS

-----------------------------------------------------------------------------
(* The inductive invariant.  The three properties are not inductive: what   *)
(* carries them is that the entries are exactly the ids up to the counter,  *)
(* and that what is on the wire is what lies between a client's cursor and   *)
(* its subscription's last read.                                            *)

\* The entries: one event per id up to the counter, then the end marker.
Entries == \A r \in Row :
    r \in rows <=> IF r.end THEN status \in Final /\ r.id = counter + 1
                   ELSE r.id <= counter

\* A missing stream has no counter.
NoCounter == status = "missing" => counter = 0

Received(c) ==
    /\ Len(got[c]) = cursor[c]
    /\ \A i \in 1..Len(got[c]) : got[c][i] = i

OnWire(c) ==
    /\ step[c] = "off" => wire[c] = <<>>
    /\ step[c] # "off" => cursor[c] + Len(wire[c]) = lastRead[c]
    /\ \A i \in 1..Len(wire[c]) : wire[c][i] = cursor[c] + i

Delivery == \A c \in Client : Received(c) /\ OnWire(c)

IInv == TypeOK /\ Entries /\ NoCounter /\ NoGap /\ Delivery

LEMMA IInit == Init => IInv
  BY StreamAssumption DEF Init, IInv, TypeOK, Entries, NoCounter, NoGap, Delivery,
     Received, OnWire, Row, Step, Final

-----------------------------------------------------------------------------
(* Each step preserves it.                                                  *)

LEMMA ScriptStep ==
  ASSUME IInv, Open \/ AppendEvent \/ Close \/ Expire
  PROVE  IInv'
<1> USE StreamAssumption DEF IInv, NoGap, Delivery, Received, OnWire
<1>1. CASE Open
  BY <1>1 DEF Open, TypeOK, Entries, NoCounter, Row, Final, subVars, netVars
<1>2. CASE AppendEvent
  <2>1. TypeOK'
    <3>1. [id |-> counter + 1, end |-> FALSE] \in Row /\ counter + 1 \in Nat
      BY DEF TypeOK, Row
    <3> QED
      BY <1>2, <3>1 DEF AppendEvent, TypeOK, subVars, netVars
  <2>2. Entries'
    BY <1>2 DEF AppendEvent, TypeOK, Entries, Row, Final
  <2> QED
    BY <1>2, <2>1, <2>2 DEF AppendEvent, NoCounter, subVars, netVars
<1>3. CASE Close
  <2>1. TypeOK'
    <3>1. [id |-> counter + 1, end |-> TRUE] \in Row
      BY DEF TypeOK, Row
    <3> QED
      BY <1>3, <3>1 DEF Close, TypeOK, subVars, netVars
  <2>2. Entries'
    BY <1>3 DEF Close, TypeOK, Entries, Row, Final
  <2> QED
    BY <1>3, <2>1, <2>2 DEF Close, NoCounter, Final, subVars, netVars
<1>4. CASE Expire
  BY <1>4 DEF Expire, TypeOK, Entries, NoCounter, Row, Final, subVars, netVars
<1> QED
  BY <1>1, <1>2, <1>3, <1>4

\* An event that a subscription reads next is the one after its last.
LEMMA NextFollows ==
  ASSUME TypeOK, Entries, NEW c \in Client, NEW r \in rows,
         IsNext(r, lastRead[c]), ~r.end
  PROVE  r.id = lastRead[c] + 1
<1> DEFINE q == [id |-> lastRead[c] + 1, end |-> FALSE]
<1>1. r \in Row /\ r.id <= counter /\ r.id > lastRead[c]
  BY DEF TypeOK, Entries, IsNext
<1>2. q \in Row /\ lastRead[c] \in Nat
  BY DEF TypeOK, Row
<1>3. q.id <= counter
  BY <1>1, <1>2 DEF TypeOK, Row
<1>4. q \in rows
  BY <1>2, <1>3 DEF Entries
<1>5. r.id <= q.id
  BY <1>2, <1>4 DEF IsNext
<1> QED
  BY <1>1, <1>2, <1>5 DEF Row

\* The rest of a run of successive ids is one too.
LEMMA TailShifts ==
  ASSUME NEW n \in Nat, NEW s \in Seq(Nat), s # <<>>,
         \A i \in 1..Len(s) : s[i] = n + i
  PROVE  /\ Len(Tail(s)) = Len(s) - 1
         /\ \A i \in 1..Len(Tail(s)) : Tail(s)[i] = (n + 1) + i
<1>1. Len(s) \in Nat \ {0} /\ Len(Tail(s)) = Len(s) - 1
  OBVIOUS
<1>2. ASSUME NEW i \in 1..(Len(s) - 1) PROVE Tail(s)[i] = (n + 1) + i
  <2>1. Tail(s)[i] = s[i + 1]
    BY <1>1
  <2>2. i \in Nat /\ i + 1 \in 1..Len(s)
    BY <1>1
  <2>3. s[i + 1] = n + (i + 1)
    BY <2>2
  <2> QED
    BY <2>1, <2>2, <2>3
<1> QED
  BY <1>1, <1>2

LEMMA ClientStep ==
  ASSUME IInv, NEW c \in Client, Follow(c)
  PROVE  IInv'
<1> USE DEF IInv
<1>1. CASE Connect(c)
  BY <1>1 DEF Connect, SubGoto, TypeOK, Step, Entries, NoCounter, NoGap, Delivery,
     Received, OnWire, storeVars, netVars
<1>2. CASE RangeEvent(c)
  <2>1. PICK r \in rows :
          /\ IsNext(r, lastRead[c]) /\ ~r.end
          /\ IF r.id = lastRead[c] + 1
             THEN /\ lastRead' = [lastRead EXCEPT ![c] = r.id]
                  /\ wire' = [wire EXCEPT ![c] = Append(@, r.id)]
                  /\ UNCHANGED step
             ELSE SubGoto(c, "gap") /\ UNCHANGED <<lastRead, wire>>
    BY <1>2 DEF RangeEvent
  <2>2. r.id = lastRead[c] + 1
    BY <2>1, NextFollows
  <2>3. /\ lastRead' = [lastRead EXCEPT ![c] = r.id]
        /\ wire' = [wire EXCEPT ![c] = Append(@, r.id)]
        /\ step[c] = "range"
        /\ UNCHANGED <<step, storeVars, cursor, got, drops, expiries>>
    BY <1>2, <2>1, <2>2 DEF RangeEvent
  <2>4. TypeOK'
    BY <2>2, <2>3 DEF TypeOK, storeVars
  <2>5. OnWire(c)'
    <3> DEFINE w == wire[c]
    <3>1. w \in Seq(Nat) /\ cursor[c] \in Nat /\ r.id \in Nat /\ cursor'[c] = cursor[c]
      BY <2>2, <2>3 DEF TypeOK
    <3>2. wire'[c] = Append(w, r.id) /\ lastRead'[c] = r.id /\ step'[c] = "range"
      BY <2>3 DEF TypeOK
    <3>3. cursor[c] + Len(w) = lastRead[c] /\ \A i \in 1..Len(w) : w[i] = cursor[c] + i
      BY <2>3 DEF Delivery, OnWire
    <3> HIDE DEF w
    <3> QED
      BY <2>2, <3>1, <3>2, <3>3 DEF OnWire
  <2> QED
    BY <2>3, <2>4, <2>5, SMTT(30) DEF TypeOK, Entries, NoCounter, NoGap, Delivery, Received,
       OnWire, storeVars
<1>3. CASE RangeEnd(c)
  BY <1>3 DEF RangeEnd, SubGoto, TypeOK, Step, Entries, NoCounter, NoGap, Delivery,
     Received, OnWire, storeVars, netVars
<1>4. CASE RangeEmpty(c)
  BY <1>4 DEF RangeEmpty, SubGoto, TypeOK, Step, Entries, NoCounter, NoGap, Delivery,
     Received, OnWire, storeVars, netVars
<1>5. CASE ReadStatus(c)
  BY <1>5 DEF ReadStatus, SubGoto, TypeOK, Step, Entries, NoCounter, NoGap, Delivery,
     Received, OnWire, storeVars, netVars
<1>6. CASE Wake(c)
  BY <1>6 DEF Wake, SubGoto, TypeOK, Step, Entries, NoCounter, NoGap, Delivery,
     Received, OnWire, storeVars, netVars
<1>7. CASE Receive(c)
  <2>1. Head(wire[c]) = cursor[c] + 1 /\ Len(wire[c]) \in Nat \ {0}
    BY <1>7 DEF Receive, TypeOK, Delivery, OnWire
  <2>2. TypeOK'
    BY <1>7, <2>1 DEF Receive, TypeOK, subVars, storeVars
  <2>3. Received(c)'
    BY <1>7, <2>1 DEF Receive, TypeOK, Delivery, Received
  <2>4. OnWire(c)'
    <3> DEFINE w == wire[c]
    <3>1. w \in Seq(Nat) /\ w # <<>> /\ cursor[c] \in Nat /\ lastRead[c] \in Nat
      BY <1>7 DEF Receive, TypeOK
    <3>2. /\ wire'[c] = Tail(w) /\ cursor'[c] = cursor[c] + 1
          /\ lastRead'[c] = lastRead[c] /\ step'[c] = step[c]
      BY <1>7, <2>1 DEF Receive, TypeOK, subVars
    <3>3. /\ step[c] # "off" /\ cursor[c] + Len(w) = lastRead[c]
          /\ \A i \in 1..Len(w) : w[i] = cursor[c] + i
      BY <3>1 DEF Delivery, OnWire
    <3> HIDE DEF w
    <3>4. /\ Len(Tail(w)) = Len(w) - 1
          /\ \A i \in 1..Len(Tail(w)) : Tail(w)[i] = (cursor[c] + 1) + i
      BY <3>1, <3>3, TailShifts
    <3>5. \A i \in 1..Len(Tail(w)) : Tail(w)[i] = cursor'[c] + i
      BY <3>2, <3>4
    <3>6. cursor'[c] + Len(Tail(w)) = lastRead'[c] /\ step'[c] # "off"
      BY <3>1, <3>2, <3>3, <3>4
    <3> QED
      BY <3>2, <3>5, <3>6 DEF OnWire
  <2> QED
    BY <1>7, <2>2, <2>3, <2>4, SMTT(30) DEF Receive, TypeOK, Entries, NoCounter, NoGap,
       Delivery, Received, OnWire, subVars, storeVars
<1>8. CASE ReceiveEnd(c)
  BY <1>8 DEF ReceiveEnd, SubGoto, TypeOK, Step, Entries, NoCounter, NoGap, Delivery,
     Received, OnWire, storeVars, netVars
<1>9. CASE Disconnect(c)
  BY <1>9 DEF Disconnect, SubGoto, TypeOK, Step, Entries, NoCounter, NoGap, Delivery,
     Received, OnWire, storeVars
<1> QED
  BY <1>1, <1>2, <1>3, <1>4, <1>5, <1>6, <1>7, <1>8, <1>9 DEF Follow, Respond

LEMMA INext == IInv /\ [Next]_vars => IInv'
<1> SUFFICES ASSUME IInv, [Next]_vars PROVE IInv'
  OBVIOUS
<1>1. CASE UNCHANGED vars
  BY <1>1 DEF IInv, TypeOK, Entries, NoCounter, NoGap, Delivery, Received, OnWire,
     vars
<1> QED
  BY <1>1, ScriptStep, ClientStep DEF Next

\* The stream, the wires and what the clients hold agree, in every state.
THEOREM Invariant == Spec => []IInv
  BY IInit, INext, PTL DEF Spec

-----------------------------------------------------------------------------
(* What follows from it.                                                    *)

\* The stream's keys, the subscriptions and the clients keep their types.
THEOREM TypeCorrect == Spec => []TypeOK
<1>1. IInv => TypeOK
  BY DEF IInv
<1> QED
  BY <1>1, Invariant, PTL

\* No append follows the close: the end marker has the largest id.
THEOREM MarkerIsLast == Spec => []MarkerLast
<1>1. IInv => MarkerLast
  <2> SUFFICES ASSUME IInv, NEW r \in rows, NEW q \in rows, r.end PROVE q.id <= r.id
    BY DEF MarkerLast
  <2>1. r \in Row /\ q \in Row /\ counter \in Nat
    BY DEF IInv, TypeOK
  <2>2. r.id = counter + 1
    BY <2>1 DEF IInv, Entries
  <2>3. q.id <= counter \/ q.id = counter + 1
    BY <2>1 DEF IInv, Entries
  <2> QED
    BY <2>1, <2>2, <2>3 DEF Row
<1> QED
  BY <1>1, Invariant, PTL

\* The error a subscription throws for a missing id is unreachable.
THEOREM NoGapMet == Spec => []NoGap
<1>1. IInv => NoGap
  BY DEF IInv
<1> QED
  BY <1>1, Invariant, PTL

\* What a client has received is 1, 2, 3, ..., across all its connections.
THEOREM Delivered == Spec => []InOrder
<1>1. IInv => InOrder
  BY DEF IInv, Delivery, Received, InOrder
<1> QED
  BY <1>1, Invariant, PTL
=============================================================================
