-------------------- MODULE DistributedSimulator_proofs ----------------------
(***************************************************************************)
(* Theorems about DistributedSimulator: for every number of ranks, every   *)
(* topology with positive delays and whatever the events do.               *)
(*                                                                         *)
(* The argument: there is a base, the smallest next event time of the last *)
(* exchange at which nothing was in flight, such that every event of a     *)
(* rank that is not stopped, every packet in flight and every event being  *)
(* executed is due at the base or later, while a rank with a link has been *)
(* granted the base plus its look-ahead, which no link to it is shorter    *)
(* than.  What is sent from the base on thus arrives outside the window.   *)
(***************************************************************************)
EXTENDS DistributedSimulator, FiniteSetTheorems, TLAPS

TypeInv == TypeOK /\ IsFiniteSet(sent)

\* Nothing happens before all ranks have entered Run.
Starting(p) == phase[p] \in {"script", "reduce"}
StartInv ==
  \A p \in Rank : Starting(p) =>
    /\ sent = {}
    /\ \A q \in Rank : Starting(q) /\ currentTs[q] = 0 /\ ~stop[q]

\* The look-ahead of a rank is positive and no longer than any of its links.
LookAheadInv ==
  \A p \in Rank :
    /\ lookAhead[p] = Unset \/ lookAhead[p] > 0
    /\ phase[p] # "script" =>
         /\ lookAhead[p] > 0
         /\ \A q \in Rank : Linked(q, p) => lookAhead[p] <= delay[<<q, p>>]

IsBase(base) ==
  /\ base \in Nat /\ base <= Forever
  /\ \A p \in Rank : Starting(p) => base = 0
  /\ \A p \in Rank : ~stop[p] => \A e \in events[p] : base <= e.ts
  /\ \A p \in Rank : phase[p] = "event" => base <= currentTs[p]
  /\ \A m \in InFlight : base <= m.rx
  /\ \A p, q \in Rank :
       Linked(q, p) /\ phase[p] # "script" => granted[p] = base + lookAhead[p]

\* Packets follow links, no event of a rank is in its past, and no rank with a
\* link is past what it was granted.
TimeInv ==
  /\ \A m \in sent : Linked(m.from, m.to)
  /\ \A p \in Rank : \A e \in events[p] : currentTs[p] <= e.ts
  /\ \A p, q \in Rank :
       Linked(q, p) /\ phase[p] # "script" => currentTs[p] <= granted[p]

WindowInv == /\ WindowIsSafe
             /\ \E base \in Nat : IsBase(base)

\* Every activity has a name of its own: a call the uid it was given, a packet
\* its number among those its rank sent.
NameInv ==
  /\ \A p \in Rank : \A e \in events[p] :
       /\ e.uid < uid[p]
       /\ e.act.kind = "call" => e.act.from = p /\ e.act.n = e.uid
       /\ e.act.kind = "packet" => \E m \in received : m.to = p /\ ActOf(m) = e.act
  /\ \A p \in Rank : \A e, f \in events[p] : e.act = f.act => e = f
  /\ \A m \in sent : m.n < Cardinality({k \in sent : k.from = m.from})
  /\ \A m, k \in sent : ActOf(m) = ActOf(k) => m = k

IInv == TypeInv /\ StartInv /\ LookAheadInv /\ TimeInv /\ WindowInv /\ NameInv

-----------------------------------------------------------------------------
\* What Insert does, rank by rank.
LEMMA InsertEffect ==
  ASSUME TypeInv, NEW p \in Rank, NEW ts, NEW act, Insert(p, ts, act)
  PROVE  /\ events'[p] = events[p] \cup {[ts |-> ts, uid |-> uid[p], act |-> act]}
         /\ \A q \in Rank \ {p} : events'[q] = events[q]
         /\ uid'[p] = uid[p] + 1
         /\ \A q \in Rank \ {p} : uid'[q] = uid[q]
  BY DEF TypeInv, TypeOK, Insert

LEMMA InsertType ==
  ASSUME TypeInv, NEW p \in Rank, NEW ts \in Nat, NEW act \in Act,
         Insert(p, ts, act)
  PROVE  events' \in [Rank -> SUBSET EventRec] /\ uid' \in [Rank -> Nat]
<1>1. [ts |-> ts, uid |-> uid[p], act |-> act] \in EventRec
  BY DEF TypeInv, TypeOK, EventRec
<1> QED  BY <1>1 DEF TypeInv, TypeOK, Insert

LEMMA LinkDelay ==
  ASSUME TypeInv, NEW p \in Rank, NEW q \in Rank, Linked(p, q)
  PROVE  /\ delay[<<p, q>>] \in Nat \ {0}
         /\ delay[<<p, q>>] < Forever
         /\ Linked(q, p) /\ delay[<<q, p>>] = delay[<<p, q>>]
<1>1. delay \in Topologies /\ <<p, q>> \in DOMAIN delay
  BY DEF TypeInv, TypeOK, Linked
<1>2. delay[<<p, q>>] \in 1..(Forever - 1)
  BY <1>1, TopologyAssumption
<1>3. <<q, p>> \in DOMAIN delay /\ delay[<<q, p>>] = delay[<<p, q>>]
  BY <1>1, TopologyAssumption
<1> QED  BY <1>2, <1>3, ForeverAssumption DEF Linked

LEMMA OwnPackets ==
  ASSUME TypeInv, NEW p \in Rank
  PROVE  Cardinality({m \in sent : m.from = p}) \in Nat
<1>1. {m \in sent : m.from = p} \in SUBSET sent
  OBVIOUS
<1>2. IsFiniteSet({m \in sent : m.from = p})
  BY <1>1, FS_Subset DEF TypeInv
<1> QED  BY <1>2, FS_CardinalityType

LEMMA TypeInvInit == Init => TypeInv
<1> SUFFICES ASSUME Init PROVE TypeInv
  OBVIOUS
<1>1. IsFiniteSet(sent)
  BY FS_EmptySet DEF Init
<1>2. TypeOK
  BY DEF Init, TypeOK, FirstUid, Unset, Phase
<1> QED  BY <1>1, <1>2 DEF TypeInv

\* A new packet.
NewPacket(p, q, txTime) ==
  [from |-> p, n |-> Cardinality({m \in sent : m.from = p}),
   to |-> q, rx |-> currentTs[p] + txTime + delay[<<p, q>>]]

LEMMA NewPacketType ==
  ASSUME TypeInv, NEW p \in Rank, NEW q \in Rank, NEW t \in Nat, Linked(p, q)
  PROVE  /\ NewPacket(p, q, t) \in Packet
         /\ NewPacket(p, q, t).rx \in Nat
<1>1. Cardinality({m \in sent : m.from = p}) \in Nat
  BY OwnPackets
<1>2. delay[<<p, q>>] \in Nat /\ currentTs[p] \in Nat
  BY LinkDelay DEF TypeInv, TypeOK
<1>3. currentTs[p] + t + delay[<<p, q>>] \in Nat
  BY <1>2
<1> QED  BY <1>1, <1>3 DEF NewPacket, Packet

LEMMA TypeInvNext == TypeInv /\ [Next]_vars => TypeInv'
<1> SUFFICES ASSUME TypeInv, [Next]_vars PROVE TypeInv'
  OBVIOUS
<1> USE DEF TypeInv
<1>1. ASSUME NEW p \in Rank, NEW d \in Delay, Schedule(p, d) PROVE TypeInv'
  <2>1. currentTs[p] + d \in Nat /\ CallOf(p) \in Act
    BY InputAssumption DEF TypeOK, CallOf, Act
  <2>2. Insert(p, currentTs[p] + d, CallOf(p))
    BY <1>1 DEF Schedule
  <2>3. events' \in [Rank -> SUBSET EventRec] /\ uid' \in [Rank -> Nat]
    BY <2>1, <2>2, InsertType
  <2> QED  BY <1>1, <2>3 DEF TypeOK, Schedule, windowVars
<1>2. ASSUME NEW p \in Rank, NEW q \in Rank, NEW t \in TxTimes,
             Transmit(p, q, t)
      PROVE  TypeInv'
  <2>1. currentTs[p] + t \in Nat /\ CallOf(p) \in Act /\ t \in Nat
    BY InputAssumption DEF TypeOK, CallOf, Act
  <2>2. Insert(p, currentTs[p] + t, CallOf(p)) /\ Linked(p, q)
    BY <1>2 DEF Transmit
  <2>3. events' \in [Rank -> SUBSET EventRec] /\ uid' \in [Rank -> Nat]
    BY <2>1, <2>2, InsertType
  <2>4. sent' = sent \cup {NewPacket(p, q, t)}
    BY <1>2 DEF Transmit, NewPacket
  <2>5. sent' \subseteq Packet
    BY <2>1, <2>2, <2>4, NewPacketType DEF TypeOK
  <2>6. IsFiniteSet(sent')
    BY <2>4, FS_AddElement
  <2> QED  BY <1>2, <2>3, <2>4, <2>5, <2>6 DEF TypeOK, Transmit, windowVars
<1>3. ASSUME NEW p \in Rank, NEW t \in LookAheads, SetMaximumLookAhead(p, t)
      PROVE  TypeInv'
  BY <1>3, InputAssumption DEF TypeOK, SetMaximumLookAhead, localVars
<1>4. ASSUME NEW p \in Rank, Stop(p) PROVE TypeInv'
  BY <1>4 DEF TypeOK, Stop, localVars, windowVars
<1>5. ASSUME NEW p \in Rank, Run(p) PROVE TypeInv'
  <2>1. PICK bound \in OwnBounds(p) :
          /\ lookAhead' = [lookAhead EXCEPT ![p] = bound]
          /\ granted' = [granted EXCEPT ![p] = bound]
    BY <1>5 DEF Run
  <2>2. bound \in Int
    BY LinkDelay, ForeverAssumption DEF OwnBounds, TypeOK
  <2> QED  BY <1>5, <2>1, <2>2 DEF TypeOK, Run, localVars, Phase
<1>6. CASE Reduce
  <2>1. PICK largest \in ({lookAhead[p] : p \in Rank} \ {Forever}) \cup {Forever} :
          /\ lookAhead' = [p \in Rank |-> IF lookAhead[p] = Forever
                                          THEN largest ELSE lookAhead[p]]
          /\ granted' = [p \in Rank |-> IF granted[p] = Forever
                                        THEN largest ELSE granted[p]]
    BY <1>6 DEF Reduce
  <2>2. largest \in Int
    BY ForeverAssumption DEF TypeOK
  <2> QED  BY <1>6, <2>1, <2>2 DEF TypeOK, Reduce, localVars, Phase
<1>7. ASSUME NEW p \in Rank, ProcessOneEvent(p) PROVE TypeInv'
  <2>1. PICK e \in events[p] :
          /\ currentTs' = [currentTs EXCEPT ![p] = e.ts]
          /\ events' = [events EXCEPT ![p] = @ \ {e}]
    BY <1>7 DEF ProcessOneEvent
  <2>2. e.ts \in Nat
    BY DEF TypeOK, EventRec
  <2> QED  BY <1>7, <2>1, <2>2 DEF TypeOK, ProcessOneEvent, windowVars, Phase
<1>8. ASSUME NEW p \in Rank, EventReturns(p) \/ EndOfWindow(p) \/ NoMoreMessages(p)
      PROVE  TypeInv'
  BY <1>8 DEF TypeOK, EventReturns, EndOfWindow, NoMoreMessages, localVars,
       windowVars, Phase
<1>9. ASSUME NEW p \in Rank, NEW m \in InFlight, ReceiveMessage(p, m)
      PROVE  TypeInv'
  <2>1. m.rx \in Nat /\ ActOf(m) \in Act /\ m \in sent
    BY DEF TypeOK, InFlight, Packet, ActOf, Act
  <2>2. Insert(p, m.rx, ActOf(m))
    BY <1>9 DEF ReceiveMessage
  <2>3. events' \in [Rank -> SUBSET EventRec] /\ uid' \in [Rank -> Nat]
    BY <2>1, <2>2, InsertType
  <2> QED  BY <1>9, <2>1, <2>3 DEF TypeOK, ReceiveMessage, windowVars
<1>10. CASE Gather
  <2>1. granted' \in [Rank -> Int]
    <3>1. CASE UNCHANGED granted
      BY <3>1 DEF TypeOK
    <3>2. ASSUME NEW smallest \in NextTimes,
                 granted' = [p \in Rank |-> IF lookAhead[p] = Forever
                                            THEN Forever
                                            ELSE smallest + lookAhead[p]]
          PROVE  granted' \in [Rank -> Int]
      <4>1. smallest \in Int
        BY ForeverAssumption DEF NextTimes, TypeOK, EventRec
      <4> QED  BY <3>2, <4>1, ForeverAssumption DEF TypeOK
    <3> QED  BY <1>10, <3>1, <3>2 DEF Gather
  <2> QED  BY <1>10, <2>1 DEF TypeOK, Gather, localVars, Phase
<1>11. CASE UNCHANGED vars
  BY <1>11 DEF TypeOK, vars, localVars, windowVars
<1> QED
  BY <1>1, <1>2, <1>3, <1>4, <1>5, <1>6, <1>7, <1>8, <1>9, <1>10, <1>11
  DEF Next

\* The variables of every rank keep their types, and what was received was
\* sent.
THEOREM TypeCorrect == Spec => []TypeOK
<1>1. TypeInv => TypeOK
  BY DEF TypeInv
<1> QED  BY <1>1, TypeInvInit, TypeInvNext, PTL DEF Spec
-----------------------------------------------------------------------------
\* The parts of the invariant other than TypeInv, one action at a time.

LEMMA StartInvNext == TypeInv /\ StartInv /\ [Next]_vars => StartInv'
<1> SUFFICES ASSUME TypeInv, StartInv, [Next]_vars PROVE StartInv'
  OBVIOUS
<1> USE DEF StartInv, Starting
<1>1. ASSUME NEW p \in Rank, NEW d \in Delay, Schedule(p, d) PROVE StartInv'
  BY <1>1 DEF Schedule
<1>2. ASSUME NEW p \in Rank, NEW q \in Rank, NEW t \in TxTimes,
             Transmit(p, q, t)
      PROVE  StartInv'
  BY <1>2 DEF Transmit
<1>3. ASSUME NEW p \in Rank, NEW t \in LookAheads, SetMaximumLookAhead(p, t)
      PROVE  StartInv'
  BY <1>3 DEF SetMaximumLookAhead, localVars
<1>4. ASSUME NEW p \in Rank, Stop(p) PROVE StartInv'
  BY <1>4 DEF Stop, localVars
<1>5. ASSUME NEW p \in Rank, Run(p) PROVE StartInv'
  BY <1>5 DEF Run, localVars, TypeInv, TypeOK
<1>6. CASE Reduce
  BY <1>6 DEF Reduce, localVars, TypeInv, TypeOK
<1>7. ASSUME NEW p \in Rank, ProcessOneEvent(p) PROVE StartInv'
  BY <1>7 DEF ProcessOneEvent, TypeInv, TypeOK
<1>8. ASSUME NEW p \in Rank, EventReturns(p) \/ EndOfWindow(p) \/ NoMoreMessages(p)
      PROVE  StartInv'
  BY <1>8 DEF EventReturns, EndOfWindow, NoMoreMessages, localVars, TypeInv,
       TypeOK
<1>9. ASSUME NEW p \in Rank, NEW m \in InFlight, ReceiveMessage(p, m)
      PROVE  StartInv'
  BY <1>9 DEF ReceiveMessage
<1>10. CASE Gather
  BY <1>10 DEF Gather, localVars, TypeInv, TypeOK
<1>11. CASE UNCHANGED vars
  BY <1>11 DEF vars
<1> QED
  BY <1>1, <1>2, <1>3, <1>4, <1>5, <1>6, <1>7, <1>8, <1>9, <1>10, <1>11
  DEF Next

LEMMA OwnBoundsPositive ==
  ASSUME TypeInv, LookAheadInv, NEW p \in Rank, NEW bound \in OwnBounds(p)
  PROVE  bound \in Int /\ bound > 0
<1>1. CASE bound = (IF lookAhead[p] = Unset THEN Forever ELSE lookAhead[p])
  <2>1. lookAhead[p] = Unset \/ lookAhead[p] > 0
    BY DEF LookAheadInv
  <2> QED  BY <1>1, <2>1, ForeverAssumption DEF TypeInv, TypeOK
<1>2. ASSUME NEW q \in Rank, Linked(p, q), bound = delay[<<p, q>>]
      PROVE  bound \in Int /\ bound > 0
  <2>1. delay[<<p, q>>] \in Nat \ {0}
    BY <1>2, LinkDelay
  <2> QED  BY <1>2, <2>1
<1>3. \/ bound = (IF lookAhead[p] = Unset THEN Forever ELSE lookAhead[p])
      \/ \E q \in Rank : Linked(p, q) /\ bound = delay[<<p, q>>]
  BY DEF OwnBounds
<1> QED  BY <1>1, <1>2, <1>3

\* What Run leaves on the rank that calls it.
LEMMA RunEffect ==
  ASSUME TypeInv, LookAheadInv, NEW p \in Rank, Run(p)
  PROVE  \E bound \in Int :
           /\ bound > 0
           /\ \A q \in Rank : Linked(q, p) => bound <= delay[<<q, p>>]
           /\ lookAhead' = [lookAhead EXCEPT ![p] = bound]
           /\ granted' = [granted EXCEPT ![p] = bound]
<1>1. PICK bound \in OwnBounds(p) :
        /\ \A other \in OwnBounds(p) : bound <= other
        /\ lookAhead' = [lookAhead EXCEPT ![p] = bound]
        /\ granted' = [granted EXCEPT ![p] = bound]
  BY DEF Run
<1>2. ASSUME NEW q \in Rank, Linked(q, p) PROVE bound <= delay[<<q, p>>]
  <2>1. Linked(p, q) /\ delay[<<p, q>>] = delay[<<q, p>>]
    BY <1>2, LinkDelay
  <2>2. delay[<<p, q>>] \in OwnBounds(p)
    BY <2>1 DEF OwnBounds
  <2> QED  BY <1>1, <2>1, <2>2
<1> QED  BY <1>1, <1>2, OwnBoundsPositive

\* What Reduce leaves on a rank with a link: what it had.
LEMMA ReduceEffect ==
  ASSUME TypeInv, LookAheadInv, Reduce
  PROVE  /\ \A p \in Rank : lookAhead'[p] > 0
         /\ \A p, q \in Rank : Linked(q, p) => lookAhead'[p] = lookAhead[p]
         /\ \A p \in Rank : granted[p] = lookAhead[p] => granted'[p] = lookAhead'[p]
<1> DEFINE offers == {lookAhead[p] : p \in Rank} \ {Forever}
           Agreed(own, largest) == IF own = Forever THEN largest ELSE own
<1>1. PICK largest \in offers \cup {Forever} :
        /\ lookAhead' = [p \in Rank |-> Agreed(lookAhead[p], largest)]
        /\ granted' = [p \in Rank |-> Agreed(granted[p], largest)]
  BY DEF Reduce
<1>2. \A p \in Rank : phase[p] = "reduce" /\ lookAhead[p] \in Int
  BY DEF Reduce, TypeInv, TypeOK
<1>3. \A p \in Rank : lookAhead[p] > 0
  BY <1>2 DEF LookAheadInv
<1>4. largest > 0
  BY <1>3, ForeverAssumption
<1>5. \A p, q \in Rank : Linked(q, p) => lookAhead[p] # Forever
  <2> SUFFICES ASSUME NEW p \in Rank, NEW q \in Rank, Linked(q, p)
               PROVE  lookAhead[p] # Forever
    OBVIOUS
  <2>1. lookAhead[p] <= delay[<<q, p>>]
    BY <1>2 DEF LookAheadInv
  <2>2. delay[<<q, p>>] \in Nat /\ delay[<<q, p>>] < Forever
    BY LinkDelay
  <2> QED  BY <1>2, <2>1, <2>2, ForeverAssumption
<1> QED  BY <1>1, <1>3, <1>4, <1>5

LEMMA LookAheadInvNext ==
  TypeInv /\ LookAheadInv /\ [Next]_vars => LookAheadInv'
<1> SUFFICES ASSUME TypeInv, LookAheadInv, [Next]_vars PROVE LookAheadInv'
  OBVIOUS
<1> USE DEF LookAheadInv, Linked
<1>1. ASSUME NEW p \in Rank, NEW d \in Delay, Schedule(p, d)
      PROVE  LookAheadInv'
  BY <1>1 DEF Schedule, windowVars
<1>2. ASSUME NEW p \in Rank, NEW q \in Rank, NEW t \in TxTimes,
             Transmit(p, q, t)
      PROVE  LookAheadInv'
  BY <1>2 DEF Transmit, windowVars
<1>3. ASSUME NEW p \in Rank, NEW t \in LookAheads, SetMaximumLookAhead(p, t)
      PROVE  LookAheadInv'
  BY <1>3 DEF SetMaximumLookAhead, TypeInv, TypeOK
<1>4. ASSUME NEW p \in Rank, Stop(p) PROVE LookAheadInv'
  BY <1>4 DEF Stop, windowVars
<1>5. ASSUME NEW p \in Rank, Run(p) PROVE LookAheadInv'
  <2>1. PICK bound \in Int :
           /\ bound > 0
           /\ \A q \in Rank : Linked(q, p) => bound <= delay[<<q, p>>]
           /\ lookAhead' = [lookAhead EXCEPT ![p] = bound]
    BY <1>5, RunEffect
  <2> QED  BY <1>5, <2>1 DEF Run, TypeInv, TypeOK
<1>6. CASE Reduce
  <2>1. UNCHANGED delay /\ \A p \in Rank : phase[p] = "reduce"
    BY <1>6 DEF Reduce
  <2>2. /\ \A p \in Rank : lookAhead'[p] > 0
        /\ \A p, q \in Rank : Linked(q, p) => lookAhead'[p] = lookAhead[p]
    BY <1>6, ReduceEffect
  <2> QED  BY <2>1, <2>2
<1>7. ASSUME NEW p \in Rank, ProcessOneEvent(p) PROVE LookAheadInv'
  BY <1>7 DEF ProcessOneEvent, windowVars, TypeInv, TypeOK
<1>8. ASSUME NEW p \in Rank, EventReturns(p) \/ EndOfWindow(p) \/ NoMoreMessages(p)
      PROVE  LookAheadInv'
  BY <1>8 DEF EventReturns, EndOfWindow, NoMoreMessages, windowVars, TypeInv,
       TypeOK
<1>9. ASSUME NEW p \in Rank, NEW m \in InFlight, ReceiveMessage(p, m)
      PROVE  LookAheadInv'
  BY <1>9 DEF ReceiveMessage, windowVars
<1>10. CASE Gather
  <2>1. UNCHANGED <<delay, lookAhead>> /\ \A p \in Rank : phase[p] = "gather"
    BY <1>10 DEF Gather
  <2> QED  BY <2>1
<1>11. CASE UNCHANGED vars
  BY <1>11 DEF vars
<1> QED
  BY <1>1, <1>2, <1>3, <1>4, <1>5, <1>6, <1>7, <1>8, <1>9, <1>10, <1>11
  DEF Next

\* A link has a look-ahead that is not infinite.
LEMMA LinkedLookAhead ==
  ASSUME TypeInv, LookAheadInv, NEW p \in Rank, NEW q \in Rank, Linked(q, p),
         phase[p] # "script"
  PROVE  /\ lookAhead[p] \in Nat /\ lookAhead[p] < Forever
         /\ lookAhead[p] <= delay[<<q, p>>]
<1>1. lookAhead[p] \in Int /\ lookAhead[p] > 0 /\ lookAhead[p] <= delay[<<q, p>>]
  BY DEF TypeInv, TypeOK, LookAheadInv
<1>2. delay[<<q, p>>] \in Nat /\ delay[<<q, p>>] < Forever
  BY LinkDelay
<1> QED  BY <1>1, <1>2, ForeverAssumption

\* The exchange: either nothing moves, or nothing is in flight and there is a
\* later base that all agree on.
LEMMA GatherEffect ==
  ASSUME TypeInv, LookAheadInv, NEW base, IsBase(base), Gather
  PROVE  \/ UNCHANGED granted
         \/ /\ InFlight = {}
            /\ \E new \in Nat :
                 /\ base <= new /\ new <= Forever
                 /\ \A p \in Rank : ~stop[p] => \A e \in events[p] : new <= e.ts
                 /\ \A p, q \in Rank :
                      Linked(q, p) => granted'[p] = new + lookAhead[p]
<1>1. ASSUME Cardinality(received) = Cardinality(sent) PROVE InFlight = {}
  <2>1. received \in SUBSET sent /\ IsFiniteSet(sent)
    BY DEF TypeInv, TypeOK
  <2>2. received = sent
    BY <1>1, <2>1, FS_Subset
  <2> QED  BY <2>2 DEF InFlight
<1>2. ASSUME NEW smallest \in NextTimes,
             \A t \in NextTimes : smallest <= t,
             granted' = [p \in Rank |-> IF lookAhead[p] = Forever THEN Forever
                                       ELSE smallest + lookAhead[p]]
      PROVE  /\ smallest \in Nat /\ base <= smallest /\ smallest <= Forever
             /\ \A p \in Rank : ~stop[p] => \A e \in events[p] : smallest <= e.ts
             /\ \A p, q \in Rank :
                  Linked(q, p) => granted'[p] = smallest + lookAhead[p]
  <2>1. smallest <= Forever
    BY <1>2 DEF NextTimes
  <2>2. ASSUME NEW p \in Rank, ~stop[p], NEW e \in events[p]
        PROVE  e.ts \in NextTimes
    BY <2>2 DEF NextTimes, Finished
  <2>3. \/ smallest = Forever
        \/ \E p \in Rank : ~stop[p] /\ \E e \in events[p] : smallest = e.ts
    BY DEF NextTimes, Finished
  <2>4. smallest \in Nat
    BY <2>3, ForeverAssumption DEF TypeInv, TypeOK, EventRec
  <2>5. base <= smallest
    BY <2>3 DEF IsBase
  <2>6. ASSUME NEW p \in Rank, NEW q \in Rank, Linked(q, p)
        PROVE  granted'[p] = smallest + lookAhead[p]
    <3>1. phase[p] # "script"
      BY DEF Gather
    <3>2. lookAhead[p] \in Nat /\ lookAhead[p] < Forever
      BY <2>6, <3>1, LinkedLookAhead
    <3>3. lookAhead[p] # Forever
      BY <3>2, ForeverAssumption
    <3> QED  BY <1>2, <3>3
  <2> QED  BY <1>2, <2>1, <2>2, <2>4, <2>5, <2>6
<1> QED  BY <1>1, <1>2 DEF Gather
\* What a new packet adds to a rank in the window of the other.
LEMMA NewPacketWindow ==
  ASSUME TypeInv, LookAheadInv, NEW base, IsBase(base),
         NEW p \in Rank, NEW q \in Rank, NEW t \in Nat, Linked(p, q),
         phase[p] = "event", phase[q] # "script"
  PROVE  /\ base <= NewPacket(p, q, t).rx
         /\ granted[q] <= NewPacket(p, q, t).rx
         /\ currentTs[p] <= NewPacket(p, q, t).rx
<1>1. /\ currentTs[p] \in Nat /\ base <= currentTs[p] /\ base \in Nat
      /\ granted[q] = base + lookAhead[q]
  BY DEF TypeInv, TypeOK, IsBase
<1>2. delay[<<p, q>>] \in Nat
  BY LinkDelay
<1>3. lookAhead[q] \in Nat /\ lookAhead[q] <= delay[<<p, q>>]
  BY LinkedLookAhead
<1>4. NewPacket(p, q, t).rx = currentTs[p] + t + delay[<<p, q>>]
  BY DEF NewPacket
<1> QED  BY <1>1, <1>2, <1>3, <1>4

MotionInv == TimeInv /\ WindowInv

\* A rank schedules a call: its event is neither in its past nor before the
\* base.
LEMMA CallAhead ==
  ASSUME TypeInv, StartInv, TimeInv, NEW base, IsBase(base),
         NEW p \in Rank, NEW d \in Nat, Calling(p),
         Insert(p, currentTs[p] + d, CallOf(p)), UNCHANGED <<currentTs, stop>>
  PROVE  /\ \A q \in Rank : \A e \in events'[q] : currentTs'[q] <= e.ts
         /\ \A q \in Rank : ~stop'[q] => \A e \in events'[q] : base <= e.ts
<1>1. base <= currentTs[p] + d /\ currentTs[p] <= currentTs[p] + d
  BY DEF TypeInv, TypeOK, Calling, IsBase, StartInv, Starting
<1> QED  BY <1>1, InsertEffect DEF IsBase, TimeInv

LEMMA MotionInvNext ==
  TypeInv /\ StartInv /\ LookAheadInv /\ MotionInv /\ [Next]_vars => MotionInv'
<1> SUFFICES ASSUME TypeInv, StartInv, LookAheadInv, MotionInv, [Next]_vars
             PROVE  MotionInv'
  OBVIOUS
<1>0. PICK base \in Nat : IsBase(base)
  BY DEF MotionInv, WindowInv
<1>t. TimeInv /\ WindowIsSafe
  BY DEF MotionInv, WindowInv
<1>g. ASSUME TimeInv', WindowIsSafe', IsBase(base)' PROVE MotionInv'
  BY <1>g DEF MotionInv, WindowInv
<1>1. ASSUME NEW p \in Rank, NEW d \in Delay, Schedule(p, d) PROVE MotionInv'
  <2>1. d \in Nat
    BY InputAssumption
  <2>2. /\ \A q \in Rank : \A e \in events'[q] : currentTs'[q] <= e.ts
        /\ \A q \in Rank : ~stop'[q] => \A e \in events'[q] : base <= e.ts
    BY <1>0, <1>t, <1>1, <2>1, CallAhead DEF Schedule
  <2> QED
    BY <1>0, <1>t, <1>g, <1>1, <2>2
    DEF Schedule, IsBase, TimeInv, WindowIsSafe, InFlight, Linked, windowVars,
        Starting
<1>2. ASSUME NEW p \in Rank, NEW q \in Rank, NEW t \in TxTimes,
             Transmit(p, q, t)
      PROVE  MotionInv'
  <2>1. t \in Nat
    BY InputAssumption
  <2>2. /\ \A r \in Rank : \A e \in events'[r] : currentTs'[r] <= e.ts
        /\ \A r \in Rank : ~stop'[r] => \A e \in events'[r] : base <= e.ts
    BY <1>0, <1>t, <1>2, <2>1, CallAhead DEF Transmit
  <2>3. sent' = sent \cup {NewPacket(p, q, t)}
    BY <1>2 DEF Transmit, NewPacket
  <2>4. phase[p] = "event" /\ phase[q] # "script" /\ Linked(p, q)
    BY <1>2 DEF Transmit, StartInv, Starting
  <2>5. base <= NewPacket(p, q, t).rx /\ granted[q] <= NewPacket(p, q, t).rx
    BY <1>0, <2>1, <2>4, NewPacketWindow
  <2>6. NewPacket(p, q, t).to = q /\ NewPacket(p, q, t).from = p
    BY DEF NewPacket
  <2>7. InFlight' \subseteq InFlight \cup {NewPacket(p, q, t)}
    BY <1>2, <2>3 DEF Transmit, InFlight
  <2>8. NewPacket(p, q, t).rx \in Int /\ granted[q] \in Int
    BY <2>1, <2>4, NewPacketType DEF TypeInv, TypeOK
  <2>9. WindowIsSafe'
    BY <1>t, <1>2, <2>5, <2>6, <2>7, <2>8 DEF Transmit, WindowIsSafe, windowVars
  <2>10. TimeInv'
    BY <1>t, <1>2, <2>2, <2>3, <2>4, <2>6 DEF Transmit, TimeInv, Linked, windowVars
  <2>11. IsBase(base)'
    BY <1>0, <1>2, <2>2, <2>5, <2>7 DEF Transmit, IsBase, Linked, windowVars, Starting
  <2> QED  BY <1>g, <2>9, <2>10, <2>11
<1>3. ASSUME NEW p \in Rank, NEW t \in LookAheads, SetMaximumLookAhead(p, t)
      PROVE  MotionInv'
  BY <1>0, <1>t, <1>g, <1>3
  DEF SetMaximumLookAhead, IsBase, TimeInv, WindowIsSafe, InFlight, Linked,
      localVars, Starting, TypeInv, TypeOK
<1>4. ASSUME NEW p \in Rank, Stop(p) PROVE MotionInv'
  BY <1>0, <1>t, <1>g, <1>4
  DEF Stop, IsBase, TimeInv, WindowIsSafe, InFlight, Linked, localVars,
      windowVars, Starting, TypeInv, TypeOK
<1>5. ASSUME NEW p \in Rank, Run(p) PROVE MotionInv'
  <2>1. PICK bound \in Int :
           /\ bound > 0
           /\ lookAhead' = [lookAhead EXCEPT ![p] = bound]
           /\ granted' = [granted EXCEPT ![p] = bound]
    BY <1>5, RunEffect
  <2>2. /\ phase' = [phase EXCEPT ![p] = "reduce"] /\ phase[p] = "script"
        /\ UNCHANGED <<delay, events, uid, currentTs, stop, sent, received>>
    BY <1>5 DEF Run, localVars
  <2>3. base = 0 /\ sent = {} /\ \A q \in Rank : currentTs[q] = 0
    BY <1>0, <2>2 DEF IsBase, StartInv, Starting
  <2>4. WindowIsSafe'
    BY <2>2, <2>3 DEF WindowIsSafe, InFlight
  <2>5. TimeInv'
    BY <1>t, <2>1, <2>2, <2>3 DEF TimeInv, Linked, TypeInv, TypeOK
  <2>6. IsBase(base)'
    BY <1>0, <2>1, <2>2, <2>3
    DEF IsBase, Linked, Starting, InFlight, TypeInv, TypeOK
  <2> QED  BY <1>g, <2>4, <2>5, <2>6
<1>6. CASE Reduce
  <2>1. /\ \A p \in Rank : phase[p] = "reduce" /\ phase'[p] = "loop" /\ ~stop'[p]
        /\ UNCHANGED <<delay, events, uid, currentTs, sent, received>>
    BY <1>6 DEF Reduce, localVars
  <2>2. /\ \A p, q \in Rank : Linked(q, p) => lookAhead'[p] = lookAhead[p]
        /\ \A p \in Rank : granted[p] = lookAhead[p] => granted'[p] = lookAhead'[p]
    BY <1>6, ReduceEffect
  <2>3. \A p \in Rank : /\ base = 0 /\ sent = {} /\ currentTs[p] = 0 /\ ~stop[p]
                        /\ lookAhead[p] \in Int /\ lookAhead[p] > 0
    BY <1>0, <2>1 DEF IsBase, StartInv, Starting, LookAheadInv, TypeInv, TypeOK
  <2>4. \A p, q \in Rank : Linked(q, p) =>
          granted[p] = lookAhead[p] /\ granted'[p] = granted[p]
    BY <1>0, <2>1, <2>2, <2>3 DEF IsBase
  <2>5. WindowIsSafe'
    BY <2>1, <2>3 DEF WindowIsSafe, InFlight, TypeInv, TypeOK, Packet
  <2>6. TimeInv'
    BY <1>t, <2>1, <2>3, <2>4 DEF TimeInv, Linked
  <2>7. IsBase(base)'
    BY <1>0, <2>1, <2>2, <2>3, <2>4 DEF IsBase, Linked, Starting, InFlight
  <2> QED  BY <1>g, <2>5, <2>6, <2>7
<1>7. ASSUME NEW p \in Rank, ProcessOneEvent(p) PROVE MotionInv'
  <2>1. PICK e \in events[p] :
          /\ IsFirst(e, events[p])
          /\ e.ts <= granted[p]
          /\ currentTs' = [currentTs EXCEPT ![p] = e.ts]
          /\ events' = [events EXCEPT ![p] = @ \ {e}]
    BY <1>7 DEF ProcessOneEvent
  <2>2. /\ phase[p] = "loop" /\ phase' = [phase EXCEPT ![p] = "event"] /\ ~stop[p]
        /\ UNCHANGED <<delay, stop, lookAhead, granted, sent, received>>
    BY <1>7 DEF ProcessOneEvent, Finished, windowVars
  <2>3. base <= e.ts /\ \A f \in events[p] : e.ts <= f.ts
    BY <1>0, <2>1, <2>2 DEF IsBase, IsFirst, Before, TypeInv, TypeOK, EventRec
  <2>4. WindowIsSafe'
    BY <1>t, <2>2 DEF WindowIsSafe, InFlight
  <2>5. TimeInv'
    BY <1>t, <2>1, <2>2, <2>3 DEF TimeInv, Linked, TypeInv, TypeOK
  <2>6. IsBase(base)'
    BY <1>0, <2>1, <2>2, <2>3
    DEF IsBase, Linked, Starting, InFlight, TypeInv, TypeOK
  <2> QED  BY <1>g, <2>4, <2>5, <2>6
<1>8. ASSUME NEW p \in Rank, EventReturns(p) \/ EndOfWindow(p) \/ NoMoreMessages(p)
      PROVE  MotionInv'
  <2>1. /\ phase[p] \in {"event", "loop", "receive"}
        /\ \E next \in {"loop", "receive", "gather"} :
             phase' = [phase EXCEPT ![p] = next]
        /\ UNCHANGED <<delay, events, uid, currentTs, stop, lookAhead, granted,
                      sent, received>>
    BY <1>8 DEF EventReturns, EndOfWindow, NoMoreMessages, localVars, windowVars
  <2> QED
    BY <1>0, <1>t, <1>g, <2>1
    DEF IsBase, TimeInv, WindowIsSafe, InFlight, Linked, Starting, TypeInv, TypeOK
<1>9. ASSUME NEW p \in Rank, NEW m \in InFlight, ReceiveMessage(p, m)
      PROVE  MotionInv'
  <2>1. /\ Insert(p, m.rx, ActOf(m)) /\ received' = received \cup {m}
        /\ phase[p] = "receive" /\ m.to = p /\ m \in sent /\ m.from \in Rank
        /\ UNCHANGED <<delay, currentTs, stop, lookAhead, granted, phase, sent>>
    BY <1>9 DEF ReceiveMessage, windowVars, InFlight, TypeInv, TypeOK, Packet
  <2>2. base <= m.rx /\ currentTs[p] <= granted[p] /\ granted[p] <= m.rx
    BY <1>0, <1>t, <2>1 DEF IsBase, TimeInv, WindowIsSafe
  <2>3. currentTs[p] <= m.rx
    BY <2>1, <2>2 DEF TypeInv, TypeOK, Packet
  <2>4. /\ \A q \in Rank : \A e \in events'[q] : currentTs[q] <= e.ts
        /\ \A q \in Rank : ~stop[q] => \A e \in events'[q] : base <= e.ts
    BY <1>0, <1>t, <2>1, <2>2, <2>3, InsertEffect DEF IsBase, TimeInv
  <2>5. InFlight' \subseteq InFlight
    BY <2>1 DEF InFlight
  <2> QED
    BY <1>0, <1>t, <1>g, <2>1, <2>4, <2>5
    DEF IsBase, TimeInv, WindowIsSafe, Linked, Starting
<1>10. CASE Gather
  <2>1. /\ \A p \in Rank : phase[p] = "gather" /\ phase'[p] \in {"loop", "done"}
        /\ UNCHANGED <<delay, events, uid, currentTs, stop, lookAhead, sent, received>>
    BY <1>10 DEF Gather, localVars
  <2>2. CASE UNCHANGED granted
    BY <1>0, <1>t, <1>g, <2>1, <2>2
    DEF IsBase, TimeInv, WindowIsSafe, InFlight, Linked, Starting
  <2>3. CASE ~UNCHANGED granted
    <3>1. /\ InFlight = {}
          /\ \E new \in Nat :
               /\ base <= new /\ new <= Forever
               /\ \A p \in Rank : ~stop[p] => \A e \in events[p] : new <= e.ts
               /\ \A p, q \in Rank :
                    Linked(q, p) => granted'[p] = new + lookAhead[p]
      BY <1>0, <1>10, <2>3, GatherEffect
    <3>2. PICK new \in Nat :
            /\ base <= new /\ new <= Forever
            /\ \A p \in Rank : ~stop[p] => \A e \in events[p] : new <= e.ts
            /\ \A p, q \in Rank :
                 Linked(q, p) => granted'[p] = new + lookAhead[p]
      BY <3>1
    <3>3. WindowIsSafe'
      BY <2>1, <3>1 DEF WindowIsSafe, InFlight
    <3>4. ASSUME NEW p \in Rank, NEW q \in Rank, Linked(q, p)
          PROVE  currentTs[p] <= granted'[p]
      <4>1. currentTs[p] <= granted[p] /\ granted[p] = base + lookAhead[p]
        BY <1>0, <1>t, <2>1, <3>4 DEF IsBase, TimeInv
      <4> QED  BY <3>2, <3>4, <4>1 DEF TypeInv, TypeOK
    <3>5. TimeInv'
      BY <1>t, <2>1, <3>4 DEF TimeInv, Linked
    <3>6. IsBase(new)'
      BY <2>1, <3>1, <3>2 DEF IsBase, InFlight, Linked, Starting
    <3> QED  BY <3>3, <3>5, <3>6 DEF MotionInv, WindowInv
  <2> QED  BY <2>2, <2>3
<1>11. CASE UNCHANGED vars
  BY <1>0, <1>t, <1>g, <1>11
  DEF vars, localVars, windowVars, IsBase, TimeInv, WindowIsSafe, InFlight,
      Linked, Starting
<1> QED
  BY <1>1, <1>2, <1>3, <1>4, <1>5, <1>6, <1>7, <1>8, <1>9, <1>10, <1>11
  DEF Next
-----------------------------------------------------------------------------
\* The number of packets a rank sent grows with each of them.
LEMMA NewPacketNumber ==
  ASSUME TypeInv, NameInv, NEW p \in Rank, NEW q \in Rank, NEW t \in Nat,
         sent' = sent \cup {NewPacket(p, q, t)}
  PROVE  /\ \A m \in sent : ActOf(m) # ActOf(NewPacket(p, q, t))
         /\ \A m \in sent' : m.n < Cardinality({k \in sent' : k.from = m.from})
<1> DEFINE By(r) == {k \in sent : k.from = r}
           Now(r) == {k \in sent' : k.from = r}
           new == NewPacket(p, q, t)
<1>1. /\ new.from = p /\ new.n = Cardinality(By(p))
      /\ \A r \in Rank : IsFiniteSet(By(r)) /\ Cardinality(By(r)) \in Nat
  <2>1. \A r \in Rank : By(r) \in SUBSET sent
    OBVIOUS
  <2> QED  BY <2>1, FS_Subset, OwnPackets DEF TypeInv, NewPacket
<1>2. \A m \in sent : m.from \in Rank /\ m.n \in Nat
                     /\ m.n < Cardinality(By(m.from))
  BY DEF TypeInv, TypeOK, Packet, NameInv
<1>3. new \notin By(p)
  BY <1>1, <1>2
<1>4. \A r \in Rank \ {p} : Now(r) = By(r)
  BY <1>1
<1>5. Now(p) = By(p) \cup {new}
  BY <1>1
<1>6. Cardinality(By(p) \cup {new}) = Cardinality(By(p)) + 1
  BY <1>1, <1>3, FS_AddElement
<1>7. ASSUME NEW m \in sent' PROVE m.n < Cardinality(Now(m.from))
  <2>1. m = new \/ m \in sent
    OBVIOUS
  <2>2. /\ Cardinality(Now(p)) = Cardinality(By(p)) + 1
        /\ Cardinality(By(p)) \in Nat
    BY <1>1, <1>5, <1>6
  <2> HIDE DEF By, Now, new
  <2> QED  BY <1>1, <1>2, <1>4, <2>1, <2>2
<1>8. ASSUME NEW m \in sent, ActOf(m) = ActOf(new) PROVE FALSE
  <2>1. m.from = p /\ m.n = Cardinality(By(p))
    BY <1>1, <1>8 DEF ActOf
  <2> QED  BY <1>1, <1>2, <2>1
<1> QED  BY <1>7, <1>8
\* A rank schedules a call: the name of its event is new on that rank.
LEMMA CallNamed ==
  ASSUME TypeInv, NameInv, NEW p \in Rank, NEW ts,
         Insert(p, ts, CallOf(p))
  PROVE  /\ \A e \in events[p] : e.act # CallOf(p)
         /\ \A q \in Rank : \A e \in events'[q] :
              /\ e.uid < uid'[q]
              /\ e.act.kind = "call" => e.act.from = q /\ e.act.n = e.uid
              /\ e.act.kind = "packet" =>
                   \E m \in received : m.to = q /\ ActOf(m) = e.act
         /\ \A q \in Rank : \A e, f \in events'[q] : e.act = f.act => e = f
<1> DEFINE new == [ts |-> ts, uid |-> uid[p], act |-> CallOf(p)]
<1>1. /\ events'[p] = events[p] \cup {new} /\ uid'[p] = uid[p] + 1
      /\ \A q \in Rank \ {p} : events'[q] = events[q] /\ uid'[q] = uid[q]
  BY InsertEffect
<1>2. \A q \in Rank : uid[q] \in Nat /\ \A e \in events[q] : e.uid \in Nat
  BY DEF TypeInv, TypeOK, EventRec
<1>3. /\ CallOf(p).kind = "call" /\ CallOf(p).from = p /\ CallOf(p).n = uid[p]
      /\ new.uid = uid[p] /\ new.act = CallOf(p)
  BY DEF CallOf
<1> HIDE DEF new
<1>4. ASSUME NEW e \in events[p], e.act = CallOf(p) PROVE FALSE
  BY <1>2, <1>3, <1>4 DEF NameInv
<1>5. ASSUME NEW q \in Rank, NEW e \in events'[q]
      PROVE  /\ e.uid < uid'[q]
             /\ e.act.kind = "call" => e.act.from = q /\ e.act.n = e.uid
             /\ e.act.kind = "packet" =>
                  \E m \in received : m.to = q /\ ActOf(m) = e.act
  <2>1. CASE e \in events[q]
    BY <1>1, <1>2, <2>1 DEF NameInv
  <2>2. CASE q = p /\ e = new
    BY <1>1, <1>2, <1>3, <2>2
  <2> QED  BY <1>1, <2>1, <2>2
<1>6. ASSUME NEW q \in Rank, NEW e \in events'[q], NEW f \in events'[q],
             e.act = f.act
      PROVE  e = f
  BY <1>1, <1>3, <1>4, <1>6 DEF NameInv
<1> QED  BY <1>4, <1>5, <1>6

\* What is in flight is not among the events of its receiver.
LEMMA InFlightApart ==
  ASSUME TypeInv, NameInv, NEW p \in Rank, NEW e \in events[p],
         NEW m \in InFlight
  PROVE  e.act # ActOf(m)
<1> SUFFICES ASSUME e.act = ActOf(m) PROVE FALSE
  OBVIOUS
<1>1. e.act.kind = "packet"
  BY DEF ActOf
<1>2. PICK k \in received : ActOf(k) = e.act
  BY <1>1 DEF NameInv
<1>3. k \in sent /\ m \in sent /\ m \notin received
  BY DEF TypeInv, TypeOK, InFlight
<1> QED  BY <1>2, <1>3 DEF NameInv

LEMMA NameInvNext == TypeInv /\ NameInv /\ [Next]_vars => NameInv'
<1> SUFFICES ASSUME TypeInv, NameInv, [Next]_vars PROVE NameInv'
  OBVIOUS
<1>1. ASSUME NEW p \in Rank, NEW d \in Delay, Schedule(p, d) PROVE NameInv'
  <2>1. Insert(p, currentTs[p] + d, CallOf(p)) /\ UNCHANGED <<sent, received>>
    BY <1>1 DEF Schedule
  <2>2. /\ \A q \in Rank : \A e \in events'[q] :
              /\ e.uid < uid'[q]
              /\ e.act.kind = "call" => e.act.from = q /\ e.act.n = e.uid
              /\ e.act.kind = "packet" =>
                   \E m \in received : m.to = q /\ ActOf(m) = e.act
        /\ \A q \in Rank : \A e, f \in events'[q] : e.act = f.act => e = f
    BY <2>1, CallNamed
  <2> QED  BY <2>1, <2>2 DEF NameInv, ActOf
<1>2. ASSUME NEW p \in Rank, NEW q \in Rank, NEW t \in TxTimes,
             Transmit(p, q, t)
      PROVE  NameInv'
  <2>1. /\ Insert(p, currentTs[p] + t, CallOf(p)) /\ UNCHANGED received
        /\ sent' = sent \cup {NewPacket(p, q, t)} /\ t \in Nat
    BY <1>2, InputAssumption DEF Transmit, NewPacket
  <2>2. /\ \A r \in Rank : \A e \in events'[r] :
              /\ e.uid < uid'[r]
              /\ e.act.kind = "call" => e.act.from = r /\ e.act.n = e.uid
              /\ e.act.kind = "packet" =>
                   \E m \in received : m.to = r /\ ActOf(m) = e.act
        /\ \A r \in Rank : \A e, f \in events'[r] : e.act = f.act => e = f
    BY <2>1, CallNamed
  <2>3. /\ \A m \in sent : ActOf(m) # ActOf(NewPacket(p, q, t))
        /\ \A m \in sent' : m.n < Cardinality({k \in sent' : k.from = m.from})
    BY <2>1, NewPacketNumber
  <2>4. \A m, k \in sent' : ActOf(m) = ActOf(k) => m = k
    BY <2>1, <2>3 DEF NameInv
  <2> QED  BY <2>1, <2>2, <2>3, <2>4 DEF NameInv, ActOf
<1>3. CASE UNCHANGED <<events, uid, sent, received>>
  BY <1>3 DEF NameInv, ActOf
<1>4. ASSUME NEW p \in Rank, ProcessOneEvent(p) PROVE NameInv'
  <2>1. /\ \A q \in Rank : events'[q] \subseteq events[q]
        /\ UNCHANGED <<uid, sent, received>>
    BY <1>4 DEF ProcessOneEvent, TypeInv, TypeOK
  <2> QED  BY <2>1 DEF NameInv, ActOf
<1>5. ASSUME NEW p \in Rank, NEW m \in InFlight, ReceiveMessage(p, m)
      PROVE  NameInv'
  <2> DEFINE new == [ts |-> m.rx, uid |-> uid[p], act |-> ActOf(m)]
  <2>1. /\ Insert(p, m.rx, ActOf(m)) /\ received' = received \cup {m}
        /\ m.to = p /\ UNCHANGED sent
    BY <1>5 DEF ReceiveMessage
  <2>2. /\ events'[p] = events[p] \cup {new} /\ uid'[p] = uid[p] + 1
        /\ \A q \in Rank \ {p} : events'[q] = events[q] /\ uid'[q] = uid[q]
    BY <2>1, InsertEffect
  <2>3. new.uid = uid[p] /\ new.act = ActOf(m) /\ ActOf(m).kind = "packet"
    BY DEF ActOf
  <2>4. \A q \in Rank : uid[q] \in Nat /\ \A e \in events[q] : e.uid \in Nat
    BY DEF TypeInv, TypeOK, EventRec
  <2>5. \A e \in events[p] : e.act # ActOf(m)
    BY InFlightApart
  <2> HIDE DEF new
  <2>6. ASSUME NEW q \in Rank, NEW e \in events'[q]
        PROVE  /\ e.uid < uid'[q]
               /\ e.act.kind = "call" => e.act.from = q /\ e.act.n = e.uid
               /\ e.act.kind = "packet" =>
                    \E k \in received' : k.to = q /\ ActOf(k) = e.act
    <3>1. CASE e \in events[q]
      BY <2>1, <2>2, <2>4, <3>1 DEF NameInv
    <3>2. CASE q = p /\ e = new
      BY <2>1, <2>2, <2>3, <2>4, <3>2
    <3> QED  BY <2>2, <3>1, <3>2
  <2>7. ASSUME NEW q \in Rank, NEW e \in events'[q], NEW f \in events'[q],
               e.act = f.act
        PROVE  e = f
    BY <2>2, <2>3, <2>5, <2>7 DEF NameInv
  <2> QED  BY <2>1, <2>6, <2>7 DEF NameInv, ActOf
<1>6. ASSUME NEW p \in Rank PROVE
        /\ \A t : SetMaximumLookAhead(p, t) => UNCHANGED <<events, uid, sent, received>>
        /\ Stop(p) \/ Run(p) \/ EventReturns(p) \/ EndOfWindow(p) \/ NoMoreMessages(p)
             => UNCHANGED <<events, uid, sent, received>>
  BY DEF SetMaximumLookAhead, Stop, Run, EventReturns, EndOfWindow,
       NoMoreMessages, localVars
<1>7. Reduce \/ Gather \/ UNCHANGED vars => UNCHANGED <<events, uid, sent, received>>
  BY DEF Reduce, Gather, vars, localVars
<1> QED
  BY <1>1, <1>2, <1>3, <1>4, <1>5, <1>6, <1>7 DEF Next

LEMMA IInvInit == Init => IInv
<1> SUFFICES ASSUME Init PROVE IInv
  OBVIOUS
<1>1. StartInv /\ LookAheadInv /\ TimeInv /\ WindowIsSafe /\ NameInv
  BY DEF Init, StartInv, Starting, LookAheadInv, TimeInv, WindowIsSafe,
       InFlight, NameInv
<1>2. IsBase(0)
  BY ForeverAssumption DEF Init, IsBase, InFlight
<1>3. \E base \in Nat : IsBase(base)
  BY <1>2
<1> QED  BY <1>1, <1>3, TypeInvInit DEF IInv, WindowInv

LEMMA IInvNext == IInv /\ [Next]_vars => IInv'
  BY TypeInvNext, StartInvNext, LookAheadInvNext, MotionInvNext, NameInvNext
  DEF IInv, MotionInv

LEMMA IInvAlways == Spec => []IInv
<1> QED  BY IInvInit, IInvNext, PTL DEF Spec

\* What is in flight to a rank is never due before the time the rank has been
\* granted.
THEOREM WindowsAreSafe == Spec => []WindowIsSafe
<1>1. IInv => WindowIsSafe
  BY DEF IInv, WindowInv
<1> QED  BY <1>1, IInvAlways, PTL

\* Nothing a rank has yet to execute can reach another rank within its window.
THEOREM WindowsArePrivate == Spec => []WindowIsPrivate
<1>1. IInv => WindowIsPrivate
  <2> SUFFICES ASSUME IInv, NEW p \in Rank, NEW q \in Rank, Linked(q, p),
                      phase[q] \in {"loop", "event"}, ~stop[q],
                      NEW e \in events[q]
               PROVE  e.ts + delay[<<q, p>>] >= granted[p]
    BY DEF WindowIsPrivate
  <2>1. PICK base \in Nat : IsBase(base)
    BY DEF IInv, WindowInv
  <2>2. TypeInv /\ LookAheadInv /\ phase[p] # "script"
    BY DEF IInv, StartInv, Starting
  <2>3. base <= e.ts /\ granted[p] = base + lookAhead[p] /\ e.ts \in Nat
    BY <2>1, <2>2 DEF IsBase, TypeInv, TypeOK, EventRec
  <2>4. lookAhead[p] \in Nat /\ lookAhead[p] <= delay[<<q, p>>]
    BY <2>2, LinkedLookAhead
  <2>5. delay[<<q, p>>] \in Nat
    BY <2>2, LinkDelay
  <2> QED  BY <2>3, <2>4, <2>5
<1> QED  BY <1>1, IInvAlways, PTL
-----------------------------------------------------------------------------
\* The refinement: every step of the ranks is one of the parallel simulation,
\* or changes nothing it can see.

\* A rank issues a set of new activities for each rank.
LEMMA IssueStep ==
  ASSUME NEW p \in Rank, NEW new, UNCHANGED currentTs,
         \A q \in Rank : Pending(q)' = Pending(q) \cup new[q],
         \E q \in Rank : new[q] # {},
         \A q \in Rank : \A a \in new[q] :
           /\ a.due >= currentTs[p] /\ a.due >= currentTs[q]
           /\ \A b \in Pending(q) : b.act # a.act
  PROVE  Par!Issue
<1>1. \A q \in Rank : Pending(q)' \ Pending(q) = new[q]
  OBVIOUS
<1> HIDE DEF Pending
<1> QED  BY <1>1 DEF Par!Issue, Par!New

\* Nothing that is pending has the name of the next call of a rank.
LEMMA CallFresh ==
  ASSUME TypeInv, NameInv, NEW p \in Rank, NEW b \in Pending(p),
         NEW ts, Insert(p, ts, CallOf(p))
  PROVE  b.act # CallOf(p)
<1>1. \A e \in events[p] : e.act # CallOf(p)
  BY CallNamed
<1> QED  BY <1>1 DEF Pending, ActOf, CallOf

LEMMA PacketFresh ==
  ASSUME TypeInv, NameInv, NEW q \in Rank, NEW b \in Pending(q), NEW m,
         \A k \in sent : ActOf(k) # ActOf(m)
  PROVE  b.act # ActOf(m)
<1>1. ASSUME NEW e \in events[q], e.act = ActOf(m) PROVE FALSE
  <2>1. e.act.kind = "packet"
    BY <1>1 DEF ActOf
  <2>2. PICK k \in received : ActOf(k) = e.act
    BY <2>1 DEF NameInv
  <2> QED  BY <1>1, <2>2 DEF TypeInv, TypeOK
<1>2. ASSUME NEW k \in InFlight PROVE ActOf(k) # ActOf(m)
  BY DEF InFlight
<1> QED  BY <1>1, <1>2 DEF Pending

LEMMA PendingUnchanged ==
  ASSUME NEW p \in Rank, UNCHANGED <<events, sent, received>>
  PROVE  Pending(p)' = Pending(p)
  BY DEF Pending, InFlight, ActOf

\* How what is pending grows with an event, and with a packet.
LEMMA PendingGrows ==
  ASSUME NEW q \in Rank, NEW es, NEW ms,
         events'[q] = events[q] \cup es, InFlight' = InFlight \cup ms
  PROVE  Pending(q)' = Pending(q)
           \cup {[act |-> e.act, due |-> e.ts] : e \in es}
           \cup {[act |-> ActOf(m), due |-> m.rx] : m \in {k \in ms : k.to = q}}
<1>1. {[act |-> e.act, due |-> e.ts] : e \in events'[q]}
        = {[act |-> e.act, due |-> e.ts] : e \in events[q]}
          \cup {[act |-> e.act, due |-> e.ts] : e \in es}
  OBVIOUS
<1>2. {[act |-> ActOf(m), due |-> m.rx] : m \in {k \in InFlight' : k.to = q}}
        = {[act |-> ActOf(m), due |-> m.rx] : m \in {k \in InFlight : k.to = q}}
          \cup {[act |-> ActOf(m), due |-> m.rx] : m \in {k \in ms : k.to = q}}
  OBVIOUS
<1>3. Pending(q)' = {[act |-> e.act, due |-> e.ts] : e \in events'[q]} \cup
                    {[act |-> ActOf(m), due |-> m.rx] :
                       m \in {k \in InFlight' : k.to = q}}
  BY DEF Pending, ActOf
<1> QED  BY <1>1, <1>2, <1>3 DEF Pending

LEMMA ScheduleIssues ==
  ASSUME IInv, NEW p \in Rank, NEW d \in Delay, Schedule(p, d)
  PROVE  Par!Issue
<1> DEFINE call == [act |-> CallOf(p), due |-> currentTs[p] + d]
           new == [q \in Rank |-> IF q = p THEN {call} ELSE {}]
<1>1. /\ Insert(p, currentTs[p] + d, CallOf(p)) /\ TypeInv /\ NameInv
      /\ UNCHANGED <<currentTs, sent, received>>
  BY DEF Schedule, IInv
<1>2. /\ events'[p] = events[p] \cup {[ts |-> currentTs[p] + d, uid |-> uid[p],
                                       act |-> CallOf(p)]}
      /\ \A q \in Rank \ {p} : events'[q] = events[q]
  BY <1>1, InsertEffect
<1>3. InFlight' = InFlight
  BY <1>1 DEF InFlight
<1>4. ASSUME NEW q \in Rank PROVE Pending(q)' = Pending(q) \cup new[q]
  <2> DEFINE es == IF q = p THEN {[ts |-> currentTs[p] + d, uid |-> uid[p],
                                   act |-> CallOf(p)]} ELSE {}
  <2>1. events'[q] = events[q] \cup es /\ InFlight' = InFlight \cup {}
    BY <1>2, <1>3
  <2>2. {[act |-> e.act, due |-> e.ts] : e \in es} = new[q]
    <3>1. CASE q = p
      BY <3>1
    <3>2. CASE q # p
      <4>1. es = {} /\ new[q] = {}
        BY <3>2
      <4> HIDE DEF es, new
      <4> QED  BY <4>1
    <3> QED  BY <3>1, <3>2
  <2> HIDE DEF es, new
  <2>3. Pending(q)' = Pending(q)
          \cup {[act |-> e.act, due |-> e.ts] : e \in es}
          \cup {[act |-> ActOf(m), due |-> m.rx] : m \in {k \in {} : k.to = q}}
    BY <2>1, PendingGrows
  <2> QED  BY <2>2, <2>3
<1>5. currentTs[p] + d >= currentTs[p]
  BY <1>1, InputAssumption DEF TypeInv, TypeOK
<1>6. \A b \in Pending(p) : b.act # CallOf(p)
  BY <1>1, CallFresh
<1>7. \A q \in Rank : \A a \in new[q] :
        /\ a.due >= currentTs[p] /\ a.due >= currentTs[q]
        /\ \A b \in Pending(q) : b.act # a.act
  BY <1>5, <1>6
<1>8. new[p] # {}
  OBVIOUS
<1> HIDE DEF new
<1> QED  BY <1>1, <1>4, <1>7, <1>8, IssueStep
LEMMA TransmitIssues ==
  ASSUME IInv, NEW p \in Rank, NEW q \in Rank, NEW t \in TxTimes,
         Transmit(p, q, t)
  PROVE  Par!Issue
<1> DEFINE packet == NewPacket(p, q, t)
           ev == [ts |-> currentTs[p] + t, uid |-> uid[p], act |-> CallOf(p)]
           call == [act |-> CallOf(p), due |-> currentTs[p] + t]
           gets == [act |-> ActOf(packet), due |-> packet.rx]
           new == [r \in Rank |-> (IF r = p THEN {call} ELSE {})
                                  \cup (IF r = q THEN {gets} ELSE {})]
<1>1. /\ Insert(p, currentTs[p] + t, CallOf(p)) /\ TypeInv /\ NameInv
      /\ LookAheadInv /\ StartInv /\ TimeInv /\ WindowInv
      /\ UNCHANGED <<currentTs, received>> /\ sent' = sent \cup {packet}
      /\ t \in Nat /\ Linked(p, q) /\ phase[p] = "event"
  BY InputAssumption DEF Transmit, IInv, NewPacket
<1>2. /\ events'[p] = events[p] \cup {ev}
      /\ \A r \in Rank \ {p} : events'[r] = events[r]
  BY <1>1, InsertEffect
<1>3. /\ \A k \in sent : ActOf(k) # ActOf(packet)
      /\ packet.to = q
  BY <1>1, NewPacketNumber DEF NewPacket
<1>4. InFlight' = InFlight \cup {packet}
  BY <1>1, <1>3 DEF InFlight, TypeInv, TypeOK
<1>5. ASSUME NEW r \in Rank PROVE Pending(r)' = Pending(r) \cup new[r]
  <2> DEFINE es == IF r = p THEN {ev} ELSE {}
  <2> HIDE DEF packet, ev
  <2>1. events'[r] = events[r] \cup es
    BY <1>2
  <2>2. {[act |-> e.act, due |-> e.ts] : e \in es} = IF r = p THEN {call} ELSE {}
    <3>1. CASE r = p
      <4>1. ev.act = CallOf(p) /\ ev.ts = currentTs[p] + t
        BY DEF ev
      <4> QED  BY <3>1, <4>1
    <3>2. CASE r # p
      <4>1. es = {}
        BY <3>2
      <4> HIDE DEF es
      <4> QED  BY <3>2, <4>1
    <3> QED  BY <3>1, <3>2
  <2>3. {[act |-> ActOf(m), due |-> m.rx] : m \in {k \in {packet} : k.to = r}}
          = IF r = q THEN {gets} ELSE {}
    <3>1. CASE r = q
      BY <1>3, <3>1
    <3>2. CASE r # q
      <4>1. {k \in {packet} : k.to = r} = {}
        BY <1>3, <3>2
      <4> QED  BY <3>2, <4>1
    <3> QED  BY <3>1, <3>2
  <2> HIDE DEF es, gets, call
  <2>4. Pending(r)' = Pending(r)
          \cup {[act |-> e.act, due |-> e.ts] : e \in es}
          \cup {[act |-> ActOf(m), due |-> m.rx] : m \in {k \in {packet} : k.to = r}}
    BY <1>4, <2>1, PendingGrows
  <2> QED  BY <2>2, <2>3, <2>4
<1>6. currentTs[p] + t >= currentTs[p]
  BY <1>1 DEF TypeInv, TypeOK
<1>7. packet.rx >= currentTs[p] /\ packet.rx >= currentTs[q]
  <2>1. PICK base \in Nat : IsBase(base)
    BY <1>1 DEF WindowInv
  <2>2. phase[q] # "script" /\ currentTs[q] <= granted[q]
    BY <1>1 DEF StartInv, Starting, TimeInv
  <2>3. currentTs[p] <= packet.rx /\ granted[q] <= packet.rx
    BY <1>1, <2>1, <2>2, NewPacketWindow
  <2>4. packet.rx \in Nat
    BY <1>1, NewPacketType
  <2> QED  BY <1>1, <2>2, <2>3, <2>4 DEF TypeInv, TypeOK
<1>8. \A b \in Pending(p) : b.act # CallOf(p)
  BY <1>1, CallFresh
<1>9. \A b \in Pending(q) : b.act # ActOf(packet)
  BY <1>1, <1>3, PacketFresh
<1>10. \A r \in Rank : \A a \in new[r] :
        /\ a.due >= currentTs[p] /\ a.due >= currentTs[r]
        /\ \A b \in Pending(r) : b.act # a.act
  <2> HIDE DEF packet
  <2> QED  BY <1>6, <1>7, <1>8, <1>9
<1>11. new[p] # {}
  OBVIOUS
<1> HIDE DEF new
<1> QED  BY <1>1, <1>5, <1>10, <1>11, IssueStep

\* A packet that is received was pending already.
LEMMA ReceiveStutters ==
  ASSUME IInv, NEW p \in Rank, NEW m \in InFlight, ReceiveMessage(p, m),
         NEW q \in Rank
  PROVE  Pending(q)' = Pending(q)
<1> DEFINE ev == [ts |-> m.rx, uid |-> uid[p], act |-> ActOf(m)]
<1>1. /\ Insert(p, m.rx, ActOf(m)) /\ TypeInv /\ m.to = p
      /\ received' = received \cup {m} /\ UNCHANGED sent
  BY DEF ReceiveMessage, IInv
<1>2. /\ events'[p] = events[p] \cup {ev}
      /\ \A r \in Rank \ {p} : events'[r] = events[r]
  BY <1>1, InsertEffect
<1>3. InFlight' = InFlight \ {m}
  BY <1>1 DEF InFlight
<1>4. Pending(q)' = {[act |-> e.act, due |-> e.ts] : e \in events'[q]} \cup
                    {[act |-> ActOf(k), due |-> k.rx] :
                       k \in {k \in InFlight' : k.to = q}}
  BY DEF Pending, ActOf
<1>5. ev.act = ActOf(m) /\ ev.ts = m.rx
  OBVIOUS
<1> HIDE DEF ev
<1>6. CASE q = p
  BY <1>1, <1>2, <1>3, <1>4, <1>5, <1>6 DEF Pending
<1>7. CASE q # p
  <2>1. {k \in InFlight' : k.to = q} = {k \in InFlight : k.to = q}
    BY <1>1, <1>3, <1>7
  <2> QED  BY <1>2, <1>4, <1>7, <2>1 DEF Pending
<1> QED  BY <1>6, <1>7

LEMMA ProcessPerforms ==
  ASSUME IInv, NEW p \in Rank, ProcessOneEvent(p)
  PROVE  Par!Perform
<1>1. PICK e \in events[p] :
        /\ IsFirst(e, events[p]) /\ e.ts <= granted[p]
        /\ currentTs' = [currentTs EXCEPT ![p] = e.ts]
        /\ events' = [events EXCEPT ![p] = @ \ {e}]
        /\ UNCHANGED <<sent, received>>
  BY DEF ProcessOneEvent
<1> DEFINE a == [act |-> e.act, due |-> e.ts]
<1>2. /\ TypeInv /\ NameInv /\ TimeInv /\ WindowIsSafe /\ e.ts \in Nat
      /\ granted[p] \in Int /\ \A f \in events[p] : f.ts \in Nat
      /\ \A m \in InFlight : m.rx \in Nat
  BY DEF IInv, WindowInv, TypeInv, TypeOK, EventRec, InFlight, Packet
<1>3. a \in Pending(p) /\ a.due = e.ts /\ a.act = e.act
  BY DEF Pending
<1>4. a.due >= currentTs[p]
  BY <1>2, <1>3 DEF TimeInv, TypeInv, TypeOK
<1>5. ASSUME NEW b \in Pending(p) PROVE a.due <= b.due
  <2>1. ASSUME NEW f \in events[p] PROVE e.ts <= f.ts
    BY <1>1, <1>2 DEF IsFirst, Before
  <2>2. ASSUME NEW m \in InFlight, m.to = p PROVE e.ts <= m.rx
    <3>1. granted[p] <= m.rx
      BY <1>2, <2>2 DEF WindowIsSafe
    <3> QED  BY <1>1, <1>2, <3>1
  <2> QED  BY <1>3, <2>1, <2>2 DEF Pending
<1>6. Pending(p)' = Pending(p) \ {a}
  <2>1. events'[p] = events[p] \ {e} /\ InFlight' = InFlight
    BY <1>1, <1>2 DEF TypeInv, TypeOK, InFlight
  <2>2. Pending(p)' = {[act |-> f.act, due |-> f.ts] : f \in events[p] \ {e}} \cup
                      {[act |-> ActOf(m), due |-> m.rx] :
                         m \in {k \in InFlight : k.to = p}}
    BY <2>1 DEF Pending, ActOf
  <2>3. \A f \in events[p] : f.act = e.act => f = e
    BY <1>2 DEF NameInv
  <2>4. \A m \in InFlight : e.act # ActOf(m)
    BY <1>2, InFlightApart
  <2> QED  BY <1>3, <2>2, <2>3, <2>4 DEF Pending
<1>7. \A q \in Rank \ {p} : Pending(q)' = Pending(q)
  <2>1. \A q \in Rank \ {p} : events'[q] = events[q] /\ InFlight' = InFlight
    BY <1>1, <1>2 DEF TypeInv, TypeOK, InFlight
  <2> QED  BY <2>1 DEF Pending, ActOf
<1>8. [q \in Rank |-> Pending(q)]'
        = [[q \in Rank |-> Pending(q)] EXCEPT ![p] = @ \ {a}]
  <2> HIDE DEF Pending, a
  <2> QED  BY <1>6, <1>7
<1> HIDE DEF Pending, a
<1>9. /\ [q \in Rank |-> Pending(q)][p] = Pending(p)
      /\ currentTs' = [currentTs EXCEPT ![p] = a.due]
  BY <1>1, <1>3
<1> QED  BY <1>3, <1>4, <1>5, <1>8, <1>9 DEF Par!Perform

\* The ranks together are a parallel simulation: whatever the topology, each
\* executes all it has to in the order of time.
THEOREM Implementation == Spec => ImplementsParallel
<1>1. Init => Par!ParInit
  <2> SUFFICES ASSUME Init PROVE Par!ParInit
    OBVIOUS
  <2>1. \A p \in Rank : Pending(p) = {}
    BY DEF Init, Pending, InFlight
  <2> HIDE DEF Pending
  <2> QED  BY <2>1 DEF Init, Par!ParInit
<1>2. IInv /\ [Next]_vars => [Par!ParNext]_Par!parVars
  <2> SUFFICES ASSUME IInv, [Next]_vars PROVE [Par!ParNext]_Par!parVars
    OBVIOUS
  <2>1. ASSUME NEW p \in Rank, NEW d \in Delay, Schedule(p, d) PROVE Par!ParNext
    BY <2>1, ScheduleIssues DEF Par!ParNext
  <2>2. ASSUME NEW p \in Rank, NEW q \in Rank, NEW t \in TxTimes, Transmit(p, q, t)
        PROVE  Par!ParNext
    BY <2>2, TransmitIssues DEF Par!ParNext
  <2>3. ASSUME NEW p \in Rank, ProcessOneEvent(p) PROVE Par!ParNext
    BY <2>3, ProcessPerforms DEF Par!ParNext
  <2>4. ASSUME NEW p \in Rank, NEW m \in InFlight, ReceiveMessage(p, m)
        PROVE  UNCHANGED Par!parVars
    <3>1. UNCHANGED currentTs
      BY <2>4 DEF ReceiveMessage
    <3>2. \A q \in Rank : Pending(q)' = Pending(q)
      BY <2>4, ReceiveStutters
    <3> HIDE DEF Pending
    <3> QED  BY <3>1, <3>2 DEF Par!parVars
  <2>5. CASE UNCHANGED <<events, currentTs, sent, received>>
    <3>1. \A q \in Rank : Pending(q)' = Pending(q)
      BY <2>5, PendingUnchanged
    <3> HIDE DEF Pending
    <3> QED  BY <2>5, <3>1 DEF Par!parVars
  <2>6. ASSUME NEW p \in Rank PROVE
          /\ \A t : SetMaximumLookAhead(p, t)
                => UNCHANGED <<events, currentTs, sent, received>>
          /\ Stop(p) \/ Run(p) \/ EventReturns(p) \/ EndOfWindow(p) \/ NoMoreMessages(p)
                => UNCHANGED <<events, currentTs, sent, received>>
    BY DEF SetMaximumLookAhead, Stop, Run, EventReturns, EndOfWindow,
         NoMoreMessages, localVars
  <2>7. Reduce \/ Gather \/ UNCHANGED vars
          => UNCHANGED <<events, currentTs, sent, received>>
    BY DEF Reduce, Gather, vars, localVars
  <2> QED
    BY <2>1, <2>2, <2>3, <2>4, <2>5, <2>6, <2>7 DEF Next
<1> QED  BY <1>1, <1>2, IInvAlways, PTL DEF Spec, ImplementsParallel, Par!ParSpec
=============================================================================
