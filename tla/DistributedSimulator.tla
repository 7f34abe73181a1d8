------------------------- MODULE DistributedSimulator ------------------------
(***************************************************************************)
(* src/mpi: DistributedSimulatorImpl with GrantedTimeWindowMpiInterface    *)
(* and the remote point-to-point links whose packets it carries.           *)
(*                                                                         *)
(* Every rank executes its events up to the time granted to it, then takes *)
(* what messages have arrived and exchanges counts and next event times    *)
(* with all other ranks (MPI_Allgather).  Messages are sent without        *)
(* waiting (MPI_Isend) and polled for (MPI_Testany), so that one may be in *)
(* flight while ranks gather.  The script schedules events before Run; the *)
(* code of an event schedules events, transmits packets or stops its rank. *)
(*                                                                         *)
(* A packet is a record [from, n, to, rx], n its number among those its    *)
(* rank sent.  m_txCount of a rank is the number of packets it sent,       *)
(* m_rxCount the number it received: the sums that the ranks compare are   *)
(* the sizes of the sets sent and received.  A link stands for all the     *)
(* channels between two ranks, with the smallest of their delays.  Removal *)
(* and expiry of events are those of DefaultSimulator and left out here.   *)
(***************************************************************************)
EXTENDS EventKey, FiniteSets

CONSTANTS
  Rank,        \* MPI ranks
  Topologies,  \* the link delays a script may choose: functions from pairs
  LookAheads,  \* arguments of SetMaximumLookAhead
  Delay,       \* delays of local events
  TxTimes,     \* transmission times of packets
  Forever,     \* GetMaximumSimulationTime
  MaxUid,      \* bound, per rank: calls schedule below this uid only
  MaxPackets   \* bound: packets sent

ASSUME ForeverAssumption == Forever \in Nat \ {0}

ASSUME TopologyAssumption ==
  \A net \in Topologies :
    /\ DOMAIN net \subseteq Rank \X Rank
    /\ \A link \in DOMAIN net :
         /\ net[link] \in 1..(Forever - 1)
         /\ <<link[2], link[1]>> \in DOMAIN net
         /\ net[<<link[2], link[1]>>] = net[link]

ASSUME InputAssumption == /\ LookAheads \subseteq Int
                          /\ Delay \subseteq Nat
                          /\ TxTimes \subseteq Nat

ASSUME BoundAssumption == MaxUid \in [Rank -> Nat] /\ MaxPackets \in Nat

VARIABLES
  delay,      \* the topology: the delay of the link from a rank to another
  events,     \* per rank, m_events: records [ts, uid, act]
  uid,        \* per rank, m_uid
  currentTs,  \* per rank, m_currentTs
  stop,       \* per rank, m_stop
  lookAhead,  \* per rank, m_lookAhead; Unset before it is given a value
  granted,    \* per rank, m_grantedTime
  phase,      \* per rank, where Run is
  sent,       \* packets handed to MPI_Isend
  received    \* packets that MPI_Testany returned

localVars == <<events, uid, currentTs>>
windowVars == <<lookAhead, granted>>
vars == <<delay, events, uid, currentTs, stop, lookAhead, granted, phase,
          sent, received>>

FirstUid == 4
Unset == -1

\* What an event does: a call of its own rank, or the reception of a packet.
Act == [kind : {"call", "packet"}, from : Rank, n : Nat]
EventRec == [ts : Nat, uid : Nat, act : Act]
Packet == [from : Rank, n : Nat, to : Rank, rx : Nat]
Phase == {"script", "reduce", "loop", "event", "receive", "gather", "done"}

CallOf(p) == [kind |-> "call", from |-> p, n |-> uid[p]]
ActOf(m) == [kind |-> "packet", from |-> m.from, n |-> m.n]

InFlight == sent \ received

Linked(p, q) == <<p, q>> \in DOMAIN delay

\* IsLocalFinished
Finished(p) == events[p] = {} \/ stop[p]

\* Where the script and the code of events call the simulator.
Calling(p) == phase[p] \in {"script", "event"} /\ uid[p] < MaxUid[p]

\* m_events->Insert, m_uid++.
Insert(p, ts, act) ==
  /\ events' = [events EXCEPT ![p] = @ \cup {[ts |-> ts, uid |-> uid[p],
                                              act |-> act]}]
  /\ uid' = [uid EXCEPT ![p] = @ + 1]

Init ==
  /\ delay \in Topologies
  /\ events = [p \in Rank |-> {}]
  /\ uid = [p \in Rank |-> FirstUid]
  /\ currentTs = [p \in Rank |-> 0]
  /\ stop = [p \in Rank |-> FALSE]
  /\ lookAhead = [p \in Rank |-> Unset]
  /\ granted = [p \in Rank |-> 0]
  /\ phase = [p \in Rank |-> "script"]
  /\ sent = {}
  /\ received = {}

\* Schedule, ScheduleNow with delay 0, and Stop (delay), which schedules.
Schedule(p, d) ==
  /\ Calling(p)
  /\ Insert(p, currentTs[p] + d, CallOf(p))
  /\ UNCHANGED <<delay, currentTs, stop, windowVars, phase, sent, received>>

\* Wrong: the packet is due when it leaves the wire at the sender.
TransmitEarly(p, q, txTime) ==
  /\ phase[p] = "event" /\ Calling(p) /\ Linked(p, q)
  /\ Cardinality(sent) < MaxPackets
  /\ Insert(p, currentTs[p] + txTime, CallOf(p))
  /\ sent' = sent \cup
       {[from |-> p, n |-> Cardinality({m \in sent : m.from = p}),
         to |-> q, rx |-> currentTs[p] + txTime]}
  /\ UNCHANGED <<delay, currentTs, stop, windowVars, phase, received>>

\* PointToPointNetDevice::TransmitStart on a remote channel: the end of the
\* transmission is scheduled here, the packet is due at the other rank.
Transmit(p, q, txTime) ==
  /\ phase[p] = "event" /\ Calling(p) /\ Linked(p, q)
  /\ Cardinality(sent) < MaxPackets
  /\ Insert(p, currentTs[p] + txTime, CallOf(p))
  /\ sent' = sent \cup
       {[from |-> p, n |-> Cardinality({m \in sent : m.from = p}),
         to |-> q, rx |-> currentTs[p] + txTime + delay[<<p, q>>]]}
  /\ UNCHANGED <<delay, currentTs, stop, windowVars, phase, received>>

Stop(p) ==
  /\ phase[p] = "event"
  /\ stop' = [stop EXCEPT ![p] = TRUE]
  /\ UNCHANGED <<delay, localVars, windowVars, phase, sent, received>>

SetMaximumLookAhead(p, time) ==
  /\ phase[p] = "script"
  /\ time > 0
  /\ lookAhead' = [lookAhead EXCEPT ![p] = time]
  /\ UNCHANGED <<delay, localVars, stop, granted, phase, sent, received>>

\* What a rank starts from, and the delays of its links.
OwnBounds(p) ==
  {IF lookAhead[p] = Unset THEN Forever ELSE lookAhead[p]}
  \cup {delay[<<p, q>>] : q \in {r \in Rank : Linked(p, r)}}

\* Wrong: the longest link decides.
LongestLink(p) ==
  /\ phase[p] = "script"
  /\ \E bound \in OwnBounds(p) \ {Forever} :
       /\ \A other \in OwnBounds(p) \ {Forever} : other <= bound
       /\ lookAhead' = [lookAhead EXCEPT ![p] = bound]
       /\ granted' = [granted EXCEPT ![p] = bound]
  /\ phase' = [phase EXCEPT ![p] = "reduce"]
  /\ UNCHANGED <<delay, localVars, stop, sent, received>>

\* Run, as far as MPI_Allreduce in CalculateLookAhead.
Run(p) ==
  /\ phase[p] = "script"
  /\ \E bound \in OwnBounds(p) :
       /\ \A other \in OwnBounds(p) : bound <= other
       /\ lookAhead' = [lookAhead EXCEPT ![p] = bound]
       /\ granted' = [granted EXCEPT ![p] = bound]
  /\ phase' = [phase EXCEPT ![p] = "reduce"]
  /\ UNCHANGED <<delay, localVars, stop, sent, received>>

\* MPI_Allreduce and what every rank does with its result: one without links
\* takes the largest look-ahead of the others, if there is one.
Reduce ==
  /\ \A p \in Rank : phase[p] = "reduce"
  /\ LET offers == {lookAhead[p] : p \in Rank} \ {Forever}
         Agreed(own, largest) == IF own = Forever THEN largest ELSE own
     IN \E largest \in offers \cup {Forever} :
          /\ largest = Forever => offers = {}
          /\ \A other \in offers : other <= largest
          /\ lookAhead' = [p \in Rank |-> Agreed(lookAhead[p], largest)]
          /\ granted' = [p \in Rank |-> Agreed(granted[p], largest)]
  /\ stop' = [p \in Rank |-> FALSE]
  /\ phase' = [p \in Rank |-> "loop"]
  /\ UNCHANGED <<delay, localVars, sent, received>>

\* The next event is executed if it is within the time window.
ProcessOneEvent(p) ==
  /\ phase[p] = "loop" /\ ~Finished(p)
  /\ \E e \in events[p] :
       /\ IsFirst(e, events[p])
       /\ e.ts <= granted[p]
       /\ currentTs' = [currentTs EXCEPT ![p] = e.ts]
       /\ events' = [events EXCEPT ![p] = @ \ {e}]
  /\ phase' = [phase EXCEPT ![p] = "event"]
  /\ UNCHANGED <<delay, uid, stop, windowVars, sent, received>>

EventReturns(p) ==
  /\ phase[p] = "event"
  /\ phase' = [phase EXCEPT ![p] = "loop"]
  /\ UNCHANGED <<delay, localVars, stop, windowVars, sent, received>>

\* The next event is beyond the time window, or there is none.
EndOfWindow(p) ==
  /\ phase[p] = "loop"
  /\ Finished(p) \/ \A e \in events[p] : e.ts > granted[p]
  /\ phase' = [phase EXCEPT ![p] = "receive"]
  /\ UNCHANGED <<delay, localVars, stop, windowVars, sent, received>>

\* One turn of ReceiveMessages: MPI_Testany returns one of the packets that
\* have arrived, whichever it is, and its reception is scheduled.
ReceiveMessage(p, m) ==
  /\ phase[p] = "receive"
  /\ m \in InFlight /\ m.to = p
  /\ Insert(p, m.rx, ActOf(m))
  /\ received' = received \cup {m}
  /\ UNCHANGED <<delay, currentTs, stop, windowVars, phase, sent>>

\* MPI_Testany returns no packet: none has arrived yet, be some in flight.
NoMoreMessages(p) ==
  /\ phase[p] = "receive"
  /\ phase' = [phase EXCEPT ![p] = "gather"]
  /\ UNCHANGED <<delay, localVars, stop, windowVars, sent, received>>

\* GetSmallestTime of all ranks: Forever for one that is finished.
NextTimes == {Forever} \cup
  UNION {{e.ts : e \in events[p]} : p \in {q \in Rank : ~Finished(q)}}

\* Wrong: packets in flight do not hold the window back.
GatherUncounted ==
  /\ \A p \in Rank : phase[p] = "gather"
  /\ \E smallest \in NextTimes :
       /\ \A t \in NextTimes : smallest <= t
       /\ granted' = [p \in Rank |-> IF lookAhead[p] = Forever THEN Forever
                                     ELSE smallest + lookAhead[p]]
  /\ phase' = [p \in Rank |-> IF \A q \in Rank : Finished(q)
                              THEN "done" ELSE "loop"]
  /\ UNCHANGED <<delay, localVars, stop, lookAhead, sent, received>>

\* Wrong: a rank leaves Run when it is finished itself.
GatherAlone ==
  /\ \A p \in Rank : phase[p] = "gather"
  /\ Cardinality(received) = Cardinality(sent)
  /\ \E smallest \in NextTimes :
       /\ \A t \in NextTimes : smallest <= t
       /\ granted' = [p \in Rank |-> IF lookAhead[p] = Forever THEN Forever
                                     ELSE smallest + lookAhead[p]]
  /\ phase' = [p \in Rank |-> IF Finished(p) THEN "done" ELSE "loop"]
  /\ UNCHANGED <<delay, localVars, stop, lookAhead, sent, received>>

\* MPI_Allgather, and what every rank does with the messages of all: the
\* window moves if nothing is in flight, and Run returns if all are finished.
Gather ==
  /\ \A p \in Rank : phase[p] = "gather"
  /\ \/ /\ Cardinality(received) = Cardinality(sent)
        /\ \E smallest \in NextTimes :
             /\ \A t \in NextTimes : smallest <= t
             /\ granted' = [p \in Rank |-> IF lookAhead[p] = Forever
                                           THEN Forever
                                           ELSE smallest + lookAhead[p]]
     \/ /\ Cardinality(received) # Cardinality(sent)
        /\ UNCHANGED granted
  /\ phase' = [p \in Rank |-> IF \A q \in Rank : Finished(q)
                              THEN "done" ELSE "loop"]
  /\ UNCHANGED <<delay, localVars, stop, lookAhead, sent, received>>

Next ==
  \/ Reduce
  \/ Gather
  \/ \E p \in Rank :
       \/ \E d \in Delay : Schedule(p, d)
       \/ \E q \in Rank, t \in TxTimes : Transmit(p, q, t)
       \/ \E t \in LookAheads : SetMaximumLookAhead(p, t)
       \/ Stop(p)
       \/ Run(p)
       \/ ProcessOneEvent(p)
       \/ EventReturns(p)
       \/ EndOfWindow(p)
       \/ \E m \in InFlight : ReceiveMessage(p, m)
       \/ NoMoreMessages(p)

\* What Run does of itself on a rank: the code of events returns.
Progress(p) == ProcessOneEvent(p) \/ EventReturns(p) \/ EndOfWindow(p)
               \/ NoMoreMessages(p)

\* MPI promises that a message that was sent is returned if its receiver
\* tests for it again and again.
Fairness ==
  /\ WF_vars(Reduce) /\ WF_vars(Gather)
  /\ \A p \in Rank :
       /\ WF_vars(Progress(p))
       /\ SF_vars(\E m \in InFlight : ReceiveMessage(p, m))

Spec == Init /\ [][Next]_vars /\ Fairness
-----------------------------------------------------------------------------
TypeOK ==
  /\ delay \in Topologies
  /\ events \in [Rank -> SUBSET EventRec]
  /\ uid \in [Rank -> Nat]
  /\ currentTs \in [Rank -> Nat]
  /\ stop \in [Rank -> BOOLEAN]
  /\ lookAhead \in [Rank -> Int]
  /\ granted \in [Rank -> Int]
  /\ phase \in [Rank -> Phase]
  /\ sent \subseteq Packet
  /\ received \subseteq sent

\* A rank is never granted a time at which something sent to it is in flight
\* and due before: what it executes cannot be changed by a late message.
WindowIsSafe == \A m \in InFlight : m.rx >= granted[m.to]

\* No rank enters its window while another may still send it something due
\* inside it: within the window each rank runs alone (granted - lookAhead is
\* the smallest next event time the ranks agreed on).
WindowIsPrivate ==
  \A p, q \in Rank :
    Linked(q, p) /\ phase[q] \in {"loop", "event"} /\ ~stop[q] =>
      \A e \in events[q] : e.ts + delay[<<q, p>>] >= granted[p]

\* Ranks that have returned from Run without anybody calling Stop have
\* received all that was sent to them: "make a consistency test to check that
\* we didn't lose any events along the way".
NoPacketLost ==
  (\A p \in Rank : phase[p] = "done" /\ ~stop[p]) => InFlight = {}

\* What a rank has to execute, packets on their way to it included.
Pending(p) == {[act |-> e.act, due |-> e.ts] : e \in events[p]} \cup
              {[act |-> ActOf(m), due |-> m.rx] : m \in {k \in InFlight : k.to = p}}

\* The ranks together implement a parallel simulation: each executes what it
\* has to in the order of time, packets in flight included.
Par == INSTANCE ParallelSimulation WITH
         now <- currentTs,
         pending <- [p \in Rank |-> Pending(p)]

ImplementsParallel == Par!ParSpec

\* Once the ranks run, Run returns on all of them, stopped or not: no rank
\* waits forever in a collective the others have left.
RunReturns ==
  (\A p \in Rank : phase[p] # "script") ~> (\A p \in Rank : phase[p] = "done")
=============================================================================
