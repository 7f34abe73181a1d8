------------------------- MODULE NullMessageSimulator ------------------------
(***************************************************************************)
(* src/mpi: NullMessageSimulatorImpl with NullMessageMpiInterface and the  *)
(* bundles of channels between two ranks.                                  *)
(*                                                                         *)
(* Ranks talk to their neighbours only.  Every message to a neighbour, be  *)
(* it a packet or a null message, carries a guarantee: no packet will come *)
(* after it that is due before that time.  A rank executes events up to    *)
(* the smallest guarantee it has; beyond, it waits for a message.  So that *)
(* nobody waits for ever, each rank schedules, per neighbour, an event     *)
(* that sends a null message; a packet replaces the next null message.     *)
(*                                                                         *)
(* Messages between two ranks keep their order (one MPI_Irecv at a time is *)
(* posted per neighbour), those of different neighbours do not.  As in the *)
(* scripts of src/mpi/examples, the script schedules Stop on every rank.   *)
(* A device that transmits is busy until the event TransmitComplete, whose *)
(* code may transmit what was queued meanwhile.  An assertion that fails   *)
(* is a property that does not hold; the model does not stop there.        *)
(***************************************************************************)
EXTENDS EventKey, Sequences, FiniteSetsExt

CONSTANTS
  Rank,      \* MPI ranks, an interval of the naturals from 0
  Topologies, \* what a script may build: sets of remote channels, records
              \* [id, ends, delay]
  Tune,      \* m_schedulerTune, in percent
  StopTime,  \* when the script stops the simulation
  Delay,     \* delays of local events
  TxTimes,   \* transmission times of packets
  Forever,   \* GetMaximumSimulationTime
  MaxCalls    \* bound, per rank: what the script and the events call

ASSUME ChannelAssumption ==
  /\ IsFiniteSet(Rank) /\ Rank = 0..(Cardinality(Rank) - 1)
  /\ \A c \in UNION Topologies :
       /\ c.ends \subseteq Rank /\ Cardinality(c.ends) = 2
       /\ c.delay \in 1..(Forever - 1) /\ c.id \in Nat
ASSUME InputAssumption == /\ Tune \in 1..100 /\ Delay \subseteq Nat
                          /\ TxTimes \subseteq Nat
                          /\ Forever \in Nat /\ StopTime \in 0..Forever

VARIABLES
  channels,   \* the remote channels of the script's topology
  events,     \* per rank, m_events: records [ts, uid, act, live]
  uid,        \* per rank, m_uid
  currentTs,  \* per rank, m_currentTs
  stop,       \* per rank, m_stop
  safe,       \* per rank, m_safeTime
  guarantee,  \* per rank and neighbour, m_guaranteeTime of the bundle
  nullEvent,  \* per rank and neighbour, the uid of m_nullEventId
  busy,       \* per rank, channels whose device there is transmitting
  chan,       \* per sender and receiver, messages on their way
  phase,      \* per rank, where Run is
  running,    \* per rank, what the event being executed does
  calls       \* per rank, number of events scheduled by callers

localVars == <<events, uid, currentTs, running, phase>>
timeVars == <<safe, guarantee>>
vars == <<channels, events, uid, currentTs, stop, safe, guarantee, nullEvent,
          busy, chan, phase, running, calls>>

FirstUid == 4

ChannelsOf(p, q) == {c \in channels : c.ends = {p, q}}
Neighbours(p) == {q \in Rank : q # p /\ ChannelsOf(p, q) # {}}
\* RemoteChannelBundle::AddChannel: the shortest of the channels.
BundleDelay(p, q) == Min({c.delay : c \in ChannelsOf(p, q)})

\* Wrong: the next null message comes after what the last one promised.
IntervalTooLong(p, q) == BundleDelay(p, q) + 1

\* The interval of null messages, rounded by Time (double).
NullInterval(p, q) == (Tune * BundleDelay(p, q) + 50) \div 100

\* Acts of events: a call of the application, the end of a transmission on a
\* channel, a null message to a neighbour, the reception of a packet, Stop.
Call(p, n) == [kind |-> "call", from |-> p, n |-> n, on |-> 0]
Complete(p, n, c) == [kind |-> "complete", from |-> p, n |-> n, on |-> c.id]
Null(p, n, q) == [kind |-> "null", from |-> p, n |-> n, on |-> q]
StopCall(p) == [kind |-> "stop", from |-> p, n |-> FirstUid, on |-> 0]
Reception(p, n) == [kind |-> "packet", from |-> p, n |-> n, on |-> 0]
NoAct == [kind |-> "none", from |-> 0, n |-> 0, on |-> 0]

Event(ts, u, act) == [ts |-> ts, uid |-> u, act |-> act, live |-> TRUE]

\* Next: of a set of events, as NullMessageSimulatorImpl reads it.
NextOf(queue) == Min({e.ts : e \in queue})

\* EventImpl::Cancel on the event of a uid, which stays in the queue.
Cancelled(queue, u) ==
  {IF e.uid = u THEN [e EXCEPT !.live = FALSE] ELSE e : e \in queue}

Init ==
  /\ channels \in Topologies
  /\ events = [p \in Rank |-> {Event(StopTime, FirstUid, StopCall(p))}]
  /\ uid = [p \in Rank |-> FirstUid + 1]
  /\ currentTs = [p \in Rank |-> 0]
  /\ stop = [p \in Rank |-> FALSE]
  /\ safe = [p \in Rank |-> 0]
  /\ guarantee = [p \in Rank |-> [q \in Neighbours(p) |-> 0]]
  /\ nullEvent = [p \in Rank |-> [q \in Neighbours(p) |-> 0]]
  /\ busy = [p \in Rank |-> {}]
  /\ chan = [p \in Rank |-> [q \in Neighbours(p) |-> <<>>]]
  /\ phase = [p \in Rank |-> "script"]
  /\ running = [p \in Rank |-> NoAct]
  /\ calls = [p \in Rank |-> 0]

\* The script before Run, and the code of an event that was not cancelled.
Calling(p) == /\ \/ phase[p] = "script"
                 \/ /\ phase[p] = "event"
                    /\ running[p].kind \in {"call", "complete", "packet"}
              /\ calls[p] < MaxCalls[p]

\* Schedule, and ScheduleNow with delay 0.
Schedule(p, d) ==
  /\ Calling(p)
  /\ events' = [events EXCEPT ![p] = @ \cup
                  {Event(currentTs[p] + d, uid[p], Call(p, uid[p]))}]
  /\ uid' = [uid EXCEPT ![p] = @ + 1]
  /\ calls' = [calls EXCEPT ![p] = @ + 1]
  /\ UNCHANGED <<channels, currentTs, stop, timeVars, nullEvent, busy, chan,
                 phase, running>>

\* Run, as far as the loop: a null message to every neighbour, and the event
\* for the next one, in the order of the ranks.
Run(p) ==
  /\ phase[p] = "script"
  /\ LET Turn(q) == uid[p] + Cardinality({r \in Neighbours(p) : r < q})
         First(q) == [rx |-> 0, guarantee |-> BundleDelay(p, q), n |-> 0]
     IN /\ chan' = [chan EXCEPT ![p] =
                      [q \in Neighbours(p) |-> Append(@[q], First(q))]]
        /\ events' = [events EXCEPT ![p] = @ \cup
                        {Event(currentTs[p] + NullInterval(p, q), Turn(q),
                               Null(p, Turn(q), q)) : q \in Neighbours(p)}]
        /\ nullEvent' = [nullEvent EXCEPT ![p] =
                           [q \in Neighbours(p) |-> Turn(q)]]
  /\ uid' = [uid EXCEPT ![p] = @ + Cardinality(Neighbours(p))]
  /\ stop' = [stop EXCEPT ![p] = FALSE]
  /\ phase' = [phase EXCEPT ![p] = "loop"]
  /\ UNCHANGED <<channels, currentTs, timeVars, busy, running, calls>>

\* Wrong: the guarantee forgets what may still arrive at this rank.
NextOnly(p, q, queue) == NextOf(queue) + BundleDelay(p, q)

\* CalculateGuaranteeTime: what the rank can promise a neighbour.
GuaranteeTime(p, q, queue) ==
  Min({NextOf(queue), safe[p]}) + BundleDelay(p, q)

\* Wrong: the next null message is not put off by a packet.
TransmitUncancelled(p, c, txTime) ==
  /\ phase[p] = "event" /\ Calling(p)
  /\ p \in c.ends /\ c.id \notin busy[p]
  /\ \E q \in c.ends \ {p} :
       LET now == currentTs[p]
           queue == events[p] \cup
                      {Event(now + txTime, uid[p], Complete(p, uid[p], c))}
       IN /\ chan' = [chan EXCEPT ![p][q] = Append(@,
                        [rx |-> now + txTime + c.delay,
                         guarantee |-> GuaranteeTime(p, q, queue),
                         n |-> uid[p]])]
          /\ events' = [events EXCEPT ![p] = Cancelled(queue, nullEvent[p][q])]
  /\ uid' = [uid EXCEPT ![p] = @ + 1]
  /\ busy' = [busy EXCEPT ![p] = @ \cup {c.id}]
  /\ calls' = [calls EXCEPT ![p] = @ + 1]
  /\ UNCHANGED <<channels, currentTs, stop, timeVars, nullEvent, phase,
                 running>>

\* PointToPointNetDevice::TransmitStart on a remote channel: the end of the
\* transmission is scheduled, the packet is sent with a guarantee, and the
\* null message to this neighbour is put off.
Transmit(p, c, txTime) ==
  /\ phase[p] = "event" /\ Calling(p)
  /\ p \in c.ends /\ c.id \notin busy[p]
  /\ \E q \in c.ends \ {p} :
       LET now == currentTs[p]
           queue == events[p] \cup
                      {Event(now + txTime, uid[p], Complete(p, uid[p], c))}
       IN /\ chan' = [chan EXCEPT ![p][q] = Append(@,
                        [rx |-> now + txTime + c.delay,
                         guarantee |-> GuaranteeTime(p, q, queue),
                         n |-> uid[p]])]
          /\ events' = [events EXCEPT ![p] =
                          Cancelled(queue, nullEvent[p][q]) \cup
                            {Event(now + NullInterval(p, q), uid[p] + 1,
                                   Null(p, uid[p] + 1, q))}]
          /\ nullEvent' = [nullEvent EXCEPT ![p][q] = uid[p] + 1]
  /\ uid' = [uid EXCEPT ![p] = @ + 2]
  /\ busy' = [busy EXCEPT ![p] = @ \cup {c.id}]
  /\ calls' = [calls EXCEPT ![p] = @ + 1]
  /\ UNCHANGED <<channels, currentTs, stop, timeVars, phase, running>>

\* The loop of Run executes the next event if it is safe; a cancelled event
\* does nothing.  The end of a transmission makes the device ready.
ProcessOneEvent(p) ==
  /\ phase[p] = "loop" /\ ~stop[p]
  /\ \E e \in events[p] :
       /\ IsFirst(e, events[p])
       /\ e.ts <= safe[p]
       /\ currentTs' = [currentTs EXCEPT ![p] = e.ts]
       /\ events' = [events EXCEPT ![p] = @ \ {e}]
       /\ running' = [running EXCEPT ![p] = IF e.live THEN e.act ELSE NoAct]
       /\ busy' = [busy EXCEPT ![p] =
                     IF e.act.kind = "complete" THEN @ \ {e.act.on} ELSE @]
       /\ phase' = [phase EXCEPT ![p] = IF e.live THEN "event" ELSE "poll"]
  /\ UNCHANGED <<channels, uid, stop, timeVars, nullEvent, chan, calls>>

\* NullMessageEventHandler: the event sends the null message and schedules
\* its successor.
NullMessageEventHandler(p) ==
  /\ phase[p] = "event" /\ running[p].kind = "null"
  /\ events[p] # {}
  /\ LET q == running[p].on IN
       /\ chan' = [chan EXCEPT ![p][q] = Append(@,
                     [rx |-> 0, n |-> 0,
                      guarantee |-> GuaranteeTime(p, q, events[p])])]
       /\ events' = [events EXCEPT ![p] = @ \cup
                       {Event(currentTs[p] + NullInterval(p, q), uid[p],
                              Null(p, uid[p], q))}]
       /\ nullEvent' = [nullEvent EXCEPT ![p][q] = uid[p]]
  /\ uid' = [uid EXCEPT ![p] = @ + 1]
  /\ phase' = [phase EXCEPT ![p] = "poll"]
  /\ running' = [running EXCEPT ![p] = NoAct]
  /\ UNCHANGED <<channels, currentTs, stop, timeVars, busy, calls>>

\* Simulator::Stop, which the script scheduled.
Stop(p) ==
  /\ phase[p] = "event" /\ running[p].kind = "stop"
  /\ stop' = [stop EXCEPT ![p] = TRUE]
  /\ phase' = [phase EXCEPT ![p] = "poll"]
  /\ running' = [running EXCEPT ![p] = NoAct]
  /\ UNCHANGED <<channels, events, uid, currentTs, timeVars, nullEvent, busy,
                 chan, calls>>

\* The code of the event returns; Run polls for messages.
EventReturns(p) ==
  /\ phase[p] = "event" /\ running[p].kind \notin {"null", "stop"}
  /\ phase' = [phase EXCEPT ![p] = "poll"]
  /\ running' = [running EXCEPT ![p] = NoAct]
  /\ UNCHANGED <<channels, events, uid, currentTs, stop, timeVars, nullEvent,
                 busy, chan, calls>>

\* The body of ReceiveMessages for the first message of a neighbour: a packet
\* is scheduled, and the guarantee of its bundle is updated.
Receive(p, q) ==
  LET m == Head(chan[q][p]) IN
    /\ chan' = [chan EXCEPT ![q][p] = Tail(@)]
    /\ guarantee' = [guarantee EXCEPT ![p][q] = m.guarantee]
    /\ \/ /\ m.rx > 0
          /\ events' = [events EXCEPT ![p] = @ \cup
                          {Event(m.rx, uid[p], Reception(q, m.n))}]
          /\ uid' = [uid EXCEPT ![p] = @ + 1]
       \/ /\ m.rx = 0
          /\ UNCHANGED <<events, uid>>

\* Wrong: the longest guarantee counts.
LongestGuarantee(p, promised) == Max(promised \cup {0})

\* RemoteChannelBundleManager::GetSafeTime.
SafeTime(p, promised) == Min(promised \cup {Forever})

\* MPI_Testany returns a message.
PollReceive(p) ==
  /\ phase[p] = "poll"
  /\ \E q \in Neighbours(p) : chan[q][p] # <<>> /\ Receive(p, q)
  /\ UNCHANGED <<channels, currentTs, stop, safe, nullEvent, busy, phase,
                 running, calls>>

\* MPI_Testany returns none, be some under way; CalculateSafeTime.
PollEnds(p) ==
  /\ phase[p] = "poll"
  /\ safe' = [safe EXCEPT ![p] =
                SafeTime(p, {guarantee[p][q] : q \in Neighbours(p)})]
  /\ phase' = [phase EXCEPT ![p] = "loop"]
  /\ UNCHANGED <<channels, events, uid, currentTs, stop, guarantee, nullEvent,
                 busy, chan, running, calls>>

\* The next event is not safe yet.
Blocked(p) == /\ phase[p] = "loop" /\ ~stop[p] /\ events[p] # {}
              /\ NextOf(events[p]) > safe[p]

\* MPI_Waitany returns a message; CalculateSafeTime.
BlockingReceive(p) ==
  /\ Blocked(p)
  /\ \E q \in Neighbours(p) : chan[q][p] # <<>> /\ Receive(p, q)
  /\ safe' = [safe EXCEPT ![p] =
                SafeTime(p, {guarantee'[p][r] : r \in Neighbours(p)})]
  /\ UNCHANGED <<channels, currentTs, stop, nullEvent, busy, phase, running,
                 calls>>

\* A rank without neighbours has nothing to wait for.
NobodyToWaitFor(p) ==
  /\ Blocked(p) /\ Neighbours(p) = {}
  /\ safe' = [safe EXCEPT ![p] = SafeTime(p, {})]
  /\ UNCHANGED <<channels, localVars, stop, guarantee, nullEvent, busy, chan,
                 calls>>

\* IsFinished.
RunReturns(p) ==
  /\ phase[p] = "loop" /\ (stop[p] \/ events[p] = {})
  /\ phase' = [phase EXCEPT ![p] = "done"]
  /\ UNCHANGED <<channels, events, uid, currentTs, stop, timeVars, nullEvent,
                 busy, chan, running, calls>>

Progress(p) == \/ ProcessOneEvent(p) \/ NullMessageEventHandler(p) \/ Stop(p)
               \/ EventReturns(p) \/ PollEnds(p) \/ BlockingReceive(p)
               \/ NobodyToWaitFor(p) \/ RunReturns(p)

Next ==
  \E p \in Rank :
    \/ \E d \in Delay : Schedule(p, d)
    \/ \E c \in channels, t \in TxTimes : Transmit(p, c, t)
    \/ Run(p)
    \/ PollReceive(p)
    \/ Progress(p)

\* The code of an event returns, and a message that was sent arrives: a rank
\* that waits for one gets it.
Fairness == \A p \in Rank : WF_vars(Progress(p))

Spec == Init /\ [][Next]_vars /\ Fairness
-----------------------------------------------------------------------------
Acts == [kind : {"call", "complete", "null", "stop", "packet", "none"},
         from : Rank, n : Nat, on : Nat]

TypeOK ==
  /\ \A p \in Rank :
       /\ \A e \in events[p] : e.ts \in Nat /\ e.uid \in FirstUid..(uid[p] - 1)
                               /\ e.act \in Acts /\ e.live \in BOOLEAN
       /\ currentTs[p] \in 0..StopTime
       /\ running[p] \in Acts
       /\ \A q \in Neighbours(p) : \A i \in DOMAIN chan[p][q] :
            chan[p][q][i] \in [rx : Nat, guarantee : Nat, n : Nat]
  /\ stop \in [Rank -> BOOLEAN]
  /\ phase \in [Rank -> {"script", "loop", "event", "poll", "done"}]

\* No packet arrives from a neighbour with a receive time less than what the
\* neighbour guaranteed before: remote-channel-bundle.h, lines 131 and 132.
GuaranteeHolds ==
  \A p \in Rank : \A q \in Neighbours(p) :
    \A i \in DOMAIN chan[q][p] : chan[q][p][i].rx > 0 =>
      /\ chan[q][p][i].rx >= guarantee[p][q]
      /\ \A j \in 1..(i - 1) : chan[q][p][i].rx >= chan[q][p][j].guarantee

\* No message takes back a guarantee its receiver may have used: what makes the
\* assertions in SetGuaranteeTime, CalculateSafeTime and ScheduleWithContext
\* hold when it is received.
GuaranteeInTime ==
  \A p \in Rank : \A q \in Neighbours(p) : \A i \in DOMAIN chan[q][p] :
    /\ chan[q][p][i].guarantee >= currentTs[p]
    /\ chan[q][p][i].rx > 0 => chan[q][p][i].rx >= currentTs[p]

\* In MPI_Waitany, with nothing under way.
Waiting(p) == /\ Blocked(p) /\ Neighbours(p) # {}
              /\ \A q \in Neighbours(p) : chan[q][p] = <<>>

\* A rank that waits does so for a neighbour that has not finished and is
\* behind: ranks that wait never wait for each other in a circle, and a rank
\* that has finished has told its neighbours enough for them to finish.
WaitsForOneBehind ==
  \A p \in Rank : Waiting(p) =>
    \E q \in Neighbours(p) :
      /\ phase[q] # "done"
      /\ phase[q] \in {"loop", "poll"} => NextOf(events[q]) < NextOf(events[p])

\* What a rank was told of its neighbours holds, is not taken back, and is
\* enough to go on.
GuaranteesKept == GuaranteeHolds /\ GuaranteeInTime /\ WaitsForOneBehind

\* Per neighbour one event that will send a null message is in the queue, no
\* matter how packets put it off: a rank that waits is told of progress.
NullMessageScheduled ==
  \A p \in Rank : phase[p] \in {"loop", "poll"} =>
    \A q \in Neighbours(p) :
      \E e \in events[p] :
        /\ e.act.kind = "null" /\ e.act.on = q /\ e.live
        /\ e.uid = nullEvent[p][q]
        /\ \A f \in events[p] \ {e} :
             f.act.kind = "null" /\ f.act.on = q => ~f.live

\* The ranks' state keeps its types, the events that send null messages with
\* it.
Consistent == TypeOK /\ NullMessageScheduled

\* What a rank has to execute, packets on their way to it included.
Pending(p) ==
  {[act |-> e.act, due |-> e.ts] : e \in events[p]} \cup
  UNION {{[act |-> Reception(q, chan[q][p][i].n), due |-> chan[q][p][i].rx] :
            i \in {k \in DOMAIN chan[q][p] : chan[q][p][k].rx > 0}} :
         q \in Neighbours(p)}

\* The ranks together implement a parallel simulation.
Par == INSTANCE ParallelSimulation WITH
         now <- currentTs,
         pending <- [p \in Rank |-> Pending(p)]

\* The script's Stop is pending when the ranks start.
ImplementsParallel == [][Par!ParNext]_(Par!parVars)

\* Once the ranks run, Run returns on all of them: none waits for a message
\* nobody will send, though each stops for itself.
RunCompletes ==
  (\A p \in Rank : phase[p] # "script") ~> (\A p \in Rank : phase[p] = "done")
=============================================================================
