--------------------- MODULE NullMessageSimulator_proofs ---------------------
(***************************************************************************)
(* Theorems about NullMessageSimulator: for every number of ranks, every   *)
(* topology, tuning, delays and transmission times and whatever the events *)
(* do.                                                                     *)
(*                                                                         *)
(* The argument: between a rank and a neighbour guarantees never go back.  *)
(* Either everything the rank has to execute, but for the event of the     *)
(* next null message itself, is due late enough for what was guaranteed;   *)
(* or the device is busy, and both the end of its transmission and the     *)
(* next null message are.  With more than one channel to a neighbour only  *)
(* one of them is busy, and the argument fails, as the code does.          *)
(*                                                                         *)
(* No deadlock: a rank sends its next null message before it reaches what  *)
(* it promised last, because the interval of null messages is not longer   *)
(* than the delay of the bundle.  So a rank that waits does so for one     *)
(* that is behind it, and none of them in a circle.                        *)
(***************************************************************************)
EXTENDS NullMessageSimulator, FiniteSetTheorems, SequenceTheorems,
        WellFoundedInduction, TLAPS

Message == [rx : Nat, guarantee : Nat, n : Nat]
EventRec == [ts : Nat, uid : Nat, act : Acts, live : BOOLEAN]

\* A table with an entry per neighbour of each rank.
PerLink(f, T) == /\ f = [p \in Rank |-> f[p]]
                 /\ \A p \in Rank : f[p] \in [Neighbours(p) -> T]

TypeInv ==
  /\ channels \in Topologies
  /\ events \in [Rank -> SUBSET EventRec]
  /\ uid \in [Rank -> Nat]
  /\ currentTs \in [Rank -> Nat]
  /\ stop \in [Rank -> BOOLEAN]
  /\ safe \in [Rank -> Nat]
  /\ PerLink(guarantee, Nat) /\ PerLink(nullEvent, Nat)
  /\ busy \in [Rank -> SUBSET Nat]
  /\ PerLink(chan, Seq(Message))
  /\ phase \in [Rank -> {"script", "loop", "event", "poll", "done"}]
  /\ running \in [Rank -> Acts]

\* Every event of a rank is known by its uid, and its act says what it is.
QueueInv(p) ==
  /\ uid[p] > FirstUid
  /\ \A e \in events[p] :
       /\ e.uid \in FirstUid..(uid[p] - 1)
       /\ e.act.kind # "none"
       /\ e.act.kind = "null" => e.act.on \in Neighbours(p)
       /\ ~e.live => e.act.kind = "null"
       /\ e.act.kind # "packet" => e.act.from = p /\ e.act.n = e.uid
       /\ e.act.kind = "packet" => e.act.from \in Neighbours(p)
  /\ \A e, f \in events[p] : e.uid = f.uid => e = f
  /\ phase[p] = "script" =>
       currentTs[p] = 0 /\ ~stop[p] /\ \A e \in events[p] : e.act.kind # "null"
  /\ phase[p] = "event" /\ running[p].kind = "null" =>
       running[p].on \in Neighbours(p)

\* The Stop of the script is ahead until it has been executed.
StopInv(p) ==
  /\ currentTs[p] <= StopTime
  /\ \/ stop[p]
     \/ phase[p] = "event" /\ running[p].kind = "stop"
     \/ \E e \in events[p] : e.ts = StopTime /\ e.act.kind = "stop"

\* A device is busy until the end of its one transmission.
BusyInv(p) ==
  /\ \A e \in events[p] : e.act.kind = "complete" => e.act.on \in busy[p]
  /\ \A e, f \in events[p] :
       e.act.kind = "complete" /\ f.act.kind = "complete" /\ e.act.on = f.act.on
         => e = f

\* A null message is being sent.
Sending(p, q) ==
  phase[p] = "event" /\ running[p].kind = "null" /\ running[p].on = q

IsNull(e, q) == e.act.kind = "null" /\ e.act.on = q

\* The event that will send the next null message to a neighbour.
NextNull(p, q, e) ==
  /\ e \in events[p] /\ IsNull(e, q) /\ e.live /\ e.uid = nullEvent[p][q]
  /\ \A f \in events[p] \ {e} : IsNull(f, q) => ~f.live

NullInv(p, q) ==
  phase[p] # "script" =>
    IF Sending(p, q) THEN \A f \in events[p] : IsNull(f, q) => ~f.live
    ELSE \E e \in events[p] : NextNull(p, q, e)

\* What the last message on its way promises, or the last one received.
LastPromise(s, g) == IF s = <<>> THEN g ELSE s[Len(s)].guarantee

\* Promises never go back, and packets keep those before them.
InOrder(s, g) ==
  /\ g <= LastPromise(s, g)
  /\ \A i \in DOMAIN s :
       /\ g <= s[i].guarantee /\ s[i].guarantee <= LastPromise(s, g)
       /\ s[i].rx > 0 => g <= s[i].rx
       /\ \A j \in 1..(i - 1) :
            /\ s[j].guarantee <= s[i].guarantee
            /\ s[i].rx > 0 => s[j].guarantee <= s[i].rx

Promised(p, q) == LastPromise(chan[p][q], guarantee[q][p])

\* What is executed at a time keeps what the rank promised the neighbour.
Late(p, q, ts) == Promised(p, q) <= ts + BundleDelay(p, q)

\* All that the rank will execute is late, but for the next null message.
AllLate(p, q) ==
  /\ \A e \in events[p] : (IsNull(e, q) /\ e.live) \/ Late(p, q, e.ts)
  /\ phase[p] \in {"script", "event"} /\ ~Sending(p, q) =>
       Late(p, q, currentTs[p])

\* The end of the transmission on the channel is, and the null message.
DeviceLate(p, q) ==
  /\ phase[p] # "script"
  /\ \E c \in ChannelsOf(p, q), e \in events[p] :
       e.act.kind = "complete" /\ e.act.on = c.id /\ Late(p, q, e.ts)
  /\ Sending(p, q) => Late(p, q, currentTs[p])
  /\ \A e \in events[p] : IsNull(e, q) /\ e.live => Late(p, q, e.ts)

LinkInv(p, q) ==
  /\ InOrder(chan[p][q], guarantee[q][p])
  /\ Late(p, q, safe[p])
  /\ AllLate(p, q) \/ DeviceLate(p, q)
  /\ safe[p] <= guarantee[p][q]
  /\ \A e \in events[p] :
       IsNull(e, q) /\ e.live => e.ts <= currentTs[p] + NullInterval(p, q)

SafeInv(p) == /\ currentTs[p] <= safe[p] /\ safe[p] <= Forever
              /\ \A e \in events[p] : currentTs[p] <= e.ts

RankInv == \A p \in Rank : QueueInv(p) /\ StopInv(p) /\ BusyInv(p)
NullsInv == \A p \in Rank : \A q \in Neighbours(p) : NullInv(p, q)
LinksInv == \A p \in Rank : SafeInv(p) /\ \A q \in Neighbours(p) : LinkInv(p, q)

\* Packets of a sender are told apart by their number, on their way in a
\* sequence and arrived in a queue.
Apart(s, queue, q, u) ==
  /\ \A i \in DOMAIN s : s[i].rx > 0 =>
       /\ s[i].n < u
       /\ \A j \in DOMAIN s : s[j].rx > 0 /\ s[i].n = s[j].n => i = j
  /\ \A e \in queue : e.act.kind = "packet" /\ e.act.from = q =>
       /\ e.act = Reception(q, e.act.n) /\ e.act.n < u
       /\ \A i \in DOMAIN s : s[i].rx > 0 => s[i].n # e.act.n
       /\ \A f \in queue : f.act = e.act => f = e

PacketInv == \A p \in Rank : \A q \in Neighbours(p) :
               Apart(chan[q][p], events[p], q, uid[q])

-----------------------------------------------------------------------------
\* A set of naturals has a least element, the one Min chooses.
LEMMA MinNat ==
  ASSUME NEW S \in SUBSET Nat, S # {}
  PROVE  /\ Min(S) \in S /\ Min(S) \in Nat
         /\ \A x \in S : Min(S) <= x
<1> DEFINE R == {ss \in Nat \X Nat : ss[1] < ss[2]}
<1>1. IsWellFoundedOn(R, Nat)
  BY NatLessThanWellFounded DEF OpToRel
<1>2. PICK n \in S : \A m \in S : <<m, n>> \notin R
  <2> HIDE DEF R
  <2> QED  BY <1>1, WFMin
<1>3. ASSUME NEW m \in S PROVE n =< m
  <2>1. n \in Nat /\ m \in Nat
    OBVIOUS
  <2>2. ASSUME m < n PROVE <<m, n>> \in R
    BY <2>1, <2>2
  <2> HIDE DEF R
  <2>3. ~(m < n)
    BY <1>2, <2>2
  <2> QED  BY <2>1, <2>3
<1>4. \E x \in S : \A y \in S : x =< y
  BY <1>3
<1> QED  BY <1>4 DEF Min

\* Of the next event.
LEMMA NextOfIs ==
  ASSUME NEW queue \in SUBSET EventRec, queue # {}
  PROVE  /\ NextOf(queue) \in Nat
         /\ \A e \in queue : NextOf(queue) <= e.ts
         /\ \E e \in queue : NextOf(queue) = e.ts
<1> DEFINE S == {e.ts : e \in queue}
<1>0. \A e \in queue : e.ts \in Nat
  BY DEF EventRec
<1>1. S \in SUBSET Nat /\ S # {}
  BY <1>0
<1>2. Min(S) \in S /\ Min(S) \in Nat /\ \A x \in S : Min(S) <= x
  <2> HIDE DEF S
  <2> QED  BY <1>1, MinNat
<1>3. NextOf(queue) = Min(S)
  BY DEF NextOf
<1>4. PICK n : n = Min(S)
  OBVIOUS
<1>5. n \in S /\ n \in Nat /\ \A x \in S : n <= x
  BY <1>2, <1>4
<1>6. n = NextOf(queue)
  BY <1>3, <1>4
<1>7. \A e \in queue : n <= e.ts
  BY <1>5
<1>8. \E e \in queue : n = e.ts
  BY <1>5
<1> HIDE DEF S
<1> QED  BY <1>5, <1>6, <1>7, <1>8

LEMMA RankNat == Rank \subseteq Nat /\ IsFiniteSet(Rank)
<1>1. IsFiniteSet(Rank) /\ Rank = 0..(Cardinality(Rank) - 1)
  BY ChannelAssumption
<1>2. PICK n \in Nat : n = Cardinality(Rank)
  BY <1>1, FS_CardinalityType
<1>3. Rank = 0..(n - 1)
  BY <1>1, <1>2
<1> QED  BY <1>1, <1>3

LEMMA NeighbourSymmetry ==
  ASSUME NEW p \in Rank, NEW q \in Neighbours(p)
  PROVE  q \in Rank /\ p # q /\ p \in Neighbours(q)
         /\ ChannelsOf(p, q) = ChannelsOf(q, p)
BY DEF Neighbours, ChannelsOf

LEMMA NeighboursFinite ==
  ASSUME NEW p \in Rank
  PROVE  Neighbours(p) \in SUBSET Rank /\ IsFiniteSet(Neighbours(p))
<1>1. Neighbours(p) \in SUBSET Rank
  BY DEF Neighbours
<1> QED  BY <1>1, RankNat, FS_Subset

LEMMA BundleDelayIs ==
  ASSUME channels \in Topologies, NEW p \in Rank, NEW q \in Neighbours(p)
  PROVE  /\ BundleDelay(p, q) \in Nat /\ BundleDelay(p, q) >= 1
         /\ \A c \in ChannelsOf(p, q) :
              c.delay \in Nat /\ BundleDelay(p, q) <= c.delay
         /\ \E c \in ChannelsOf(p, q) : BundleDelay(p, q) = c.delay
<1> DEFINE S == {c.delay : c \in ChannelsOf(p, q)}
<1>1. \A c \in ChannelsOf(p, q) : c.delay \in 1..(Forever - 1)
  BY ChannelAssumption DEF ChannelsOf
<1>2. S \in SUBSET Nat /\ S # {}
  BY <1>1, InputAssumption DEF Neighbours
<1>3. Min(S) \in S /\ Min(S) \in Nat /\ \A x \in S : Min(S) <= x
  <2> HIDE DEF S
  <2> QED  BY <1>2, MinNat
<1>4. PICK n : n = Min(S)
  OBVIOUS
<1>5. BundleDelay(p, q) = n
  BY <1>4 DEF BundleDelay
<1>6. n \in S /\ n \in Nat /\ \A x \in S : n <= x
  BY <1>3, <1>4
<1> QED  BY <1>1, <1>5, <1>6, InputAssumption

LEMMA NullIntervalIs ==
  ASSUME channels \in Topologies, NEW p \in Rank, NEW q \in Neighbours(p)
  PROVE  NullInterval(p, q) \in Nat
<1>1. BundleDelay(p, q) \in Nat
  BY BundleDelayIs
<1>2. PICK d \in Nat : d = BundleDelay(p, q)
  BY <1>1
<1>3. Tune * d + 50 \in Nat
  BY InputAssumption
<1>4. (Tune * d + 50) \div 100 \in Nat
  BY <1>3
<1> QED  BY <1>2, <1>4 DEF NullInterval

\* What depends on the topology alone.
LEMMA SameChannels ==
  ASSUME channels' = channels
  PROVE  \A p, q : /\ ChannelsOf(p, q)' = ChannelsOf(p, q)
                   /\ Neighbours(p)' = Neighbours(p)
                   /\ BundleDelay(p, q)' = BundleDelay(p, q)
                   /\ NullInterval(p, q)' = NullInterval(p, q)
BY DEF ChannelsOf, Neighbours, BundleDelay, NullInterval

\* Turns of the neighbours are different.
LEMMA TurnsDiffer ==
  ASSUME NEW N \in SUBSET Nat, IsFiniteSet(N), NEW q \in N
  PROVE  /\ Cardinality({r \in N : r < q}) \in Nat
         /\ Cardinality({r \in N : r < q}) < Cardinality(N)
         /\ Cardinality(N) \in Nat
         /\ \A s \in N : q < s =>
              /\ Cardinality({r \in N : r < s}) \in Nat
              /\ Cardinality({r \in N : r < q}) < Cardinality({r \in N : r < s})
<1> DEFINE B(s) == {r \in N : r < s}
<1>1. ASSUME NEW U, IsFiniteSet(U), B(q) \subseteq U, q \in U
      PROVE  /\ Cardinality(B(q)) \in Nat /\ Cardinality(U) \in Nat
             /\ Cardinality(B(q)) < Cardinality(U)
  <2>1. IsFiniteSet(B(q)) /\ q \notin B(q)
    BY <1>1, FS_Subset
  <2>2. IsFiniteSet(B(q) \cup {q}) /\ Cardinality(B(q) \cup {q}) = Cardinality(B(q)) + 1
    <3> HIDE DEF B
    <3> QED  BY <2>1, FS_AddElement
  <2>3. B(q) \cup {q} \subseteq U
    BY <1>1
  <2>4. Cardinality(B(q) \cup {q}) <= Cardinality(U)
    <3> HIDE DEF B
    <3> QED  BY <1>1, <2>3, FS_Subset
  <2>5. Cardinality(B(q)) \in Nat /\ Cardinality(U) \in Nat
    BY <1>1, <2>1, FS_CardinalityType
  <2> HIDE DEF B
  <2> QED  BY <2>2, <2>4, <2>5
<1>2. B(q) \subseteq N
  OBVIOUS
<1>3. ASSUME NEW s \in N, q < s PROVE B(q) \subseteq B(s) /\ q \in B(s)
  <2>1. q \in Nat /\ s \in Nat /\ \A r \in N : r \in Nat
    OBVIOUS
  <2>2. \A r \in N : r < q => r < s
    BY <2>1, <1>3
  <2> QED  BY <2>2, <1>3
<1>4. \A s \in N : IsFiniteSet(B(s))
  BY FS_Subset
<1>5. /\ Cardinality(B(q)) \in Nat /\ Cardinality(N) \in Nat
      /\ Cardinality(B(q)) < Cardinality(N)
  BY <1>1, <1>2
<1>6. \A s \in N : q < s =>
        /\ Cardinality(B(s)) \in Nat
        /\ Cardinality(B(q)) < Cardinality(B(s))
  <2> SUFFICES ASSUME NEW s \in N, q < s
               PROVE  /\ Cardinality(B(s)) \in Nat
                      /\ Cardinality(B(q)) < Cardinality(B(s))
    OBVIOUS
  <2>1. B(q) \subseteq B(s) /\ q \in B(s) /\ IsFiniteSet(B(s))
    BY <1>3, <1>4
  <2>2. PICK U : U = B(s)
    OBVIOUS
  <2>3. B(q) \subseteq U /\ q \in U /\ IsFiniteSet(U)
    BY <2>1, <2>2
  <2>4. Cardinality(U) \in Nat /\ Cardinality(B(q)) < Cardinality(U)
    <3> HIDE DEF B
    <3> QED  BY <1>1, <2>3
  <2> QED  BY <2>2, <2>4
<1> QED  BY <1>5, <1>6

\* A message with a later promise, at the end.
LEMMA AppendInOrder ==
  ASSUME NEW s \in Seq(Message), NEW g \in Nat, NEW m \in Message,
         InOrder(s, g), LastPromise(s, g) <= m.guarantee,
         m.rx > 0 => LastPromise(s, g) <= m.rx
  PROVE  /\ InOrder(Append(s, m), g)
         /\ LastPromise(Append(s, m), g) = m.guarantee
<1> DEFINE t == Append(s, m)
<1>1. /\ Len(t) = Len(s) + 1 /\ Len(s) \in Nat /\ t # <<>>
      /\ DOMAIN t = 1..(Len(s) + 1) /\ DOMAIN s = 1..Len(s)
      /\ \A i \in 1..Len(s) : t[i] = s[i]
      /\ t[Len(s) + 1] = m
  OBVIOUS
<1>2. \A i \in 1..Len(s) : s[i] \in Message
  OBVIOUS
<1>3. LastPromise(t, g) = m.guarantee
  BY <1>1 DEF LastPromise
<1>4. LastPromise(s, g) \in Nat
  BY <1>2 DEF LastPromise, Message
<1>5. g <= m.guarantee /\ g \in Nat /\ m.guarantee \in Nat /\ m.rx \in Nat
  BY <1>4 DEF InOrder, Message
<1>6. ASSUME NEW i \in 1..Len(s)
      PROVE  /\ g <= t[i].guarantee /\ t[i].guarantee <= m.guarantee
             /\ t[i].rx > 0 => g <= t[i].rx
             /\ \A j \in 1..(i - 1) :
                  /\ t[j].guarantee <= t[i].guarantee
                  /\ t[i].rx > 0 => t[j].guarantee <= t[i].rx
  <2>1. t[i] = s[i] /\ s[i].guarantee \in Nat
    BY <1>1, <1>2 DEF Message
  <2>2. \A j \in 1..(i - 1) : t[j] = s[j]
    BY <1>1
  <2>3. i \in DOMAIN s
    BY <1>1
  <2> HIDE DEF t
  <2>4. s[i].guarantee <= LastPromise(s, g)
    BY <2>3 DEF InOrder
  <2>5. s[i].guarantee <= m.guarantee
    BY <2>1, <2>4, <1>4, <1>5
  <2> QED  BY <2>1, <2>2, <2>3, <2>5 DEF InOrder
<1>7. ASSUME NEW j \in 1..Len(s)
      PROVE  /\ t[j].guarantee <= m.guarantee
             /\ m.rx > 0 => t[j].guarantee <= m.rx
  <2>1. t[j] = s[j] /\ s[j].guarantee \in Nat /\ s[j].guarantee <= LastPromise(s, g)
    BY <1>1, <1>2 DEF Message, InOrder
  <2> HIDE DEF t
  <2> QED  BY <2>1, <1>4, <1>5
<1>8. m.rx > 0 => g <= m.rx
  BY <1>4, <1>5 DEF InOrder
<1>9. ASSUME NEW i \in DOMAIN t
      PROVE  /\ g <= t[i].guarantee /\ t[i].guarantee <= m.guarantee
             /\ t[i].rx > 0 => g <= t[i].rx
             /\ \A j \in 1..(i - 1) :
                  /\ t[j].guarantee <= t[i].guarantee
                  /\ t[i].rx > 0 => t[j].guarantee <= t[i].rx
  <2>1. CASE i \in 1..Len(s)
    BY <2>1, <1>6
  <2>2. CASE i = Len(s) + 1
    <3>1. t[i] = m /\ \A j \in 1..(i - 1) : j \in 1..Len(s)
      BY <1>1, <2>2
    <3> HIDE DEF t
    <3> QED  BY <3>1, <1>5, <1>7, <1>8
  <2> QED  BY <1>1, <2>1, <2>2
<1> HIDE DEF t
<1>10. InOrder(t, g)
  BY <1>3, <1>5, <1>9 DEF InOrder
<1> QED  BY <1>3, <1>10 DEF t

\* A message is taken.
LEMMA TailInOrder ==
  ASSUME NEW s \in Seq(Message), NEW g \in Nat, s # <<>>, InOrder(s, g)
  PROVE  /\ Head(s) \in Message /\ Tail(s) \in Seq(Message)
         /\ g <= Head(s).guarantee
         /\ Head(s).rx > 0 => g <= Head(s).rx
         /\ InOrder(Tail(s), Head(s).guarantee)
         /\ LastPromise(Tail(s), Head(s).guarantee) = LastPromise(s, g)
<1>1. /\ Head(s) \in Message /\ Tail(s) \in Seq(Message)
      /\ Len(s) \in Nat /\ Len(s) >= 1 /\ Head(s) = s[1]
      /\ Len(Tail(s)) = Len(s) - 1 /\ DOMAIN s = 1..Len(s)
      /\ DOMAIN Tail(s) = 1..(Len(s) - 1)
      /\ \A i \in 1..(Len(s) - 1) : Tail(s)[i] = s[i + 1]
  OBVIOUS
<1>2. PICK t, h : t = Tail(s) /\ h = Head(s)
  OBVIOUS
<1>3. \A i \in 1..Len(s) : s[i] \in Message
  OBVIOUS
<1>4. 1 \in DOMAIN s
  BY <1>1
<1>5. g <= h.guarantee /\ (h.rx > 0 => g <= h.rx) /\ h.guarantee <= LastPromise(s, g)
  BY <1>1, <1>2, <1>4 DEF InOrder
<1>6. LastPromise(t, h.guarantee) = LastPromise(s, g)
  <2>1. CASE Len(s) = 1
    <3>1. t = <<>>
      BY <1>1, <1>2, <2>1
    <3> QED  BY <1>1, <1>2, <2>1, <3>1 DEF LastPromise
  <2>2. CASE Len(s) # 1
    <3>1. Len(s) - 1 \in 1..(Len(s) - 1)
      BY <1>1, <2>2
    <3>3. Len(t) = Len(s) - 1 /\ t[Len(s) - 1] = s[(Len(s) - 1) + 1]
      BY <1>1, <1>2, <3>1
    <3>4. (Len(s) - 1) + 1 = Len(s) /\ Len(s) - 1 # 0
      BY <1>1, <2>2
    <3>2. t[Len(t)] = s[Len(s)] /\ t # <<>>
      BY <3>3, <3>4
    <3> QED  BY <3>2 DEF LastPromise
  <2> QED  BY <2>1, <2>2
<1>7. ASSUME NEW i \in DOMAIN t
      PROVE  /\ h.guarantee <= t[i].guarantee
             /\ t[i].guarantee <= LastPromise(s, g)
             /\ t[i].rx > 0 => h.guarantee <= t[i].rx
             /\ \A j \in 1..(i - 1) :
                  /\ t[j].guarantee <= t[i].guarantee
                  /\ t[i].rx > 0 => t[j].guarantee <= t[i].rx
  <2>1. i \in 1..(Len(s) - 1) /\ i + 1 \in DOMAIN s /\ t[i] = s[i + 1]
        /\ 1 \in 1..((i + 1) - 1)
    BY <1>1, <1>2
  <2>2. \A j \in 1..(i - 1) : t[j] = s[j + 1] /\ j + 1 \in 1..((i + 1) - 1)
    BY <1>1, <1>2, <2>1
  <2> QED  BY <2>1, <2>2, <1>1, <1>2 DEF InOrder
<1> QED  BY <1>1, <1>2, <1>5, <1>6, <1>7 DEF InOrder

-----------------------------------------------------------------------------
\* What a step of one rank leaves alone.
Same(r) == /\ events'[r] = events[r] /\ uid'[r] = uid[r]
           /\ currentTs'[r] = currentTs[r] /\ stop'[r] = stop[r]
           /\ safe'[r] = safe[r] /\ guarantee'[r] = guarantee[r]
           /\ nullEvent'[r] = nullEvent[r] /\ busy'[r] = busy[r]
           /\ phase'[r] = phase[r] /\ running'[r] = running[r]

Frame(p) == /\ TypeInv' /\ channels' = channels
            /\ \A r \in Rank : r # p => Same(r)

Sends(p, q, m) ==
  /\ m \in Message /\ chan'[p][q] = Append(chan[p][q], m)
  /\ \A r \in Rank : \A s \in Neighbours(r) :
       r # p \/ s # q => chan'[r][s] = chan[r][s]

LEMMA EventType ==
  ASSUME NEW ts \in Nat, NEW u \in Nat, NEW act \in Acts
  PROVE  /\ Event(ts, u, act) \in EventRec
         /\ Event(ts, u, act).ts = ts /\ Event(ts, u, act).uid = u
         /\ Event(ts, u, act).act = act /\ Event(ts, u, act).live = TRUE
BY DEF Event, EventRec

LEMMA ActTypes ==
  ASSUME NEW p \in Rank, NEW n \in Nat
  PROVE  /\ Call(p, n) \in Acts /\ StopCall(p) \in Acts /\ NoAct \in Acts
         /\ Reception(p, n) \in Acts
         /\ \A q \in Nat : Null(p, n, q) \in Acts
         /\ \A c : c.id \in Nat => Complete(p, n, c) \in Acts
<1>1. 0 \in Rank
  BY ChannelAssumption, FS_CardinalityType, FS_EmptySet
<1>2. 0 \in Nat /\ FirstUid \in Nat
  BY DEF FirstUid
<1> QED  BY <1>1, <1>2 DEF Call, StopCall, NoAct, Reception, Null, Complete, Acts

\* The types of a rank's state, for arithmetic.
LEMMA Types ==
  ASSUME TypeInv, NEW p \in Rank
  PROVE  /\ uid[p] \in Nat /\ currentTs[p] \in Nat /\ safe[p] \in Nat
         /\ events[p] \in SUBSET EventRec /\ busy[p] \in SUBSET Nat
         /\ stop[p] \in BOOLEAN /\ running[p] \in Acts
         /\ phase[p] \in {"script", "loop", "event", "poll", "done"}
         /\ \A e \in events[p] : /\ e.ts \in Nat /\ e.uid \in Nat
                                 /\ e.act \in Acts /\ e.live \in BOOLEAN
         /\ p \in Nat
         /\ \A q \in Neighbours(p) :
              /\ q \in Rank /\ q # p /\ q \in Nat
              /\ guarantee[p][q] \in Nat /\ nullEvent[p][q] \in Nat
              /\ chan[p][q] \in Seq(Message)
              /\ BundleDelay(p, q) \in Nat /\ NullInterval(p, q) \in Nat
              /\ p \in Neighbours(q) /\ guarantee[q][p] \in Nat
              /\ chan[q][p] \in Seq(Message)
<1>1. \A q \in Neighbours(p) : q \in Rank /\ q # p /\ p \in Neighbours(q)
  BY NeighbourSymmetry
<1>2. \A q \in Neighbours(p) :
        BundleDelay(p, q) \in Nat /\ NullInterval(p, q) \in Nat
  BY BundleDelayIs, NullIntervalIs DEF TypeInv
<1>3. \A r \in Rank : \A s \in Neighbours(r) :
        guarantee[r][s] \in Nat /\ nullEvent[r][s] \in Nat
        /\ chan[r][s] \in Seq(Message)
  BY DEF TypeInv, PerLink
<1>4. \A e \in EventRec : /\ e.ts \in Nat /\ e.uid \in Nat
                          /\ e.act \in Acts /\ e.live \in BOOLEAN
  BY DEF EventRec
<1>5. events[p] \in SUBSET EventRec
  BY DEF TypeInv
<1>6. \A e \in events[p] : /\ e.ts \in Nat /\ e.uid \in Nat
                           /\ e.act \in Acts /\ e.live \in BOOLEAN
  BY <1>4, <1>5
<1> QED  BY <1>1, <1>2, <1>3, <1>5, <1>6, RankNat DEF TypeInv

LEMMA TypeInvFrom ==
  ASSUME TypeInv, channels' = channels,
         events' \in [Rank -> SUBSET EventRec], uid' \in [Rank -> Nat],
         currentTs' \in [Rank -> Nat], stop' \in [Rank -> BOOLEAN],
         safe' \in [Rank -> Nat],
         PerLink(guarantee', Nat), PerLink(nullEvent', Nat),
         busy' \in [Rank -> SUBSET Nat], PerLink(chan', Seq(Message)),
         phase' \in [Rank -> {"script", "loop", "event", "poll", "done"}],
         running' \in [Rank -> Acts]
  PROVE  TypeInv'
<1>1. \A p : Neighbours(p)' = Neighbours(p)
  BY SameChannels
<1>2. /\ PerLink(guarantee, Nat)' /\ PerLink(nullEvent, Nat)'
      /\ PerLink(chan, Seq(Message))'
  BY <1>1 DEF PerLink
<1> QED  BY <1>2 DEF TypeInv

LEMMA ScheduleEffect ==
  ASSUME TypeInv, NEW p \in Rank, NEW d \in Delay, Schedule(p, d)
  PROVE  /\ Frame(p) /\ Calling(p)
         /\ events'[p] = events[p] \cup
              {Event(currentTs[p] + d, uid[p], Call(p, uid[p]))}
         /\ uid'[p] = uid[p] + 1
         /\ UNCHANGED <<currentTs, stop, safe, guarantee, nullEvent, busy,
                        chan, phase, running>>
<1>1. currentTs[p] + d \in Nat /\ uid[p] \in Nat /\ uid[p] + 1 \in Nat
  BY Types, InputAssumption
<1>2. Event(currentTs[p] + d, uid[p], Call(p, uid[p])) \in EventRec
  BY <1>1, EventType, ActTypes
<1>3. UNCHANGED <<channels, currentTs, stop, safe, guarantee, nullEvent, busy,
                  chan, phase, running>>
  BY DEF Schedule, timeVars
<1>4. /\ events' \in [Rank -> SUBSET EventRec] /\ uid' \in [Rank -> Nat]
      /\ events'[p] = events[p] \cup
              {Event(currentTs[p] + d, uid[p], Call(p, uid[p]))}
      /\ uid'[p] = uid[p] + 1
      /\ \A r \in Rank : r # p => events'[r] = events[r] /\ uid'[r] = uid[r]
  BY <1>1, <1>2 DEF Schedule, TypeInv
<1>5. TypeInv'
  BY <1>3, <1>4, TypeInvFrom DEF TypeInv
<1> QED  BY <1>3, <1>4, <1>5 DEF Frame, Same, Schedule

Turn(p, q) == uid[p] + Cardinality({r \in Neighbours(p) : r < q})
FirstMessage(p, q) == [rx |-> 0, guarantee |-> BundleDelay(p, q), n |-> 0]
FirstNull(p, q) == Event(currentTs[p] + NullInterval(p, q), Turn(p, q),
                         Null(p, Turn(p, q), q))

LEMMA TurnIs ==
  ASSUME TypeInv, NEW p \in Rank, NEW q \in Neighbours(p)
  PROVE  /\ Turn(p, q) \in Nat /\ Cardinality(Neighbours(p)) \in Nat
         /\ uid[p] <= Turn(p, q)
         /\ Turn(p, q) < uid[p] + Cardinality(Neighbours(p))
         /\ \A s \in Neighbours(p) : Turn(p, s) = Turn(p, q) => s = q
<1> DEFINE N == Neighbours(p)
           B(s) == Cardinality({r \in N : r < s})
<1>1. N \in SUBSET Nat /\ IsFiniteSet(N)
  BY NeighboursFinite, RankNat
<1>2. \A s \in N : B(s) \in Nat /\ B(s) < Cardinality(N) /\ Cardinality(N) \in Nat
  <2> HIDE DEF N
  <2> QED  BY <1>1, TurnsDiffer
<1>3. \A s, t \in N : s < t => B(s) < B(t)
  <2> HIDE DEF N
  <2> QED  BY <1>1, TurnsDiffer
<1>4. \A s \in N : Turn(p, s) = uid[p] + B(s)
  BY DEF Turn
<1>5. uid[p] \in Nat /\ q \in N
  BY Types
<1> HIDE DEF N, B
<1>6. \A s \in N : B(s) = B(q) => s = q
  BY <1>1, <1>2, <1>3, <1>5
<1>7. \A s \in N : Turn(p, s) = Turn(p, q) => s = q
  BY <1>2, <1>4, <1>5, <1>6
<1>8. /\ Turn(p, q) \in Nat /\ Cardinality(N) \in Nat
      /\ uid[p] <= Turn(p, q) /\ Turn(p, q) < uid[p] + Cardinality(N)
  BY <1>2, <1>4, <1>5
<1> QED  BY <1>7, <1>8 DEF N

LEMMA RunEffect ==
  ASSUME TypeInv, NEW p \in Rank, Run(p)
  PROVE  /\ Frame(p) /\ phase[p] = "script" /\ phase'[p] = "loop"
         /\ stop'[p] = FALSE
         /\ events'[p] = events[p] \cup {FirstNull(p, q) : q \in Neighbours(p)}
         /\ uid'[p] = uid[p] + Cardinality(Neighbours(p))
         /\ \A q \in Neighbours(p) :
              /\ FirstMessage(p, q) \in Message /\ FirstNull(p, q) \in EventRec
              /\ chan'[p][q] = Append(chan[p][q], FirstMessage(p, q))
              /\ nullEvent'[p][q] = Turn(p, q)
         /\ \A r \in Rank : r # p => chan'[r] = chan[r]
         /\ UNCHANGED <<currentTs, safe, guarantee, busy, running>>
<1>1. /\ uid[p] + Cardinality(Neighbours(p)) \in Nat
      /\ \A q \in Neighbours(p) : Turn(p, q) \in Nat
  <2>1. IsFiniteSet(Neighbours(p)) /\ uid[p] \in Nat
    BY NeighboursFinite, Types
  <2>2. Cardinality(Neighbours(p)) \in Nat
    BY <2>1, FS_CardinalityType
  <2> QED  BY <2>1, <2>2, TurnIs
<1>2. \A q \in Neighbours(p) :
        FirstMessage(p, q) \in Message /\ FirstNull(p, q) \in EventRec
  <2> SUFFICES ASSUME NEW q \in Neighbours(p)
               PROVE  FirstMessage(p, q) \in Message /\ FirstNull(p, q) \in EventRec
    OBVIOUS
  <2>1. BundleDelay(p, q) \in Nat /\ NullInterval(p, q) \in Nat /\ q \in Nat
        /\ currentTs[p] \in Nat
    BY Types
  <2>2. currentTs[p] + NullInterval(p, q) \in Nat
    BY <2>1
  <2>3. Null(p, Turn(p, q), q) \in Acts
    BY <1>1, <2>1, ActTypes
  <2>4. FirstNull(p, q) \in EventRec
    BY <1>1, <2>2, <2>3, EventType DEF FirstNull
  <2> QED  BY <2>1, <2>4 DEF FirstMessage, Message
<1>3. UNCHANGED <<channels, currentTs, safe, guarantee, busy, running>>
  BY DEF Run, timeVars
<1>4. events' = [events EXCEPT ![p] = @ \cup {FirstNull(p, q) : q \in Neighbours(p)}]
  BY DEF Run, FirstNull, Turn
<1>5. chan' = [chan EXCEPT ![p] = [q \in Neighbours(p) |-> Append(chan[p][q], FirstMessage(p, q))]]
  BY DEF Run, FirstMessage, TypeInv, PerLink
<1>6. nullEvent' = [nullEvent EXCEPT ![p] = [q \in Neighbours(p) |-> Turn(p, q)]]
  BY DEF Run, Turn
<1>7. {FirstNull(p, q) : q \in Neighbours(p)} \in SUBSET EventRec
  BY <1>2
<1>8. /\ events' \in [Rank -> SUBSET EventRec]
      /\ events'[p] = events[p] \cup {FirstNull(p, q) : q \in Neighbours(p)}
      /\ \A r \in Rank : r # p => events'[r] = events[r]
  <2>1. PICK N \in SUBSET EventRec : N = {FirstNull(p, q) : q \in Neighbours(p)}
    BY <1>7
  <2>2. events' = [events EXCEPT ![p] = @ \cup N]
    BY <1>4, <2>1
  <2>3. /\ events' \in [Rank -> SUBSET EventRec]
        /\ events'[p] = events[p] \cup N
        /\ \A r \in Rank : r # p => events'[r] = events[r]
    BY <2>2 DEF TypeInv
  <2> QED  BY <2>1, <2>3
<1>9. PerLink(chan', Seq(Message))
  <2>1. \A q \in Neighbours(p) : chan[p][q] \in Seq(Message)
    BY Types
  <2>2. \A q \in Neighbours(p) : Append(chan[p][q], FirstMessage(p, q)) \in Seq(Message)
    BY <1>2, <2>1
  <2>3. [q \in Neighbours(p) |-> Append(chan[p][q], FirstMessage(p, q))]
          \in [Neighbours(p) -> Seq(Message)]
    BY <2>2
  <2> QED  BY <1>5, <2>3 DEF TypeInv, PerLink
<1>10. PerLink(nullEvent', Nat)
  BY <1>1, <1>6 DEF TypeInv, PerLink
<1>11. /\ uid' \in [Rank -> Nat] /\ uid'[p] = uid[p] + Cardinality(Neighbours(p))
       /\ stop' \in [Rank -> BOOLEAN] /\ stop'[p] = FALSE
       /\ phase' \in [Rank -> {"script", "loop", "event", "poll", "done"}]
       /\ phase[p] = "script" /\ phase'[p] = "loop"
       /\ \A r \in Rank : r # p =>
            uid'[r] = uid[r] /\ stop'[r] = stop[r] /\ phase'[r] = phase[r]
  BY <1>1 DEF Run, TypeInv
<1>12. TypeInv'
  BY <1>3, <1>8, <1>9, <1>10, <1>11, TypeInvFrom DEF TypeInv
<1>13. \A q \in Neighbours(p) :
         /\ chan'[p][q] = Append(chan[p][q], FirstMessage(p, q))
         /\ nullEvent'[p][q] = Turn(p, q)
  BY <1>5, <1>6 DEF TypeInv, PerLink
<1>14. \A r \in Rank : r # p => chan'[r] = chan[r] /\ nullEvent'[r] = nullEvent[r]
  BY <1>5, <1>6 DEF TypeInv, PerLink
<1>15. Frame(p)
  BY <1>3, <1>8, <1>11, <1>12, <1>14 DEF Frame, Same
<1> QED  BY <1>2, <1>3, <1>8, <1>11, <1>13, <1>14, <1>15

\* The end of a transmission, the packet it sends, and a later null message.
EndOf(p, c, t) == Event(currentTs[p] + t, uid[p], Complete(p, uid[p], c))
Busier(p, c, t) == events[p] \cup {EndOf(p, c, t)}
PacketOf(p, q, c, t) ==
  [rx |-> currentTs[p] + t + c.delay,
   guarantee |-> GuaranteeTime(p, q, Busier(p, c, t)), n |-> uid[p]]
LaterNull(p, q, u) ==
  Event(currentTs[p] + NullInterval(p, q), u, Null(p, u, q))
NullMessage(p, q) ==
  [rx |-> 0, n |-> 0, guarantee |-> GuaranteeTime(p, q, events[p])]

LEMMA CancelledIs ==
  ASSUME NEW queue \in SUBSET EventRec, NEW u
  PROVE  /\ Cancelled(queue, u) \in SUBSET EventRec
         /\ \A f \in Cancelled(queue, u) : \E e \in queue :
              /\ f.ts = e.ts /\ f.uid = e.uid /\ f.act = e.act
              /\ f.live <=> e.live /\ e.uid # u
              /\ e.uid # u => f = e
         /\ \A e \in queue : \E f \in Cancelled(queue, u) :
              /\ f.ts = e.ts /\ f.uid = e.uid /\ f.act = e.act
              /\ f.live <=> e.live /\ e.uid # u
              /\ e.uid # u => f = e
<1> DEFINE C(e) == IF e.uid = u THEN [e EXCEPT !.live = FALSE] ELSE e
<1>1. ASSUME NEW e \in queue
      PROVE  /\ C(e) \in EventRec
             /\ C(e).ts = e.ts /\ C(e).uid = e.uid /\ C(e).act = e.act
             /\ C(e).live <=> e.live /\ e.uid # u
             /\ e.uid # u => C(e) = e
  <2>1. e \in EventRec
    OBVIOUS
  <2>2. CASE e.uid = u
    <3>1. C(e) = [e EXCEPT !.live = FALSE]
      BY <2>2
    <3> HIDE DEF C
    <3>2. [e EXCEPT !.live = FALSE] \in EventRec
      BY <2>1 DEF EventRec
    <3>3. C(e).ts = e.ts /\ C(e).uid = e.uid /\ C(e).act = e.act /\ C(e).live = FALSE
      BY <2>1, <3>1 DEF EventRec
    <3> QED  BY <2>2, <3>1, <3>2, <3>3
  <2>3. CASE e.uid # u
    BY <2>1, <2>3
  <2> QED  BY <2>2, <2>3
<1>2. Cancelled(queue, u) = {C(e) : e \in queue}
  BY DEF Cancelled
<1> HIDE DEF C
<1>3. \A f \in Cancelled(queue, u) : \E e \in queue : f = C(e)
  BY <1>2
<1>4. \A e \in queue : C(e) \in Cancelled(queue, u)
  BY <1>2
<1> QED  BY <1>1, <1>3, <1>4

LEMMA GuaranteeTimeIs ==
  ASSUME TypeInv, NEW p \in Rank, NEW q \in Neighbours(p),
         NEW queue \in SUBSET EventRec, queue # {}
  PROVE  /\ GuaranteeTime(p, q, queue) \in Nat
         /\ GuaranteeTime(p, q, queue) <= safe[p] + BundleDelay(p, q)
         /\ \A e \in queue : GuaranteeTime(p, q, queue) <= e.ts + BundleDelay(p, q)
         /\ \/ GuaranteeTime(p, q, queue) = safe[p] + BundleDelay(p, q)
            \/ \E e \in queue : GuaranteeTime(p, q, queue) = e.ts + BundleDelay(p, q)
<1>1. /\ NextOf(queue) \in Nat
      /\ \A e \in queue : NextOf(queue) <= e.ts
      /\ \E e \in queue : NextOf(queue) = e.ts
  BY NextOfIs
<1>2. safe[p] \in Nat /\ BundleDelay(p, q) \in Nat
  BY Types
<1>3. PICK n \in Nat, s \in Nat, d \in Nat :
        n = NextOf(queue) /\ s = safe[p] /\ d = BundleDelay(p, q)
  BY <1>1, <1>2
<1>4. /\ Min({n, s}) \in {n, s} /\ Min({n, s}) <= n /\ Min({n, s}) <= s
  BY MinNat
<1>5. PICK m : m = Min({n, s})
  OBVIOUS
<1>6. m \in Nat /\ m <= n /\ m <= s /\ (m = n \/ m = s)
  BY <1>4, <1>5
<1>7. GuaranteeTime(p, q, queue) = m + d
  BY <1>3, <1>5 DEF GuaranteeTime
<1>8. \A e \in queue : e.ts \in Nat
  BY DEF EventRec
<1>9. \A e \in queue : n <= e.ts
  BY <1>1, <1>3
<1>10. \E e \in queue : n = e.ts
  BY <1>1, <1>3
<1>11. m + d \in Nat /\ m + d <= s + d /\ \A e \in queue : m + d <= e.ts + d
  BY <1>6, <1>8, <1>9
<1>12. m + d = s + d \/ \E e \in queue : m + d = e.ts + d
  BY <1>6, <1>10
<1> QED  BY <1>3, <1>7, <1>11, <1>12

LEMMA TransmitEffect ==
  ASSUME TypeInv, NEW p \in Rank, NEW c \in channels, NEW t \in TxTimes,
         Transmit(p, c, t)
  PROVE  \E q \in Neighbours(p) :
           /\ c \in ChannelsOf(p, q)
           /\ Frame(p) /\ phase[p] = "event" /\ Calling(p) /\ c.id \notin busy[p]
           /\ EndOf(p, c, t) \in EventRec /\ LaterNull(p, q, uid[p] + 1) \in EventRec
           /\ Busier(p, c, t) \in SUBSET EventRec
           /\ c.delay \in Nat /\ t \in Nat /\ c.id \in Nat
           /\ events'[p] = Cancelled(Busier(p, c, t), nullEvent[p][q]) \cup
                             {LaterNull(p, q, uid[p] + 1)}
           /\ Sends(p, q, PacketOf(p, q, c, t))
           /\ nullEvent'[p][q] = uid[p] + 1
           /\ \A s \in Neighbours(p) : s # q => nullEvent'[p][s] = nullEvent[p][s]
           /\ uid'[p] = uid[p] + 2
           /\ busy'[p] = busy[p] \cup {c.id}
           /\ UNCHANGED <<currentTs, stop, safe, guarantee, phase, running>>
<1>1. PICK q \in c.ends \ {p} :
        /\ chan' = [chan EXCEPT ![p][q] = Append(@, PacketOf(p, q, c, t))]
        /\ events' = [events EXCEPT ![p] =
                          Cancelled(Busier(p, c, t), nullEvent[p][q]) \cup
                             {LaterNull(p, q, uid[p] + 1)}]
        /\ nullEvent' = [nullEvent EXCEPT ![p][q] = uid[p] + 1]
  BY DEF Transmit, PacketOf, Busier, EndOf, LaterNull
<1>2. /\ phase[p] = "event" /\ Calling(p) /\ c.id \notin busy[p] /\ p \in c.ends
      /\ uid' = [uid EXCEPT ![p] = @ + 2]
      /\ busy' = [busy EXCEPT ![p] = @ \cup {c.id}]
      /\ UNCHANGED <<channels, currentTs, stop, safe, guarantee, phase, running>>
  BY DEF Transmit, timeVars
<1>3. /\ c.ends \subseteq Rank /\ Cardinality(c.ends) = 2
      /\ c.delay \in Nat /\ c.id \in Nat /\ t \in Nat
  <2>1. c \in UNION Topologies
    BY DEF TypeInv
  <2> QED  BY <2>1, ChannelAssumption, InputAssumption
<1>4. q \in Neighbours(p) /\ c \in ChannelsOf(p, q)
  <2>1. IsFiniteSet({p}) /\ Cardinality({p}) = 1
    BY FS_Singleton
  <2>2. IsFiniteSet({p} \cup {q}) /\ Cardinality({p} \cup {q}) = 1 + 1
    BY <2>1, FS_AddElement
  <2>3. {p} \cup {q} \subseteq c.ends /\ IsFiniteSet(c.ends)
    BY <1>2, <1>3, RankNat, FS_Subset
  <2>4. {p} \cup {q} = c.ends
    BY <1>3, <2>2, <2>3, FS_Subset
  <2>5. c \in ChannelsOf(p, q)
    BY <2>4 DEF ChannelsOf
  <2> QED  BY <1>3, <2>5 DEF Neighbours
<1>5. /\ uid[p] \in Nat /\ uid[p] + 1 \in Nat /\ uid[p] + 2 \in Nat
      /\ currentTs[p] \in Nat /\ NullInterval(p, q) \in Nat /\ q \in Nat
      /\ events[p] \in SUBSET EventRec /\ chan[p][q] \in Seq(Message)
  BY <1>4, Types
<1>6. EndOf(p, c, t) \in EventRec
  <2>1. currentTs[p] + t \in Nat
    BY <1>3, <1>5
  <2>2. Complete(p, uid[p], c) \in Acts
    BY <1>3, <1>5, ActTypes
  <2> QED  BY <1>5, <2>1, <2>2, EventType DEF EndOf
<1>7. LaterNull(p, q, uid[p] + 1) \in EventRec
  <2>1. currentTs[p] + NullInterval(p, q) \in Nat /\ Null(p, uid[p] + 1, q) \in Acts
    BY <1>5, ActTypes
  <2> QED  BY <1>5, <2>1, EventType DEF LaterNull
<1>8. Busier(p, c, t) \in SUBSET EventRec /\ Busier(p, c, t) # {}
  BY <1>5, <1>6 DEF Busier
<1>9. PacketOf(p, q, c, t) \in Message
  <2>1. GuaranteeTime(p, q, Busier(p, c, t)) \in Nat
    BY <1>4, <1>8, GuaranteeTimeIs
  <2>2. currentTs[p] + t + c.delay \in Nat
    BY <1>3, <1>5
  <2> QED  BY <1>5, <2>1, <2>2 DEF PacketOf, Message
<1>10. /\ PerLink(chan', Seq(Message)) /\ Sends(p, q, PacketOf(p, q, c, t))
       /\ \A r \in Rank : r # p => chan'[r] = chan[r]
  <2>1. Append(chan[p][q], PacketOf(p, q, c, t)) \in Seq(Message)
    BY <1>5, <1>9
  <2>2. PICK v : v = Append(chan[p][q], PacketOf(p, q, c, t))
    OBVIOUS
  <2>3. chan' = [chan EXCEPT ![p][q] = v]
    BY <1>1, <2>2
  <2>4. v \in Seq(Message) /\ PerLink(chan, Seq(Message))
    BY <2>1, <2>2 DEF TypeInv
  <2>5. /\ PerLink(chan', Seq(Message)) /\ chan'[p][q] = v
        /\ \A s \in Neighbours(p) : s # q => chan'[p][s] = chan[p][s]
        /\ \A r \in Rank : r # p => chan'[r] = chan[r]
    BY <1>4, <2>3, <2>4 DEF PerLink
  <2> QED  BY <1>9, <2>2, <2>5 DEF Sends
<1>11. /\ PerLink(nullEvent', Nat) /\ nullEvent'[p][q] = uid[p] + 1
       /\ \A s \in Neighbours(p) : s # q => nullEvent'[p][s] = nullEvent[p][s]
       /\ \A r \in Rank : r # p => nullEvent'[r] = nullEvent[r]
  <2>1. PerLink(nullEvent, Nat)
    BY DEF TypeInv
  <2> QED  BY <1>1, <1>4, <1>5, <2>1 DEF PerLink
<1>12. /\ events' \in [Rank -> SUBSET EventRec]
       /\ events'[p] = Cancelled(Busier(p, c, t), nullEvent[p][q]) \cup
                         {LaterNull(p, q, uid[p] + 1)}
       /\ \A r \in Rank : r # p => events'[r] = events[r]
  <2>1. PICK Q : Q = Cancelled(Busier(p, c, t), nullEvent[p][q]) \cup
                         {LaterNull(p, q, uid[p] + 1)}
    OBVIOUS
  <2>2. Q \in SUBSET EventRec
    BY <1>7, <1>8, <2>1, CancelledIs
  <2>3. events' = [events EXCEPT ![p] = Q]
    BY <1>1, <2>1
  <2> QED  BY <2>1, <2>2, <2>3 DEF TypeInv
<1>13. /\ uid' \in [Rank -> Nat] /\ uid'[p] = uid[p] + 2
       /\ busy' \in [Rank -> SUBSET Nat] /\ busy'[p] = busy[p] \cup {c.id}
       /\ \A r \in Rank : r # p => uid'[r] = uid[r] /\ busy'[r] = busy[r]
  BY <1>2, <1>3, <1>5 DEF TypeInv
<1>14. TypeInv'
  BY <1>2, <1>10, <1>11, <1>12, <1>13, TypeInvFrom DEF TypeInv
<1>15. Frame(p)
  BY <1>2, <1>11, <1>12, <1>13, <1>14 DEF Frame, Same
<1> QED  BY <1>2, <1>3, <1>4, <1>6, <1>7, <1>8, <1>10, <1>11, <1>12, <1>13, <1>15

LEMMA ProcessEffect ==
  ASSUME TypeInv, NEW p \in Rank, ProcessOneEvent(p)
  PROVE  \E e \in events[p] :
           /\ Frame(p) /\ phase[p] = "loop" /\ ~stop[p]
           /\ IsFirst(e, events[p]) /\ e.ts <= safe[p]
           /\ currentTs'[p] = e.ts
           /\ events'[p] = events[p] \ {e}
           /\ running'[p] = IF e.live THEN e.act ELSE NoAct
           /\ busy'[p] = IF e.act.kind = "complete" THEN busy[p] \ {e.act.on}
                         ELSE busy[p]
           /\ phase'[p] = IF e.live THEN "event" ELSE "poll"
           /\ UNCHANGED <<uid, stop, safe, guarantee, nullEvent, chan>>
<1>1. PICK e \in events[p] :
        /\ IsFirst(e, events[p])
        /\ e.ts <= safe[p]
        /\ currentTs' = [currentTs EXCEPT ![p] = e.ts]
        /\ events' = [events EXCEPT ![p] = @ \ {e}]
        /\ running' = [running EXCEPT ![p] = IF e.live THEN e.act ELSE NoAct]
        /\ busy' = [busy EXCEPT ![p] =
                     IF e.act.kind = "complete" THEN @ \ {e.act.on} ELSE @]
        /\ phase' = [phase EXCEPT ![p] = IF e.live THEN "event" ELSE "poll"]
  BY DEF ProcessOneEvent
<1>2. /\ phase[p] = "loop" /\ ~stop[p]
      /\ UNCHANGED <<channels, uid, stop, safe, guarantee, nullEvent, chan>>
  BY DEF ProcessOneEvent, timeVars
<1>3. e.ts \in Nat /\ e.act \in Acts /\ NoAct \in Acts
  BY Types, ActTypes
<1>4. /\ currentTs' \in [Rank -> Nat] /\ events' \in [Rank -> SUBSET EventRec]
      /\ running' \in [Rank -> Acts] /\ busy' \in [Rank -> SUBSET Nat]
      /\ phase' \in [Rank -> {"script", "loop", "event", "poll", "done"}]
  <2>1. (IF e.live THEN e.act ELSE NoAct) \in Acts
    BY <1>3
  <2>2. PICK a \in Acts : a = IF e.live THEN e.act ELSE NoAct
    BY <2>1
  <2>3. running' \in [Rank -> Acts]
    BY <1>1, <2>2 DEF TypeInv
  <2>4. busy' \in [Rank -> SUBSET Nat]
    BY <1>1 DEF TypeInv
  <2> QED  BY <1>1, <1>3, <2>3, <2>4 DEF TypeInv
<1>5. TypeInv'
  BY <1>2, <1>4, TypeInvFrom DEF TypeInv
<1>6. /\ currentTs'[p] = e.ts /\ events'[p] = events[p] \ {e}
      /\ running'[p] = IF e.live THEN e.act ELSE NoAct
      /\ busy'[p] = IF e.act.kind = "complete" THEN busy[p] \ {e.act.on}
                         ELSE busy[p]
      /\ phase'[p] = IF e.live THEN "event" ELSE "poll"
      /\ \A r \in Rank : r # p =>
           /\ currentTs'[r] = currentTs[r] /\ events'[r] = events[r]
           /\ running'[r] = running[r] /\ busy'[r] = busy[r] /\ phase'[r] = phase[r]
  BY <1>1 DEF TypeInv
<1> QED  BY <1>1, <1>2, <1>5, <1>6 DEF Frame, Same

LEMMA NullEffect ==
  ASSUME TypeInv, NEW p \in Rank, QueueInv(p), NullMessageEventHandler(p)
  PROVE  \E q \in Neighbours(p) :
           /\ Frame(p) /\ Sending(p, q) /\ phase'[p] = "poll" /\ events[p] # {}
           /\ Sends(p, q, NullMessage(p, q))
           /\ LaterNull(p, q, uid[p]) \in EventRec
           /\ events'[p] = events[p] \cup {LaterNull(p, q, uid[p])}
           /\ nullEvent'[p][q] = uid[p]
           /\ \A s \in Neighbours(p) : s # q => nullEvent'[p][s] = nullEvent[p][s]
           /\ uid'[p] = uid[p] + 1
           /\ UNCHANGED <<currentTs, stop, safe, guarantee, busy>>
<1>1. PICK q : q = running[p].on
  OBVIOUS
<1>2. /\ phase[p] = "event" /\ running[p].kind = "null" /\ events[p] # {}
      /\ chan' = [chan EXCEPT ![p][q] = Append(@, NullMessage(p, q))]
      /\ events' = [events EXCEPT ![p] = @ \cup {LaterNull(p, q, uid[p])}]
      /\ nullEvent' = [nullEvent EXCEPT ![p][q] = uid[p]]
      /\ uid' = [uid EXCEPT ![p] = @ + 1]
      /\ phase' = [phase EXCEPT ![p] = "poll"]
      /\ running' = [running EXCEPT ![p] = NoAct]
      /\ UNCHANGED <<channels, currentTs, stop, safe, guarantee, busy>>
  BY <1>1 DEF NullMessageEventHandler, NullMessage, LaterNull, timeVars
<1>3. q \in Neighbours(p) /\ Sending(p, q)
  BY <1>1, <1>2 DEF QueueInv, Sending
<1>4. /\ uid[p] \in Nat /\ uid[p] + 1 \in Nat /\ currentTs[p] \in Nat
      /\ NullInterval(p, q) \in Nat /\ q \in Nat
      /\ events[p] \in SUBSET EventRec /\ chan[p][q] \in Seq(Message)
  BY <1>3, Types
<1>5. LaterNull(p, q, uid[p]) \in EventRec
  <2>1. currentTs[p] + NullInterval(p, q) \in Nat /\ Null(p, uid[p], q) \in Acts
    BY <1>4, ActTypes
  <2> QED  BY <1>4, <2>1, EventType DEF LaterNull
<1>6. NullMessage(p, q) \in Message
  <2>1. GuaranteeTime(p, q, events[p]) \in Nat
    BY <1>2, <1>3, <1>4, GuaranteeTimeIs
  <2> QED  BY <2>1 DEF NullMessage, Message
<1>7. /\ PerLink(chan', Seq(Message)) /\ Sends(p, q, NullMessage(p, q))
  <2>1. Append(chan[p][q], NullMessage(p, q)) \in Seq(Message)
    BY <1>4, <1>6
  <2>2. PICK v : v = Append(chan[p][q], NullMessage(p, q))
    OBVIOUS
  <2>3. chan' = [chan EXCEPT ![p][q] = v]
    BY <1>2, <2>2
  <2>4. v \in Seq(Message) /\ PerLink(chan, Seq(Message))
    BY <2>1, <2>2 DEF TypeInv
  <2>5. /\ PerLink(chan', Seq(Message)) /\ chan'[p][q] = v
        /\ \A s \in Neighbours(p) : s # q => chan'[p][s] = chan[p][s]
        /\ \A r \in Rank : r # p => chan'[r] = chan[r]
    BY <1>3, <2>3, <2>4 DEF PerLink
  <2> QED  BY <1>6, <2>2, <2>5 DEF Sends
<1>8. /\ PerLink(nullEvent', Nat) /\ nullEvent'[p][q] = uid[p]
      /\ \A s \in Neighbours(p) : s # q => nullEvent'[p][s] = nullEvent[p][s]
      /\ \A r \in Rank : r # p => nullEvent'[r] = nullEvent[r]
  <2>1. PerLink(nullEvent, Nat)
    BY DEF TypeInv
  <2> QED  BY <1>2, <1>3, <1>4, <2>1 DEF PerLink
<1>9. /\ events' \in [Rank -> SUBSET EventRec] /\ uid' \in [Rank -> Nat]
      /\ phase' \in [Rank -> {"script", "loop", "event", "poll", "done"}]
      /\ running' \in [Rank -> Acts]
  BY <1>2, <1>4, <1>5, ActTypes DEF TypeInv
<1>10. /\ events'[p] = events[p] \cup {LaterNull(p, q, uid[p])}
       /\ uid'[p] = uid[p] + 1 /\ phase'[p] = "poll"
       /\ \A r \in Rank : r # p =>
            /\ events'[r] = events[r] /\ uid'[r] = uid[r]
            /\ phase'[r] = phase[r] /\ running'[r] = running[r]
  BY <1>2 DEF TypeInv
<1>11. TypeInv'
  BY <1>2, <1>7, <1>8, <1>9, TypeInvFrom DEF TypeInv
<1>12. Frame(p)
  BY <1>2, <1>8, <1>10, <1>11 DEF Frame, Same
<1> QED  BY <1>2, <1>3, <1>5, <1>7, <1>8, <1>10, <1>12

\* What CalculateSafeTime makes of the guarantees.
Calculated(p, promised) == SafeTime(p, {promised[q] : q \in Neighbours(p)})

LEMMA SafeTimeIs ==
  ASSUME channels \in Topologies, NEW p \in Rank,
         NEW promised \in [Neighbours(p) -> Nat]
  PROVE  /\ Calculated(p, promised) \in Nat /\ Calculated(p, promised) <= Forever
         /\ \A q \in Neighbours(p) : Calculated(p, promised) <= promised[q]
         /\ \A n \in Nat : n <= Forever /\ (\A q \in Neighbours(p) : n <= promised[q])
              => n <= Calculated(p, promised)
<1> DEFINE S == {promised[q] : q \in Neighbours(p)} \cup {Forever}
<1>1. S \in SUBSET Nat /\ S # {}
  BY InputAssumption
<1>2. Min(S) \in S /\ Min(S) \in Nat /\ \A x \in S : Min(S) <= x
  <2> HIDE DEF S
  <2> QED  BY <1>1, MinNat
<1>3. PICK n : n = Min(S)
  OBVIOUS
<1>4. n = Calculated(p, promised)
  BY <1>3 DEF Calculated, SafeTime
<1>5. n \in S /\ n \in Nat /\ \A x \in S : n <= x
  BY <1>2, <1>3
<1> QED  BY <1>4, <1>5

LEMMA QuietEffect ==
  ASSUME TypeInv, NEW p \in Rank,
         \/ Stop(p) \/ EventReturns(p) \/ PollEnds(p) \/ NobodyToWaitFor(p)
         \/ RunReturns(p)
  PROVE  /\ Frame(p)
         /\ UNCHANGED <<events, uid, currentTs, guarantee, nullEvent, busy, chan>>
         /\ phase[p] # "script" /\ phase'[p] \notin {"script", "event"}
         /\ \A q : ~Sending(p, q)
         /\ stop'[p] \/ (~stop[p] /\ ~(phase[p] = "event" /\ running[p].kind = "stop"))
         /\ safe'[p] = safe[p] \/ safe'[p] = Calculated(p, guarantee[p])
<1>1. guarantee[p] \in [Neighbours(p) -> Nat]
  BY DEF TypeInv, PerLink
<1>2. Calculated(p, guarantee[p]) \in Nat
  BY <1>1, SafeTimeIs DEF TypeInv
<1>3. ASSUME Stop(p) \/ EventReturns(p) \/ RunReturns(p)
      PROVE  /\ TypeInv'
             /\ UNCHANGED <<channels, events, uid, currentTs, guarantee,
                            nullEvent, busy, chan, safe>>
             /\ \A r \in Rank : r # p =>
                  phase'[r] = phase[r] /\ running'[r] = running[r] /\ stop'[r] = stop[r]
             /\ phase[p] # "script" /\ phase'[p] \notin {"script", "event"}
             /\ phase[p] = "event" => running[p].kind # "null"
             /\ stop'[p] \/ (~stop[p] /\ ~(phase[p] = "event" /\ running[p].kind = "stop"))
  <2>1. UNCHANGED <<channels, events, uid, currentTs, guarantee,
                            nullEvent, busy, chan, safe>>
    BY <1>3 DEF Stop, EventReturns, RunReturns, timeVars
  <2>2. /\ phase' \in [Rank -> {"script", "loop", "event", "poll", "done"}]
        /\ running' \in [Rank -> Acts] /\ stop' \in [Rank -> BOOLEAN]
        /\ \A r \in Rank : r # p =>
             phase'[r] = phase[r] /\ running'[r] = running[r] /\ stop'[r] = stop[r]
    <3>1. NoAct \in Acts
      BY ActTypes
    <3> QED  BY <1>3, <3>1 DEF Stop, EventReturns, RunReturns, TypeInv
  <2>3. TypeInv'
    BY <2>1, <2>2, TypeInvFrom DEF TypeInv
  <2>4. /\ phase[p] # "script" /\ phase'[p] \notin {"script", "event"}
        /\ phase[p] = "event" => running[p].kind # "null"
        /\ stop'[p] \/ (~stop[p] /\ ~(phase[p] = "event" /\ running[p].kind = "stop"))
    BY <1>3 DEF Stop, EventReturns, RunReturns, TypeInv
  <2> QED  BY <2>1, <2>2, <2>3, <2>4
<1>4. ASSUME PollEnds(p) \/ NobodyToWaitFor(p)
      PROVE  /\ TypeInv'
             /\ UNCHANGED <<channels, events, uid, currentTs, guarantee,
                            nullEvent, busy, chan, running, stop>>
             /\ \A r \in Rank : r # p => phase'[r] = phase[r] /\ safe'[r] = safe[r]
             /\ phase[p] \in {"poll", "loop"} /\ phase'[p] = "loop"
             /\ safe'[p] = Calculated(p, guarantee[p])
  <2>1. UNCHANGED <<channels, events, uid, currentTs, guarantee,
                            nullEvent, busy, chan, running, stop>>
    BY <1>4 DEF PollEnds, NobodyToWaitFor, localVars
  <2>2. safe' = [safe EXCEPT ![p] = Calculated(p, guarantee[p])]
    <3>1. ASSUME NobodyToWaitFor(p) PROVE {guarantee[p][q] : q \in Neighbours(p)} = {}
      BY <3>1 DEF NobodyToWaitFor
    <3> QED  BY <1>4, <3>1 DEF PollEnds, NobodyToWaitFor, Calculated
  <2>3. /\ safe' \in [Rank -> Nat] /\ safe'[p] = Calculated(p, guarantee[p])
        /\ \A r \in Rank : r # p => safe'[r] = safe[r]
    BY <1>2, <2>2 DEF TypeInv
  <2>4. /\ phase' \in [Rank -> {"script", "loop", "event", "poll", "done"}]
        /\ \A r \in Rank : r # p => phase'[r] = phase[r]
        /\ phase[p] \in {"poll", "loop"} /\ phase'[p] = "loop"
    BY <1>4 DEF PollEnds, NobodyToWaitFor, Blocked, localVars, TypeInv
  <2>5. TypeInv'
    BY <2>1, <2>3, <2>4, TypeInvFrom DEF TypeInv
  <2> QED  BY <2>1, <2>3, <2>4, <2>5
<1>5. CASE Stop(p) \/ EventReturns(p) \/ RunReturns(p)
  BY <1>3, <1>5 DEF Frame, Same, Sending
<1>6. CASE PollEnds(p) \/ NobodyToWaitFor(p)
  <2>1. stop[p] \in BOOLEAN /\ stop' = stop
    BY <1>4, <1>6 DEF TypeInv
  <2> QED  BY <1>4, <1>6, <2>1 DEF Frame, Same, Sending
<1> QED  BY <1>5, <1>6

Taken(q, p) ==
  /\ chan[q][p] # <<>> /\ chan'[q][p] = Tail(chan[q][p])
  /\ guarantee'[p][q] = Head(chan[q][p]).guarantee
  /\ \A r \in Rank : \A s \in Neighbours(r) :
       r # q \/ s # p => chan'[r][s] = chan[r][s] /\ guarantee'[s][r] = guarantee[s][r]
Scheduled(p, q) == Event(Head(chan[q][p]).rx, uid[p],
                         Reception(q, Head(chan[q][p]).n))

LEMMA ReceiveEffect ==
  ASSUME TypeInv, NEW p \in Rank, PollReceive(p) \/ BlockingReceive(p)
  PROVE  \E q \in Neighbours(p) :
           /\ Frame(p) /\ Taken(q, p) /\ phase[p] \in {"loop", "poll"}
           /\ Head(chan[q][p]) \in Message
           /\ \/ /\ Head(chan[q][p]).rx > 0
                 /\ Scheduled(p, q) \in EventRec
                 /\ events'[p] = events[p] \cup {Scheduled(p, q)}
                 /\ uid'[p] = uid[p] + 1
              \/ /\ Head(chan[q][p]).rx = 0
                 /\ UNCHANGED <<events, uid>>
           /\ safe'[p] = safe[p] \/ safe'[p] = Calculated(p, guarantee'[p])
           /\ UNCHANGED <<currentTs, stop, nullEvent, busy, phase, running>>
<1>1. PICK q \in Neighbours(p) : chan[q][p] # <<>> /\ Receive(p, q)
  BY DEF PollReceive, BlockingReceive
<1>2. /\ phase[p] \in {"loop", "poll"}
      /\ UNCHANGED <<channels, currentTs, stop, nullEvent, busy, phase, running>>
  BY DEF PollReceive, BlockingReceive, Blocked
<1>3. PICK m : m = Head(chan[q][p])
  OBVIOUS
<1>4. /\ chan' = [chan EXCEPT ![q][p] = Tail(@)]
      /\ guarantee' = [guarantee EXCEPT ![p][q] = m.guarantee]
      /\ \/ /\ m.rx > 0
            /\ events' = [events EXCEPT ![p] = @ \cup
                            {Event(m.rx, uid[p], Reception(q, m.n))}]
            /\ uid' = [uid EXCEPT ![p] = @ + 1]
         \/ /\ m.rx = 0
            /\ UNCHANGED <<events, uid>>
  BY <1>1, <1>3 DEF Receive
<1>5. /\ q \in Rank /\ q # p /\ p \in Neighbours(q) /\ chan[q][p] \in Seq(Message)
      /\ uid[p] \in Nat /\ uid[p] + 1 \in Nat /\ safe[p] \in Nat
  BY Types
<1>6. m \in Message /\ Tail(chan[q][p]) \in Seq(Message)
  BY <1>1, <1>3, <1>5
<1>7. m.guarantee \in Nat /\ m.rx \in Nat /\ m.n \in Nat
  BY <1>6 DEF Message
<1>8. Event(m.rx, uid[p], Reception(q, m.n)) \in EventRec
  <2>1. Reception(q, m.n) \in Acts
    BY <1>5, <1>7, ActTypes
  <2> QED  BY <1>5, <1>7, <2>1, EventType
<1>9. /\ PerLink(chan', Seq(Message)) /\ chan'[q][p] = Tail(chan[q][p])
      /\ \A r \in Rank : \A s \in Neighbours(r) :
           r # q \/ s # p => chan'[r][s] = chan[r][s]
  <2>1. PICK v : v = Tail(chan[q][p])
    OBVIOUS
  <2>2. chan' = [chan EXCEPT ![q][p] = v]
    BY <1>4, <2>1
  <2>3. v \in Seq(Message) /\ PerLink(chan, Seq(Message))
    BY <1>6, <2>1 DEF TypeInv
  <2>4. /\ PerLink(chan', Seq(Message)) /\ chan'[q][p] = v
        /\ \A s \in Neighbours(q) : s # p => chan'[q][s] = chan[q][s]
        /\ \A r \in Rank : r # q => chan'[r] = chan[r]
    BY <1>5, <2>2, <2>3 DEF PerLink
  <2> QED  BY <2>1, <2>4
<1>10. /\ PerLink(guarantee', Nat) /\ guarantee'[p][q] = m.guarantee
       /\ \A s \in Neighbours(p) : s # q => guarantee'[p][s] = guarantee[p][s]
       /\ \A r \in Rank : r # p => guarantee'[r] = guarantee[r]
  <2>1. PerLink(guarantee, Nat)
    BY DEF TypeInv
  <2> QED  BY <1>1, <1>4, <1>7, <2>1 DEF PerLink
<1>11. Taken(q, p)
  <2>1. \A r \in Rank : \A s \in Neighbours(r) : s \in Rank /\ r \in Neighbours(s)
    BY NeighbourSymmetry
  <2> QED  BY <1>1, <1>3, <1>9, <1>10, <2>1 DEF Taken
<1>12. /\ safe' \in [Rank -> Nat]
       /\ safe'[p] = safe[p] \/ safe'[p] = Calculated(p, guarantee'[p])
       /\ \A r \in Rank : r # p => safe'[r] = safe[r]
  <2>1. CASE PollReceive(p)
    BY <2>1 DEF PollReceive, TypeInv
  <2>2. CASE BlockingReceive(p)
    <3>1. safe' = [safe EXCEPT ![p] = Calculated(p, guarantee'[p])]
      BY <2>2 DEF BlockingReceive, Calculated
    <3>2. PICK g : g = guarantee'[p]
      OBVIOUS
    <3>3. g \in [Neighbours(p) -> Nat]
      BY <1>10, <3>2 DEF PerLink
    <3>4. Calculated(p, g) \in Nat
      BY <3>3, SafeTimeIs DEF TypeInv
    <3>5. safe' = [safe EXCEPT ![p] = Calculated(p, g)]
      BY <3>1, <3>2
    <3>6. /\ safe' \in [Rank -> Nat] /\ safe'[p] = Calculated(p, g)
          /\ \A r \in Rank : r # p => safe'[r] = safe[r]
      BY <3>4, <3>5 DEF TypeInv
    <3> QED  BY <3>2, <3>6
  <2> QED  BY <2>1, <2>2
<1>13. /\ events' \in [Rank -> SUBSET EventRec] /\ uid' \in [Rank -> Nat]
       /\ \A r \in Rank : r # p => events'[r] = events[r] /\ uid'[r] = uid[r]
       /\ \/ /\ m.rx > 0
             /\ Scheduled(p, q) \in EventRec
             /\ events'[p] = events[p] \cup {Scheduled(p, q)}
             /\ uid'[p] = uid[p] + 1
          \/ /\ m.rx = 0
             /\ UNCHANGED <<events, uid>>
  <2>1. PICK e : e = Event(m.rx, uid[p], Reception(q, m.n))
    OBVIOUS
  <2>2. e = Scheduled(p, q) /\ e \in EventRec
    BY <1>3, <1>8, <2>1 DEF Scheduled
  <2>3. CASE m.rx > 0
    <3>1. /\ events' = [events EXCEPT ![p] = @ \cup {e}]
          /\ uid' = [uid EXCEPT ![p] = @ + 1]
      BY <1>4, <1>7, <2>1, <2>3
    <3> QED  BY <1>5, <2>2, <2>3, <3>1 DEF TypeInv
  <2>4. CASE ~(m.rx > 0)
    <3>1. m.rx = 0 /\ UNCHANGED <<events, uid>>
      BY <1>4, <1>7, <2>4
    <3> QED  BY <3>1 DEF TypeInv
  <2> QED  BY <2>3, <2>4
<1>14. TypeInv'
  BY <1>2, <1>9, <1>10, <1>12, <1>13, TypeInvFrom DEF TypeInv
<1>15. Frame(p)
  BY <1>2, <1>10, <1>12, <1>13, <1>14 DEF Frame, Same
<1> QED  BY <1>2, <1>3, <1>6, <1>11, <1>12, <1>13, <1>15

\* A step is a step of one rank.
LEMMA Steps ==
  ASSUME Next
  PROVE  \E p \in Rank :
           \/ \E d \in Delay : Schedule(p, d)
           \/ \E c \in channels, t \in TxTimes : Transmit(p, c, t)
           \/ Run(p)
           \/ ProcessOneEvent(p)
           \/ NullMessageEventHandler(p)
           \/ PollReceive(p) \/ BlockingReceive(p)
           \/ \/ Stop(p) \/ EventReturns(p) \/ PollEnds(p) \/ NobodyToWaitFor(p)
              \/ RunReturns(p)
BY DEF Next, Progress

LEMMA TypeInvInit == Init => TypeInv
<1> SUFFICES ASSUME Init PROVE TypeInv
  OBVIOUS
<1>1. \A p \in Rank : Event(StopTime, FirstUid, StopCall(p)) \in EventRec
  <2>1. StopTime \in Nat /\ FirstUid \in Nat /\ 0 \in Nat
    BY InputAssumption DEF FirstUid
  <2> QED  BY <2>1, EventType, ActTypes
<1>2. \A p \in Rank : NoAct \in Acts
  BY ActTypes
<1>3. /\ PerLink(guarantee, Nat) /\ PerLink(nullEvent, Nat)
      /\ PerLink(chan, Seq(Message))
  BY DEF Init, PerLink
<1> QED  BY <1>1, <1>2, <1>3 DEF Init, TypeInv, FirstUid

-----------------------------------------------------------------------------
BaseInv == TypeInv /\ RankInv /\ NullsInv

\* The queue of a rank after a packet put off the null message to a neighbour:
\* only that event has changed.
PutOff(p, q) == Cancelled(events[p], nullEvent[p][q])

LEMMA PutOffIs ==
  ASSUME TypeInv, NEW p \in Rank, NEW q \in Neighbours(p), NEW c, NEW t,
         QueueInv(p), NullInv(p, q), phase[p] = "event", ~Sending(p, q),
         EndOf(p, c, t) \in EventRec
  PROVE  /\ Cancelled(Busier(p, c, t), nullEvent[p][q]) =
              PutOff(p, q) \cup {EndOf(p, c, t)}
         /\ PutOff(p, q) \in SUBSET EventRec
         /\ \A f \in PutOff(p, q) : \E e \in events[p] :
              /\ f.ts = e.ts /\ f.uid = e.uid /\ f.act = e.act
              /\ f.live <=> e.live /\ ~IsNull(e, q)
         /\ \A e \in events[p] : \E f \in PutOff(p, q) :
              /\ f.ts = e.ts /\ f.uid = e.uid /\ f.act = e.act
              /\ f.live <=> e.live /\ ~IsNull(e, q)
              /\ ~IsNull(e, q) => f = e
         /\ \A f, g \in PutOff(p, q) : f.uid = g.uid => f = g
         /\ \E e \in events[p] : NextNull(p, q, e)
<1>1. PICK n \in events[p] : NextNull(p, q, n)
  BY DEF NullInv
<1>2. PICK u : u = nullEvent[p][q]
  OBVIOUS
<1>3. n.uid = u /\ u \in Nat /\ u < uid[p] /\ uid[p] \in Nat /\ IsNull(n, q)
  <2>1. uid[p] \in Nat /\ n.uid \in FirstUid..(uid[p] - 1)
    BY Types DEF QueueInv
  <2> QED  BY <1>1, <1>2, <2>1 DEF NextNull, FirstUid
<1>4. \A e \in events[p] : e.uid = u => e = n
  BY <1>3 DEF QueueInv
<1>5. \A e \in events[p] : e.live /\ IsNull(e, q) => e = n
  BY <1>1 DEF NextNull
<1>6. \A e \in events[p] : e.live /\ e.uid # u <=> e.live /\ ~IsNull(e, q)
  BY <1>3, <1>4, <1>5
<1>7. events[p] \in SUBSET EventRec
  BY Types
<1>8. /\ PutOff(p, q) \in SUBSET EventRec
      /\ \A f \in PutOff(p, q) : \E e \in events[p] :
           /\ f.ts = e.ts /\ f.uid = e.uid /\ f.act = e.act
           /\ f.live <=> e.live /\ e.uid # u
           /\ e.uid # u => f = e
      /\ \A e \in events[p] : \E f \in PutOff(p, q) :
           /\ f.ts = e.ts /\ f.uid = e.uid /\ f.act = e.act
           /\ f.live <=> e.live /\ e.uid # u
           /\ e.uid # u => f = e
  <2>1. PutOff(p, q) = Cancelled(events[p], u)
    BY <1>2 DEF PutOff
  <2>2. PICK Q \in SUBSET EventRec : Q = events[p]
    BY <1>7
  <2> QED  BY <2>1, <2>2, CancelledIs
<1>9. \A f, g \in PutOff(p, q) : f.uid = g.uid => f = g
  <2> SUFFICES ASSUME NEW f \in PutOff(p, q), NEW g \in PutOff(p, q),
                      f.uid = g.uid
               PROVE  f = g
    OBVIOUS
  <2>1. PICK d \in events[p] :
           /\ f.ts = d.ts /\ f.uid = d.uid /\ f.act = d.act
           /\ f.live <=> d.live /\ d.uid # u
           /\ d.uid # u => f = d
    BY <1>8
  <2>2. PICK e \in events[p] :
           /\ g.ts = e.ts /\ g.uid = e.uid /\ g.act = e.act
           /\ g.live <=> e.live /\ e.uid # u
           /\ e.uid # u => g = e
    BY <1>8
  <2>3. d = e
    BY <2>1, <2>2 DEF QueueInv
  <2>4. f \in EventRec /\ g \in EventRec
    BY <1>8
  <2>5. f.live = g.live /\ f.ts = g.ts /\ f.act = g.act
    BY <2>1, <2>2, <2>3, <2>4 DEF EventRec
  <2> QED  BY <2>4, <2>5 DEF EventRec
<1>10. Cancelled(Busier(p, c, t), u) = Cancelled(events[p], u) \cup {EndOf(p, c, t)}
  <2>1. EndOf(p, c, t).uid = uid[p]
    BY DEF EndOf, Event
  <2>2. EndOf(p, c, t).uid # u
    BY <1>3, <2>1
  <2> QED  BY <2>2 DEF Cancelled, Busier
<1>11. \A f \in PutOff(p, q) : \E e \in events[p] :
              /\ f.ts = e.ts /\ f.uid = e.uid /\ f.act = e.act
              /\ f.live <=> e.live /\ ~IsNull(e, q)
  BY <1>6, <1>8
<1>12. \A e \in events[p] : \E f \in PutOff(p, q) :
              /\ f.ts = e.ts /\ f.uid = e.uid /\ f.act = e.act
              /\ f.live <=> e.live /\ ~IsNull(e, q)
              /\ ~IsNull(e, q) => f = e
  <2> SUFFICES ASSUME NEW e \in events[p]
               PROVE  \E f \in PutOff(p, q) :
              /\ f.ts = e.ts /\ f.uid = e.uid /\ f.act = e.act
              /\ f.live <=> e.live /\ ~IsNull(e, q)
              /\ ~IsNull(e, q) => f = e
    OBVIOUS
  <2>1. ~IsNull(e, q) => e.uid # u
    BY <1>3, <1>4
  <2>2. PICK f \in PutOff(p, q) :
           /\ f.ts = e.ts /\ f.uid = e.uid /\ f.act = e.act
           /\ f.live <=> e.live /\ e.uid # u
           /\ e.uid # u => f = e
    BY <1>8
  <2> QED  BY <1>6, <2>1, <2>2
<1>13. Cancelled(Busier(p, c, t), nullEvent[p][q]) = PutOff(p, q) \cup {EndOf(p, c, t)}
  BY <1>2, <1>10 DEF PutOff
<1> QED  BY <1>1, <1>8, <1>9, <1>11, <1>12, <1>13

\* Events that stay in a queue are as they were, but for null messages that are
\* cancelled.
Remains(p, K) ==
  /\ \A f \in K : \E e \in events[p] :
       /\ f.uid = e.uid /\ f.act = e.act
       /\ (f.live <=> e.live) \/ e.act.kind = "null"
  /\ \A f, g \in K : f.uid = g.uid => f = g

\* New events have new uids.
NewEvents(p, N) ==
  /\ uid'[p] >= uid[p]
  /\ \A f \in N : /\ f.uid \in uid[p]..(uid'[p] - 1) /\ f.live
                  /\ f.act.kind # "none"
                  /\ f.act.kind = "null" => f.act.on \in Neighbours(p)
                  /\ f.act.kind # "packet" => f.act.from = p /\ f.act.n = f.uid
                  /\ f.act.kind = "packet" => f.act.from \in Neighbours(p)
  /\ \A f, g \in N : f.uid = g.uid => f = g
  /\ phase'[p] = "script" =>
       /\ phase[p] = "script" /\ currentTs'[p] = currentTs[p]
       /\ stop'[p] = stop[p] /\ \A f \in N : f.act.kind # "null"
  /\ phase'[p] = "event" /\ running'[p].kind = "null" =>
       running'[p].on \in Neighbours(p)

LEMMA RemainsAll ==
  ASSUME TypeInv, NEW p \in Rank, QueueInv(p), NEW K \in SUBSET events[p]
  PROVE  Remains(p, K)
<1>1. \A e \in events[p] : e.live \in BOOLEAN
  BY Types
<1>2. \A e \in events[p] : ~e.live => e.act.kind = "null"
  BY DEF QueueInv
<1> QED  BY <1>1, <1>2 DEF QueueInv, Remains

LEMMA QueueStep ==
  ASSUME TypeInv, NEW p \in Rank, Frame(p), QueueInv(p),
         NEW K, NEW N, events'[p] = K \cup N, Remains(p, K), NewEvents(p, N)
  PROVE  QueueInv(p)'
<1>1. PICK u, v \in Nat : u = uid[p] /\ v = uid'[p] /\ u <= v
  BY Types DEF Frame, TypeInv, NewEvents
<1>2. Neighbours(p)' = Neighbours(p)
  BY SameChannels DEF Frame
<1>3. \A f \in K : /\ f.uid \in FirstUid..(u - 1)
                   /\ f.act.kind # "none"
                   /\ f.act.kind = "null" => f.act.on \in Neighbours(p)
                   /\ ~f.live => f.act.kind = "null"
                   /\ f.act.kind # "packet" => f.act.from = p /\ f.act.n = f.uid
                   /\ f.act.kind = "packet" => f.act.from \in Neighbours(p)
                   /\ phase[p] = "script" => f.act.kind # "null"
  BY <1>1 DEF QueueInv, Remains
<1>4. u > FirstUid /\ v > FirstUid /\ FirstUid \in Nat
  BY <1>1 DEF QueueInv, FirstUid
<1>5. \A f \in K \cup N :
        /\ f.uid \in FirstUid..(v - 1)
        /\ f.act.kind # "none"
        /\ f.act.kind = "null" => f.act.on \in Neighbours(p)
        /\ ~f.live => f.act.kind = "null"
        /\ f.act.kind # "packet" => f.act.from = p /\ f.act.n = f.uid
        /\ f.act.kind = "packet" => f.act.from \in Neighbours(p)
  <2>1. \A f \in K : f.uid \in FirstUid..(v - 1)
    BY <1>1, <1>3, <1>4
  <2>2. \A f \in N : f.uid \in FirstUid..(v - 1)
    BY <1>1, <1>4 DEF NewEvents
  <2> QED  BY <1>3, <2>1, <2>2 DEF NewEvents
<1>6. \A f, g \in K \cup N : f.uid = g.uid => f = g
  <2>1. \A f \in K, g \in N : f.uid # g.uid
    BY <1>1, <1>3, <1>4 DEF NewEvents
  <2> QED  BY <2>1 DEF NewEvents, Remains
<1>7. phase'[p] = "script" =>
        currentTs'[p] = 0 /\ ~stop'[p] /\ \A f \in K \cup N : f.act.kind # "null"
  BY <1>3 DEF QueueInv, NewEvents
<1> QED  BY <1>1, <1>2, <1>4, <1>5, <1>6, <1>7 DEF QueueInv, NewEvents

LEMMA SameRank ==
  ASSUME NEW r \in Rank, Same(r), channels' = channels
  PROVE  /\ QueueInv(r) => QueueInv(r)'
         /\ StopInv(r) => StopInv(r)'
         /\ BusyInv(r) => BusyInv(r)'
         /\ \A q : NullInv(r, q) => NullInv(r, q)'
<1>1. Neighbours(r)' = Neighbours(r)
  BY SameChannels
<1>2. QueueInv(r) => QueueInv(r)'
  BY <1>1 DEF QueueInv, Same
<1>3. StopInv(r) => StopInv(r)'
  BY DEF StopInv, Same
<1>4. BusyInv(r) => BusyInv(r)'
  BY DEF BusyInv, Same
<1>5. \A q : NullInv(r, q) => NullInv(r, q)'
  BY DEF NullInv, Sending, NextNull, Same
<1> QED  BY <1>2, <1>3, <1>4, <1>5

\* It is enough to look at the rank that steps.
LEMMA OwnRank ==
  ASSUME BaseInv, NEW p \in Rank, Frame(p),
         QueueInv(p)' /\ StopInv(p)' /\ BusyInv(p)',
         \A q \in Neighbours(p) : NullInv(p, q)'
  PROVE  BaseInv'
<1>1. \A r \in Rank : Neighbours(r)' = Neighbours(r)
  BY SameChannels DEF Frame
<1>2. ASSUME NEW r \in Rank, r # p
      PROVE  /\ QueueInv(r)' /\ StopInv(r)' /\ BusyInv(r)'
             /\ \A q \in Neighbours(r) : NullInv(r, q)'
  <2>1. Same(r) /\ channels' = channels
    BY <1>2 DEF Frame
  <2> QED  BY <2>1, SameRank DEF BaseInv, RankInv, NullsInv
<1> QED  BY <1>1, <1>2 DEF BaseInv, RankInv, NullsInv, Frame

LEMMA BaseInvInit == Init => BaseInv
<1> SUFFICES ASSUME Init PROVE BaseInv
  OBVIOUS
<1>1. TypeInv
  BY TypeInvInit
<1>2. ASSUME NEW p \in Rank
      PROVE  /\ QueueInv(p) /\ StopInv(p) /\ BusyInv(p)
             /\ \A q \in Neighbours(p) : NullInv(p, q)
  <2>1. /\ events[p] = {Event(StopTime, FirstUid, StopCall(p))}
        /\ uid[p] = FirstUid + 1 /\ currentTs[p] = 0 /\ ~stop[p]
        /\ phase[p] = "script" /\ FirstUid \in Nat /\ StopTime \in Nat
    BY InputAssumption DEF Init, FirstUid
  <2>2. QueueInv(p)
    BY <2>1 DEF QueueInv, Event, StopCall
  <2> QED  BY <2>1, <2>2 DEF StopInv, BusyInv, NullInv, Event, StopCall
<1> QED  BY <1>1, <1>2 DEF BaseInv, RankInv, NullsInv

LEMMA EndOfIs ==
  ASSUME TypeInv, NEW p \in Rank, NEW c, NEW t
  PROVE  /\ EndOf(p, c, t).ts = currentTs[p] + t /\ EndOf(p, c, t).uid = uid[p]
         /\ EndOf(p, c, t).act = Complete(p, uid[p], c)
         /\ EndOf(p, c, t).act.kind = "complete" /\ EndOf(p, c, t).act.on = c.id
         /\ EndOf(p, c, t).act.from = p /\ EndOf(p, c, t).act.n = uid[p]
         /\ EndOf(p, c, t).live
BY DEF EndOf, Event, Complete

LEMMA LaterNullIs ==
  ASSUME TypeInv, NEW p \in Rank, NEW q, NEW u
  PROVE  /\ LaterNull(p, q, u).ts = currentTs[p] + NullInterval(p, q)
         /\ LaterNull(p, q, u).uid = u
         /\ LaterNull(p, q, u).act = Null(p, u, q)
         /\ IsNull(LaterNull(p, q, u), q) /\ LaterNull(p, q, u).live
         /\ \A s : s # q => ~IsNull(LaterNull(p, q, u), s)
         /\ LaterNull(p, q, u).act.kind = "null" /\ LaterNull(p, q, u).act.on = q
         /\ LaterNull(p, q, u).act.from = p /\ LaterNull(p, q, u).act.n = u
BY DEF LaterNull, Event, Null, IsNull

\* Of what is in a queue and what the rank will do with it, nothing changed for
\* one neighbour.
LEMMA SameNull ==
  ASSUME NEW p \in Rank, NEW q \in Neighbours(p), NullInv(p, q),
         phase[p] # "script", ~Sending(p, q), ~Sending(p, q)',
         nullEvent'[p][q] = nullEvent[p][q],
         \A e : e.live /\ IsNull(e, q) =>
           (e \in events'[p] <=> e \in events[p])
  PROVE  NullInv(p, q)'
<1>1. PICK e \in events[p] : NextNull(p, q, e)
  BY DEF NullInv
<1>2. NextNull(p, q, e)'
  BY <1>1 DEF NextNull, IsNull
<1> QED  BY <1>2 DEF NullInv, NextNull

LEMMA ScheduleBase ==
  ASSUME BaseInv, NEW p \in Rank, NEW d \in Delay, Schedule(p, d)
  PROVE  BaseInv'
<1> DEFINE x == Event(currentTs[p] + d, uid[p], Call(p, uid[p]))
<1>1. /\ Frame(p) /\ Calling(p)
      /\ events'[p] = events[p] \cup {x}
      /\ uid'[p] = uid[p] + 1
      /\ UNCHANGED <<currentTs, stop, safe, guarantee, nullEvent, busy,
                     chan, phase, running>>
  BY ScheduleEffect DEF BaseInv
<1>2. x.uid = uid[p] /\ x.act = Call(p, uid[p]) /\ x.live
      /\ x.act.kind = "call" /\ x.act.from = p /\ x.act.n = uid[p]
  BY DEF Event, Call
<1>3. TypeInv /\ QueueInv(p) /\ StopInv(p) /\ BusyInv(p) /\ uid[p] \in Nat
      /\ \A q \in Neighbours(p) : NullInv(p, q)
  BY Types DEF BaseInv, RankInv, NullsInv
<1> HIDE DEF x
<1>4. QueueInv(p)'
  <2>1. \A f \in {x} : f.uid \in uid[p]..(uid'[p] - 1)
    BY <1>1, <1>2, <1>3
  <2>2. uid'[p] >= uid[p]
    BY <1>1, <1>3
  <2>3. phase'[p] = "event" /\ running'[p].kind = "null" =>
           running'[p].on \in Neighbours(p)
    BY <1>1, <1>3 DEF QueueInv
  <2>4. NewEvents(p, {x})
    BY <1>1, <1>2, <2>1, <2>2, <2>3 DEF NewEvents
  <2>5. Remains(p, events[p])
    BY <1>3, RemainsAll
  <2> QED  BY <1>1, <1>3, <2>4, <2>5, QueueStep
<1>5. StopInv(p)'
  BY <1>1, <1>3 DEF StopInv
<1>6. BusyInv(p)'
  BY <1>1, <1>2, <1>3 DEF BusyInv
<1>7. ASSUME NEW q \in Neighbours(p) PROVE NullInv(p, q)'
  <2>1. ~IsNull(x, q)
    BY <1>2 DEF IsNull
  <2>2. CASE phase[p] = "script"
    BY <1>1, <2>2 DEF NullInv
  <2>3. CASE phase[p] # "script"
    <3>1. ~Sending(p, q) /\ ~Sending(p, q)'
      BY <1>1, <2>3 DEF Calling, Sending
    <3> QED  BY <1>1, <1>3, <2>1, <2>3, <3>1, SameNull
  <2> QED  BY <2>2, <2>3
<1> QED  BY <1>1, <1>4, <1>5, <1>6, <1>7, OwnRank

LEMMA FirstNullIs ==
  ASSUME NEW p \in Rank, NEW q
  PROVE  /\ FirstNull(p, q).ts = currentTs[p] + NullInterval(p, q)
         /\ FirstNull(p, q).uid = Turn(p, q) /\ FirstNull(p, q).live
         /\ FirstNull(p, q).act = Null(p, Turn(p, q), q)
         /\ IsNull(FirstNull(p, q), q)
         /\ \A s : s # q => ~IsNull(FirstNull(p, q), s)
         /\ FirstNull(p, q).act.kind = "null" /\ FirstNull(p, q).act.on = q
         /\ FirstNull(p, q).act.from = p /\ FirstNull(p, q).act.n = Turn(p, q)
BY DEF FirstNull, Event, Null, IsNull

LEMMA RunBase ==
  ASSUME BaseInv, NEW p \in Rank, Run(p)
  PROVE  BaseInv'
<1> DEFINE N == {FirstNull(p, q) : q \in Neighbours(p)}
<1>1. /\ Frame(p) /\ phase[p] = "script" /\ phase'[p] = "loop"
      /\ stop'[p] = FALSE
      /\ events'[p] = events[p] \cup N
      /\ uid'[p] = uid[p] + Cardinality(Neighbours(p))
      /\ \A q \in Neighbours(p) : nullEvent'[p][q] = Turn(p, q)
      /\ UNCHANGED <<currentTs, safe, guarantee, busy, running>>
  BY RunEffect DEF BaseInv
<1>2. TypeInv /\ QueueInv(p) /\ StopInv(p) /\ BusyInv(p) /\ uid[p] \in Nat
  BY Types DEF BaseInv, RankInv
<1>3. \A f \in N : \E q \in Neighbours(p) : f = FirstNull(p, q)
  OBVIOUS
<1>4. \A q \in Neighbours(p) : FirstNull(p, q) \in N
  OBVIOUS
<1> HIDE DEF N
<1>5. \A q \in Neighbours(p) :
        /\ Turn(p, q) \in Nat /\ Cardinality(Neighbours(p)) \in Nat
        /\ uid[p] <= Turn(p, q)
        /\ Turn(p, q) < uid[p] + Cardinality(Neighbours(p))
        /\ \A s \in Neighbours(p) : Turn(p, s) = Turn(p, q) => s = q
  BY <1>2, TurnIs
<1>6. Cardinality(Neighbours(p)) \in Nat
  BY NeighboursFinite, FS_CardinalityType
<1>7. QueueInv(p)'
  <2>1. ASSUME NEW f \in N
        PROVE  /\ f.uid \in uid[p]..(uid'[p] - 1) /\ f.live
               /\ f.act.kind = "null" /\ f.act.on \in Neighbours(p)
               /\ f.act.from = p /\ f.act.n = f.uid
    <3>1. PICK q \in Neighbours(p) : f = FirstNull(p, q)
      BY <1>3
    <3>2. f.uid = Turn(p, q) /\ f.live /\ f.act.kind = "null" /\ f.act.on = q
          /\ f.act.from = p /\ f.act.n = Turn(p, q)
      BY <3>1, FirstNullIs
    <3>3. Turn(p, q) \in uid[p]..(uid'[p] - 1)
      BY <1>1, <1>2, <1>5, <1>6
    <3> QED  BY <3>2, <3>3
  <2>2. uid'[p] >= uid[p]
    BY <1>1, <1>2, <1>6
  <2>3. \A f, g \in N : f.uid = g.uid => f = g
    <3> SUFFICES ASSUME NEW f \in N, NEW g \in N, f.uid = g.uid PROVE f = g
      OBVIOUS
    <3>1. PICK q \in Neighbours(p) : f = FirstNull(p, q)
      BY <1>3
    <3>2. PICK s \in Neighbours(p) : g = FirstNull(p, s)
      BY <1>3
    <3>3. Turn(p, q) = Turn(p, s)
      BY <3>1, <3>2, FirstNullIs
    <3> QED  BY <1>5, <3>1, <3>2, <3>3
  <2>4. NewEvents(p, N)
    BY <1>1, <2>1, <2>2, <2>3 DEF NewEvents
  <2>5. Remains(p, events[p])
    BY <1>2, RemainsAll
  <2> QED  BY <1>1, <1>2, <2>4, <2>5, QueueStep
<1>8. StopInv(p)'
  <2>1. \E e \in events[p] : e.ts = StopTime /\ e.act.kind = "stop"
    BY <1>1, <1>2 DEF StopInv, QueueInv
  <2> QED  BY <1>1, <1>2, <2>1 DEF StopInv
<1>9. BusyInv(p)'
  <2>1. \A f \in N : f.act.kind # "complete"
    BY <1>3, FirstNullIs
  <2> QED  BY <1>1, <1>2, <2>1 DEF BusyInv
<1>10. ASSUME NEW q \in Neighbours(p) PROVE NullInv(p, q)'
  <2>1. ~Sending(p, q)'
    BY <1>1 DEF Sending
  <2>2. FirstNull(p, q) \in events'[p]
    BY <1>1, <1>4
  <2>3. ASSUME NEW f \in events'[p], IsNull(f, q) PROVE f = FirstNull(p, q)
    <3>1. f \notin events[p]
      BY <1>1, <1>2, <2>3 DEF QueueInv, IsNull
    <3>2. PICK s \in Neighbours(p) : f = FirstNull(p, s)
      BY <1>1, <1>3, <3>1
    <3>3. s = q
      BY <2>3, <3>2, FirstNullIs
    <3> QED  BY <3>2, <3>3
  <2>4. PICK e : e = FirstNull(p, q)
    OBVIOUS
  <2>5. IsNull(e, q) /\ e.live /\ e.uid = nullEvent'[p][q] /\ e \in events'[p]
    BY <1>1, <2>2, <2>4, FirstNullIs
  <2>6. NextNull(p, q, e)'
    BY <2>3, <2>4, <2>5 DEF NextNull, IsNull
  <2> QED  BY <2>1, <2>5, <2>6 DEF NullInv
<1> QED  BY <1>1, <1>7, <1>8, <1>9, <1>10, OwnRank

\* An event that transmits sends no null message.
LEMMA CallingIsNotSending ==
  ASSUME NEW p, NEW q, phase[p] = "event", Calling(p)
  PROVE  ~Sending(p, q)
BY DEF Calling, Sending

\* The facts about a transmission that its proofs need, on the sending rank.
Transmitted(p, q, c, t) ==
  /\ c \in channels /\ c \in ChannelsOf(p, q)
  /\ Frame(p) /\ phase[p] = "event" /\ c.id \notin busy[p]
  /\ running[p].kind \in {"call", "complete", "packet"}
  /\ \A s : ~Sending(p, s)
  /\ c.delay \in Nat /\ t \in Nat /\ c.id \in Nat
  /\ EndOf(p, c, t) \in EventRec
  /\ events'[p] = PutOff(p, q) \cup {EndOf(p, c, t), LaterNull(p, q, uid[p] + 1)}
  /\ Busier(p, c, t) \in SUBSET EventRec
  /\ Sends(p, q, PacketOf(p, q, c, t))
  /\ nullEvent'[p][q] = uid[p] + 1
  /\ \A s \in Neighbours(p) : s # q => nullEvent'[p][s] = nullEvent[p][s]
  /\ uid'[p] = uid[p] + 2
  /\ busy'[p] = busy[p] \cup {c.id}
  /\ UNCHANGED <<currentTs, stop, safe, guarantee, phase, running>>
  /\ PutOff(p, q) \in SUBSET EventRec
  /\ \A f \in PutOff(p, q) : \E e \in events[p] :
       /\ f.ts = e.ts /\ f.uid = e.uid /\ f.act = e.act
       /\ f.live <=> e.live /\ ~IsNull(e, q)
  /\ \A e \in events[p] : \E f \in PutOff(p, q) :
       /\ f.ts = e.ts /\ f.uid = e.uid /\ f.act = e.act
       /\ f.live <=> e.live /\ ~IsNull(e, q)
       /\ ~IsNull(e, q) => f = e
  /\ \A f, g \in PutOff(p, q) : f.uid = g.uid => f = g
  /\ \E e \in events[p] : NextNull(p, q, e)

LEMMA TransmitIs ==
  ASSUME BaseInv, NEW p \in Rank, NEW c \in channels, NEW t \in TxTimes,
         Transmit(p, c, t)
  PROVE  \E q \in Neighbours(p) : Transmitted(p, q, c, t)
<1>1. PICK q \in Neighbours(p) :
           /\ c \in ChannelsOf(p, q)
           /\ Frame(p) /\ phase[p] = "event" /\ Calling(p) /\ c.id \notin busy[p]
           /\ EndOf(p, c, t) \in EventRec /\ LaterNull(p, q, uid[p] + 1) \in EventRec
           /\ Busier(p, c, t) \in SUBSET EventRec
           /\ c.delay \in Nat /\ t \in Nat /\ c.id \in Nat
           /\ events'[p] = Cancelled(Busier(p, c, t), nullEvent[p][q]) \cup
                             {LaterNull(p, q, uid[p] + 1)}
           /\ Sends(p, q, PacketOf(p, q, c, t))
           /\ nullEvent'[p][q] = uid[p] + 1
           /\ \A s \in Neighbours(p) : s # q => nullEvent'[p][s] = nullEvent[p][s]
           /\ uid'[p] = uid[p] + 2
           /\ busy'[p] = busy[p] \cup {c.id}
           /\ UNCHANGED <<currentTs, stop, safe, guarantee, phase, running>>
  BY TransmitEffect DEF BaseInv
<1>2. \A s : ~Sending(p, s)
  BY <1>1, CallingIsNotSending
<1>3. TypeInv /\ QueueInv(p) /\ NullInv(p, q)
  BY DEF BaseInv, RankInv, NullsInv
<1>4. /\ Cancelled(Busier(p, c, t), nullEvent[p][q]) =
              PutOff(p, q) \cup {EndOf(p, c, t)}
      /\ PutOff(p, q) \in SUBSET EventRec
      /\ \A f \in PutOff(p, q) : \E e \in events[p] :
           /\ f.ts = e.ts /\ f.uid = e.uid /\ f.act = e.act
           /\ f.live <=> e.live /\ ~IsNull(e, q)
      /\ \A e \in events[p] : \E f \in PutOff(p, q) :
           /\ f.ts = e.ts /\ f.uid = e.uid /\ f.act = e.act
           /\ f.live <=> e.live /\ ~IsNull(e, q)
           /\ ~IsNull(e, q) => f = e
      /\ \A f, g \in PutOff(p, q) : f.uid = g.uid => f = g
      /\ \E e \in events[p] : NextNull(p, q, e)
  BY <1>1, <1>2, <1>3, PutOffIs
<1>5. events'[p] = PutOff(p, q) \cup {EndOf(p, c, t), LaterNull(p, q, uid[p] + 1)}
  BY <1>1, <1>4
<1>6. running[p].kind \in {"call", "complete", "packet"}
  BY <1>1 DEF Calling
<1> QED  BY <1>1, <1>2, <1>4, <1>5, <1>6 DEF Transmitted

LEMMA TransmitBase ==
  ASSUME BaseInv, NEW p \in Rank, NEW c \in channels, NEW t \in TxTimes,
         Transmit(p, c, t)
  PROVE  BaseInv'
<1>1. PICK q \in Neighbours(p) : Transmitted(p, q, c, t)
  BY TransmitIs
<1>2. TypeInv /\ QueueInv(p) /\ StopInv(p) /\ BusyInv(p) /\ uid[p] \in Nat
      /\ \A s \in Neighbours(p) : NullInv(p, s)
  BY Types DEF BaseInv, RankInv, NullsInv
<1>3. PICK x, y : x = EndOf(p, c, t) /\ y = LaterNull(p, q, uid[p] + 1)
  OBVIOUS
<1>4. /\ x.uid = uid[p] /\ x.act.kind = "complete" /\ x.act.on = c.id
      /\ x.act.from = p /\ x.act.n = uid[p] /\ x.live
  BY <1>2, <1>3, EndOfIs
<1>5. /\ y.uid = uid[p] + 1 /\ y.act.kind = "null" /\ y.act.on = q /\ y.live
      /\ y.act.from = p /\ y.act.n = uid[p] + 1 /\ IsNull(y, q)
      /\ \A s : s # q => ~IsNull(y, s)
  BY <1>2, <1>3, LaterNullIs
<1>6. PICK K : K = PutOff(p, q)
  OBVIOUS
<1>7. /\ Frame(p) /\ phase[p] = "event" /\ c.id \notin busy[p]
      /\ \A s : ~Sending(p, s)
      /\ running[p].kind \in {"call", "complete", "packet"}
      /\ events'[p] = K \cup {x, y}
      /\ nullEvent'[p][q] = uid[p] + 1
      /\ \A s \in Neighbours(p) : s # q => nullEvent'[p][s] = nullEvent[p][s]
      /\ uid'[p] = uid[p] + 2
      /\ busy'[p] = busy[p] \cup {c.id}
      /\ UNCHANGED <<currentTs, stop, safe, guarantee, phase, running>>
  BY <1>1, <1>3, <1>6 DEF Transmitted
<1>8. /\ \A f \in K : \E e \in events[p] :
           /\ f.ts = e.ts /\ f.uid = e.uid /\ f.act = e.act
           /\ f.live <=> e.live /\ ~IsNull(e, q)
      /\ \A e \in events[p] : \E f \in K :
           /\ f.ts = e.ts /\ f.uid = e.uid /\ f.act = e.act
           /\ f.live <=> e.live /\ ~IsNull(e, q)
           /\ ~IsNull(e, q) => f = e
      /\ \A f, g \in K : f.uid = g.uid => f = g
      /\ K \in SUBSET EventRec
  BY <1>1, <1>6 DEF Transmitted
<1>9. QueueInv(p)'
  <2>1. \A f \in {x, y} : f.uid \in uid[p]..(uid'[p] - 1)
    BY <1>2, <1>4, <1>5, <1>7
  <2>2. uid'[p] >= uid[p] /\ x.uid # y.uid
    BY <1>2, <1>4, <1>5, <1>7
  <2>3. NewEvents(p, {x, y})
    BY <1>4, <1>5, <1>7, <2>1, <2>2 DEF NewEvents
  <2>4. \A f \in K : \E e \in events[p] :
           /\ f.uid = e.uid /\ f.act = e.act
           /\ (f.live <=> e.live) \/ e.act.kind = "null"
    BY <1>8 DEF IsNull
  <2>5. Remains(p, K)
    BY <1>8, <2>4 DEF Remains
  <2> QED  BY <1>2, <1>7, <2>3, <2>5, QueueStep
<1>10. StopInv(p)'
  <2>1. stop[p] \/ \E e \in events[p] : e.ts = StopTime /\ e.act.kind = "stop"
    BY <1>2, <1>7 DEF StopInv
  <2>2. stop[p] \/ \E e \in K : e.ts = StopTime /\ e.act.kind = "stop"
    BY <1>8, <2>1
  <2> QED  BY <1>2, <1>7, <2>2 DEF StopInv
<1>11. BusyInv(p)'
  <2>1. \A f \in K : f.act.kind = "complete" => f.act.on \in busy[p]
    BY <1>2, <1>8 DEF BusyInv
  <2>2. ASSUME NEW f \in K, NEW g \in K, f.act.kind = "complete",
               g.act.kind = "complete", f.act.on = g.act.on
        PROVE  f = g
    <3>1. PICK d \in events[p] : f.uid = d.uid /\ f.act = d.act
      BY <1>8
    <3>2. PICK e \in events[p] : g.uid = e.uid /\ g.act = e.act
      BY <1>8
    <3>3. d = e
      BY <1>2, <2>2, <3>1, <3>2 DEF BusyInv
    <3> QED  BY <1>8, <3>1, <3>2, <3>3
  <2> QED  BY <1>4, <1>5, <1>7, <2>1, <2>2 DEF BusyInv
<1>12. ASSUME NEW s \in Neighbours(p) PROVE NullInv(p, s)'
  <2>1. ~Sending(p, s)'
    BY <1>7 DEF Sending
  <2>2. CASE s = q
    <3>1. \A f \in K : IsNull(f, q) => ~f.live
      BY <1>8 DEF IsNull
    <3>2. NextNull(p, q, y)'
      BY <1>4, <1>5, <1>7, <3>1 DEF NextNull, IsNull
    <3>3. y \in events'[p]
      BY <1>7
    <3> QED  BY <2>1, <2>2, <3>2, <3>3 DEF NullInv
  <2>3. CASE s # q
    <3>1. ~IsNull(x, s) /\ ~IsNull(y, s)
      BY <1>4, <1>5, <2>3 DEF IsNull
    <3>2. PICK n \in events[p] : NextNull(p, s, n)
      BY <1>2, <1>7 DEF NullInv
    <3>3. n \in K
      <4>1. ~IsNull(n, q)
        BY <2>3, <3>2 DEF NextNull, IsNull
      <4> QED  BY <1>8, <4>1
    <3>4. ASSUME NEW f \in K \ {n}, IsNull(f, s) PROVE ~f.live
      <4>1. PICK e \in events[p] : /\ f.uid = e.uid /\ f.act = e.act
                                   /\ f.live <=> e.live /\ ~IsNull(e, q)
        BY <1>8
      <4>2. e # n
        BY <1>8, <3>3, <4>1
      <4> QED  BY <3>2, <3>4, <4>1, <4>2 DEF NextNull, IsNull
    <3>5. NextNull(p, s, n)'
      BY <1>7, <2>3, <3>1, <3>2, <3>3, <3>4 DEF NextNull, IsNull
    <3>6. n \in events'[p]
      BY <1>7, <3>3
    <3> QED  BY <2>1, <3>5, <3>6 DEF NullInv
  <2> QED  BY <2>2, <2>3
<1> QED  BY <1>7, <1>9, <1>10, <1>11, <1>12, OwnRank

LEMMA ProcessBase ==
  ASSUME BaseInv, NEW p \in Rank, ProcessOneEvent(p)
  PROVE  BaseInv'
<1>1. PICK e \in events[p] :
           /\ Frame(p) /\ phase[p] = "loop" /\ ~stop[p]
           /\ IsFirst(e, events[p]) /\ e.ts <= safe[p]
           /\ currentTs'[p] = e.ts
           /\ events'[p] = events[p] \ {e}
           /\ running'[p] = IF e.live THEN e.act ELSE NoAct
           /\ busy'[p] = IF e.act.kind = "complete" THEN busy[p] \ {e.act.on}
                         ELSE busy[p]
           /\ phase'[p] = IF e.live THEN "event" ELSE "poll"
           /\ UNCHANGED <<uid, stop, safe, guarantee, nullEvent, chan>>
  BY ProcessEffect DEF BaseInv
<1>2. TypeInv /\ QueueInv(p) /\ StopInv(p) /\ BusyInv(p) /\ uid[p] \in Nat
      /\ (\A s \in Neighbours(p) : NullInv(p, s))
      /\ \A f \in events[p] : f.ts \in Nat /\ f.live \in BOOLEAN
  BY Types DEF BaseInv, RankInv, NullsInv
<1>3. QueueInv(p)'
  <2>1. NewEvents(p, {})
    BY <1>1, <1>2 DEF NewEvents, QueueInv
  <2>2. events[p] \ {e} \in SUBSET events[p]
    OBVIOUS
  <2>3. Remains(p, events[p] \ {e})
    BY <1>2, <2>2, RemainsAll
  <2>4. events'[p] = (events[p] \ {e}) \cup {}
    BY <1>1
  <2> QED  BY <1>1, <1>2, <2>1, <2>3, <2>4, QueueStep
<1>4. StopInv(p)'
  <2>1. PICK f \in events[p] : f.ts = StopTime /\ f.act.kind = "stop"
    BY <1>1, <1>2 DEF StopInv
  <2>2. e.ts <= StopTime
    BY <1>1, <1>2, <2>1 DEF IsFirst, Before
  <2>3. f = e => e.live
    BY <1>2, <2>1 DEF QueueInv
  <2>4. CASE f = e
    BY <1>1, <2>1, <2>2, <2>3, <2>4 DEF StopInv
  <2>5. CASE f # e
    BY <1>1, <2>1, <2>2, <2>5 DEF StopInv
  <2> QED  BY <2>4, <2>5
<1>5. BusyInv(p)'
  BY <1>1, <1>2 DEF BusyInv
<1>6. ASSUME NEW s \in Neighbours(p) PROVE NullInv(p, s)'
  <2>1. PICK n \in events[p] : NextNull(p, s, n)
    BY <1>1, <1>2 DEF NullInv, Sending
  <2>2. CASE n = e
    <3>1. Sending(p, s)'
      BY <1>1, <2>1, <2>2 DEF Sending, NextNull, IsNull
    <3>2. \A f \in events'[p] : IsNull(f, s) => ~f.live
      BY <1>1, <2>1, <2>2 DEF NextNull
    <3> QED  BY <3>1, <3>2 DEF NullInv, IsNull
  <2>3. CASE n # e
    <3>1. ~Sending(p, s)'
      BY <1>1, <2>1, <2>3 DEF Sending, NextNull, IsNull
    <3>2. NextNull(p, s, n)'
      BY <1>1, <2>1, <2>3 DEF NextNull, IsNull
    <3>3. n \in events'[p]
      BY <1>1, <2>3
    <3> QED  BY <3>1, <3>2, <3>3 DEF NullInv
  <2> QED  BY <2>2, <2>3
<1> QED  BY <1>1, <1>3, <1>4, <1>5, <1>6, OwnRank

LEMMA NullBase ==
  ASSUME BaseInv, NEW p \in Rank, NullMessageEventHandler(p)
  PROVE  BaseInv'
<1>2. TypeInv /\ QueueInv(p) /\ StopInv(p) /\ BusyInv(p) /\ uid[p] \in Nat
      /\ \A s \in Neighbours(p) : NullInv(p, s)
  BY Types DEF BaseInv, RankInv, NullsInv
<1>1. PICK q \in Neighbours(p) :
           /\ Frame(p) /\ Sending(p, q) /\ phase'[p] = "poll"
           /\ events'[p] = events[p] \cup {LaterNull(p, q, uid[p])}
           /\ nullEvent'[p][q] = uid[p]
           /\ \A s \in Neighbours(p) : s # q => nullEvent'[p][s] = nullEvent[p][s]
           /\ uid'[p] = uid[p] + 1
           /\ UNCHANGED <<currentTs, stop, safe, guarantee, busy>>
  BY <1>2, NullEffect
<1>3. PICK y : y = LaterNull(p, q, uid[p])
  OBVIOUS
<1>4. /\ y.uid = uid[p] /\ y.act.kind = "null" /\ y.act.on = q /\ y.live
      /\ y.act.from = p /\ y.act.n = uid[p] /\ IsNull(y, q)
      /\ \A s : s # q => ~IsNull(y, s)
  BY <1>2, <1>3, LaterNullIs
<1>5. QueueInv(p)'
  <2>1. y.uid \in uid[p]..(uid'[p] - 1) /\ uid'[p] >= uid[p]
    BY <1>1, <1>2, <1>4
  <2>2. NewEvents(p, {y})
    BY <1>1, <1>4, <2>1 DEF NewEvents
  <2>3. Remains(p, events[p])
    BY <1>2, RemainsAll
  <2> QED  BY <1>1, <1>2, <1>3, <2>2, <2>3, QueueStep
<1>6. StopInv(p)'
  BY <1>1, <1>2 DEF StopInv, Sending
<1>7. BusyInv(p)'
  BY <1>1, <1>2, <1>3, <1>4 DEF BusyInv
<1>8. ASSUME NEW s \in Neighbours(p) PROVE NullInv(p, s)'
  <2>1. ~Sending(p, s)'
    BY <1>1 DEF Sending
  <2>2. CASE s = q
    <3>1. \A f \in events[p] : IsNull(f, q) => ~f.live
      BY <1>1, <1>2 DEF NullInv, Sending
    <3>2. NextNull(p, q, y)'
      BY <1>1, <1>3, <1>4, <3>1 DEF NextNull, IsNull
    <3>3. y \in events'[p]
      BY <1>1, <1>3
    <3> QED  BY <2>1, <2>2, <3>2, <3>3 DEF NullInv
  <2>3. CASE s # q
    <3>1. ~Sending(p, s) /\ phase[p] # "script"
      BY <1>1, <2>3 DEF Sending
    <3>2. ~IsNull(y, s)
      BY <1>4, <2>3
    <3>3. events'[p] = events[p] \cup {y}
      BY <1>1, <1>3
    <3> QED  BY <1>1, <1>2, <2>1, <2>3, <3>1, <3>2, <3>3, SameNull
  <2> QED  BY <2>2, <2>3
<1> QED  BY <1>1, <1>5, <1>6, <1>7, <1>8, OwnRank

LEMMA ReceiveBase ==
  ASSUME BaseInv, NEW p \in Rank, PollReceive(p) \/ BlockingReceive(p)
  PROVE  BaseInv'
<1>1. PICK q \in Neighbours(p) :
           /\ Frame(p) /\ Taken(q, p) /\ phase[p] \in {"loop", "poll"}
           /\ Head(chan[q][p]) \in Message
           /\ \/ /\ Head(chan[q][p]).rx > 0
                 /\ Scheduled(p, q) \in EventRec
                 /\ events'[p] = events[p] \cup {Scheduled(p, q)}
                 /\ uid'[p] = uid[p] + 1
              \/ /\ Head(chan[q][p]).rx = 0
                 /\ UNCHANGED <<events, uid>>
           /\ UNCHANGED <<currentTs, stop, nullEvent, busy, phase, running>>
  BY ReceiveEffect DEF BaseInv
<1>2. TypeInv /\ QueueInv(p) /\ StopInv(p) /\ BusyInv(p) /\ uid[p] \in Nat
      /\ \A s \in Neighbours(p) : NullInv(p, s)
  BY Types DEF BaseInv, RankInv, NullsInv
<1>3. PICK x : x = Scheduled(p, q)
  OBVIOUS
<1>4. /\ x.uid = uid[p] /\ x.act.kind = "packet" /\ x.act.from = q /\ x.live
  BY <1>3 DEF Scheduled, Event, Reception
<1>5. PICK N \in SUBSET {x} :
        /\ events'[p] = events[p] \cup N
        /\ uid'[p] >= uid[p] /\ (x \in N => uid'[p] = uid[p] + 1)
  <2>1. CASE /\ events'[p] = events[p] \cup {Scheduled(p, q)}
             /\ uid'[p] = uid[p] + 1
    <3>1. {x} \in SUBSET {x} /\ events'[p] = events[p] \cup {x}
      BY <1>3, <2>1
    <3>2. uid'[p] >= uid[p] /\ uid'[p] = uid[p] + 1
      BY <1>2, <2>1
    <3> WITNESS {x} \in SUBSET {x}
    <3> QED  BY <3>1, <3>2
  <2>2. CASE UNCHANGED <<events, uid>>
    <3>1. events'[p] = events[p] \cup {} /\ uid'[p] >= uid[p]
      BY <1>2, <2>2
    <3> WITNESS {} \in SUBSET {x}
    <3> QED  BY <3>1
  <2> QED  BY <1>1, <2>1, <2>2
<1>6. QueueInv(p)'
  <2>1. \A f \in N : f.uid \in uid[p]..(uid'[p] - 1)
    BY <1>2, <1>4, <1>5
  <2>2. NewEvents(p, N)
    BY <1>1, <1>4, <1>5, <2>1 DEF NewEvents
  <2>3. Remains(p, events[p])
    BY <1>2, RemainsAll
  <2> QED  BY <1>1, <1>2, <1>5, <2>2, <2>3, QueueStep
<1>7. StopInv(p)'
  BY <1>1, <1>2, <1>5 DEF StopInv
<1>8. BusyInv(p)'
  BY <1>1, <1>2, <1>4, <1>5 DEF BusyInv
<1>9. ASSUME NEW s \in Neighbours(p) PROVE NullInv(p, s)'
  <2>1. ~Sending(p, s) /\ ~Sending(p, s)' /\ phase[p] # "script"
    BY <1>1 DEF Sending
  <2>2. ~IsNull(x, s)
    BY <1>4 DEF IsNull
  <2> QED  BY <1>1, <1>2, <1>5, <2>1, <2>2, SameNull
<1> QED  BY <1>1, <1>6, <1>7, <1>8, <1>9, OwnRank

LEMMA QuietBase ==
  ASSUME BaseInv, NEW p \in Rank,
         \/ Stop(p) \/ EventReturns(p) \/ PollEnds(p) \/ NobodyToWaitFor(p)
         \/ RunReturns(p)
  PROVE  BaseInv'
<1>1. /\ Frame(p)
      /\ UNCHANGED <<events, uid, currentTs, guarantee, nullEvent, busy, chan>>
      /\ phase[p] # "script" /\ phase'[p] \notin {"script", "event"}
      /\ \A q : ~Sending(p, q)
      /\ stop'[p] \/ (~stop[p] /\ ~(phase[p] = "event" /\ running[p].kind = "stop"))
  BY QuietEffect DEF BaseInv
<1>2. TypeInv /\ QueueInv(p) /\ StopInv(p) /\ BusyInv(p) /\ uid[p] \in Nat
      /\ \A s \in Neighbours(p) : NullInv(p, s)
  BY Types DEF BaseInv, RankInv, NullsInv
<1>3. QueueInv(p)'
  <2>1. NewEvents(p, {})
    BY <1>1, <1>2 DEF NewEvents
  <2>2. Remains(p, events[p])
    BY <1>2, RemainsAll
  <2>3. events'[p] = events[p] \cup {}
    BY <1>1
  <2> QED  BY <1>1, <1>2, <2>1, <2>2, <2>3, QueueStep
<1>4. StopInv(p)'
  BY <1>1, <1>2 DEF StopInv
<1>5. BusyInv(p)'
  BY <1>1, <1>2 DEF BusyInv
<1>6. ASSUME NEW s \in Neighbours(p) PROVE NullInv(p, s)'
  <2>1. ~Sending(p, s) /\ ~Sending(p, s)'
    BY <1>1 DEF Sending
  <2> QED  BY <1>1, <1>2, <2>1, SameNull
<1> QED  BY <1>1, <1>3, <1>4, <1>5, <1>6, OwnRank

LEMMA BaseInvNext == BaseInv /\ [Next]_vars => BaseInv'
<1> SUFFICES ASSUME BaseInv, [Next]_vars PROVE BaseInv'
  OBVIOUS
<1>1. CASE Next
  BY <1>1, Steps, ScheduleBase, TransmitBase, RunBase, ProcessBase, NullBase,
     ReceiveBase, QuietBase
<1>2. CASE UNCHANGED vars
  <2>1. channels' = channels /\ \A r \in Rank : Same(r)
    BY <1>2 DEF vars, Same
  <2>2. TypeInv'
    BY <1>2, TypeInvFrom DEF vars, BaseInv, TypeInv
  <2>3. \A r \in Rank : Neighbours(r)' = Neighbours(r)
    BY <2>1, SameChannels
  <2> QED  BY <2>1, <2>2, <2>3, SameRank DEF BaseInv, RankInv, NullsInv
<1> QED  BY <1>1, <1>2

LEMMA BaseInvAlways == Spec => []BaseInv
<1> QED  BY BaseInvInit, BaseInvNext, PTL DEF Spec

LEMMA BaseInvConsistent == BaseInv => Consistent
<1> SUFFICES ASSUME BaseInv PROVE Consistent
  OBVIOUS
<1>1. ASSUME NEW p \in Rank
      PROVE  /\ \A e \in events[p] : e.ts \in Nat /\ e.uid \in FirstUid..(uid[p] - 1)
                                     /\ e.act \in Acts /\ e.live \in BOOLEAN
             /\ currentTs[p] \in 0..StopTime
             /\ running[p] \in Acts
             /\ \A q \in Neighbours(p) : \A i \in DOMAIN chan[p][q] :
                  chan[p][q][i] \in [rx : Nat, guarantee : Nat, n : Nat]
  <2>1. QueueInv(p) /\ StopInv(p) /\ TypeInv
    BY DEF BaseInv, RankInv
  <2>2. \A e \in events[p] : e.ts \in Nat /\ e.act \in Acts /\ e.live \in BOOLEAN
    BY <2>1, Types
  <2>3. \A e \in events[p] : e.uid \in FirstUid..(uid[p] - 1)
    BY <2>1 DEF QueueInv
  <2>4. currentTs[p] \in Nat /\ currentTs[p] <= StopTime /\ running[p] \in Acts
    BY <2>1, Types DEF StopInv
  <2>5. ASSUME NEW q \in Neighbours(p), NEW i \in DOMAIN chan[p][q]
        PROVE  chan[p][q][i] \in [rx : Nat, guarantee : Nat, n : Nat]
    <3>1. chan[p][q] \in Seq(Message)
      BY <2>1, Types
    <3>2. PICK s \in Seq(Message) : s = chan[p][q]
      BY <3>1
    <3>3. s[i] \in Message
      BY <2>5, <3>2
    <3> QED  BY <3>2, <3>3 DEF Message
  <2> QED  BY <2>2, <2>3, <2>4, <2>5, InputAssumption
<1>2. TypeOK
  BY <1>1 DEF TypeOK, BaseInv, TypeInv
<1>3. NullMessageScheduled
  <2> SUFFICES ASSUME NEW p \in Rank, phase[p] \in {"loop", "poll"},
                      NEW q \in Neighbours(p)
               PROVE  \E e \in events[p] : NextNull(p, q, e)
    BY DEF NullMessageScheduled, NextNull, IsNull
  <2> QED  BY DEF BaseInv, NullsInv, NullInv, Sending
<1> QED  BY <1>2, <1>3 DEF Consistent

\* Whatever topology, delays, transmission times and calls: the ranks' state keeps its
\* types, no rank passes the time the script stops it at, and a rank in its loop
\* has exactly one live event that will send the next null message to each
\* neighbour, although packets cancel these events all the time.
THEOREM Consistency == Spec => []Consistent
<1> QED  BY BaseInvAlways, BaseInvConsistent, PTL

-----------------------------------------------------------------------------
\* One channel between two ranks at most.
OneChannel ==
  \A topology \in Topologies : \A c, d \in topology : c.ends = d.ends => c = d

LEMMA OneDelay ==
  ASSUME OneChannel, TypeInv, NEW p \in Rank, NEW q \in Neighbours(p),
         NEW c \in ChannelsOf(p, q)
  PROVE  BundleDelay(p, q) = c.delay /\ \A d \in ChannelsOf(p, q) : d = c
<1>1. \A d \in ChannelsOf(p, q) : d = c
  BY DEF OneChannel, TypeInv, ChannelsOf
<1>2. \E d \in ChannelsOf(p, q) : BundleDelay(p, q) = d.delay
  BY BundleDelayIs DEF TypeInv
<1> QED  BY <1>1, <1>2

LEMMA PromisedType ==
  ASSUME TypeInv, NEW p \in Rank, NEW q \in Neighbours(p)
  PROVE  Promised(p, q) \in Nat
<1>1. PICK s \in Seq(Message), g \in Nat : s = chan[p][q] /\ g = guarantee[q][p]
  BY Types
<1>2. LastPromise(s, g) \in Nat
  <2>1. CASE s = <<>>
    BY <1>1, <2>1 DEF LastPromise
  <2>2. CASE s # <<>>
    <3>1. s[Len(s)] \in Message
      BY <1>1, <2>2
    <3> QED  BY <2>2, <3>1 DEF LastPromise, Message
  <2> QED  BY <2>1, <2>2
<1> QED  BY <1>1, <1>2 DEF Promised

\* Of a link nothing changes but perhaps what is under way on it.
LEMMA SameLink ==
  ASSUME NEW r \in Rank, NEW s \in Neighbours(r), Same(r), channels' = channels,
         LinkInv(r, s), InOrder(chan'[r][s], guarantee'[s][r]),
         Promised(r, s)' = Promised(r, s)
  PROVE  LinkInv(r, s)'
<1>1. BundleDelay(r, s)' = BundleDelay(r, s) /\ ChannelsOf(r, s)' = ChannelsOf(r, s)
      /\ NullInterval(r, s)' = NullInterval(r, s)
  BY SameChannels
<1>2. /\ events'[r] = events[r] /\ currentTs'[r] = currentTs[r]
      /\ safe'[r] = safe[r] /\ guarantee'[r] = guarantee[r]
      /\ phase'[r] = phase[r] /\ running'[r] = running[r]
  BY DEF Same
<1>3. AllLate(r, s) => AllLate(r, s)'
  BY <1>1, <1>2 DEF AllLate, Late, Sending
<1>4. DeviceLate(r, s) => DeviceLate(r, s)'
  BY <1>1, <1>2 DEF DeviceLate, Late, Sending
<1>5. Late(r, s, safe[r])' <=> Late(r, s, safe[r])
  BY <1>1, <1>2 DEF Late
<1> QED  BY <1>1, <1>2, <1>3, <1>4, <1>5 DEF LinkInv

\* It is enough to look at the links from the rank that steps, and at what it
\* has received.
LEMMA OwnLinks ==
  ASSUME LinksInv, NEW p \in Rank, Frame(p), SafeInv(p)',
         \A s \in Neighbours(p) : LinkInv(p, s)',
         \A r \in Neighbours(p) :
           /\ InOrder(chan'[r][p], guarantee'[p][r])
           /\ Promised(r, p)' = Promised(r, p),
         \A r \in Rank : \A s \in Neighbours(r) :
           r # p /\ s # p => chan'[r][s] = chan[r][s]
  PROVE  LinksInv'
<1>1. \A r \in Rank : Neighbours(r)' = Neighbours(r)
  BY SameChannels DEF Frame
<1>2. ASSUME NEW r \in Rank, r # p
      PROVE  SafeInv(r)' /\ \A s \in Neighbours(r) : LinkInv(r, s)'
  <2>1. Same(r) /\ channels' = channels
    BY <1>2 DEF Frame
  <2>2. SafeInv(r)'
    BY <2>1 DEF LinksInv, SafeInv, Same
  <2>3. ASSUME NEW s \in Neighbours(r) PROVE LinkInv(r, s)'
    <3>1. LinkInv(r, s) /\ s \in Rank
      BY NeighbourSymmetry DEF LinksInv
    <3>2. InOrder(chan'[r][s], guarantee'[s][r]) /\ Promised(r, s)' = Promised(r, s)
      <4>1. CASE s = p
        <5>1. r \in Neighbours(p)
          BY <4>1, NeighbourSymmetry
        <5> QED  BY <4>1, <5>1
      <4>2. CASE s # p
        <5>1. Same(s)
          BY <3>1, <4>2 DEF Frame
        <5>2. chan'[r][s] = chan[r][s] /\ guarantee'[s][r] = guarantee[s][r]
          BY <1>2, <4>2, <5>1 DEF Same
        <5> QED  BY <3>1, <5>2 DEF LinkInv, Promised
      <4> QED  BY <4>1, <4>2
    <3> QED  BY <2>1, <3>1, <3>2, SameLink
  <2> QED  BY <2>2, <2>3
<1> QED  BY <1>1, <1>2 DEF LinksInv

\* The same when nothing is received.
LEMMA OwnLinksSent ==
  ASSUME LinksInv, NEW p \in Rank, Frame(p), SafeInv(p)',
         \A s \in Neighbours(p) : LinkInv(p, s)',
         \A r \in Rank : r # p => chan'[r] = chan[r],
         guarantee' = guarantee
  PROVE  LinksInv'
<1>1. \A r \in Neighbours(p) :
        /\ InOrder(chan'[r][p], guarantee'[p][r])
        /\ Promised(r, p)' = Promised(r, p)
  <2> SUFFICES ASSUME NEW r \in Neighbours(p)
               PROVE  /\ InOrder(chan'[r][p], guarantee'[p][r])
                      /\ Promised(r, p)' = Promised(r, p)
    OBVIOUS
  <2>1. r \in Rank /\ p \in Neighbours(r) /\ r # p
    BY NeighbourSymmetry
  <2>2. LinkInv(r, p) /\ chan'[r][p] = chan[r][p] /\ guarantee'[p][r] = guarantee[p][r]
    BY <2>1 DEF LinksInv
  <2> QED  BY <2>2 DEF LinkInv, Promised
<1> QED  BY <1>1, OwnLinks

LEMMA LinksInvInit == Init => LinksInv
<1> SUFFICES ASSUME Init PROVE LinksInv
  OBVIOUS
<1>1. TypeInv
  BY TypeInvInit
<1>2. ASSUME NEW p \in Rank
      PROVE  SafeInv(p) /\ \A q \in Neighbours(p) : LinkInv(p, q)
  <2>1. /\ events[p] = {Event(StopTime, FirstUid, StopCall(p))}
        /\ currentTs[p] = 0 /\ safe[p] = 0 /\ phase[p] = "script"
        /\ StopTime \in Nat /\ Forever \in Nat
    BY InputAssumption DEF Init
  <2>2. \A e \in events[p] : e.ts = StopTime /\ e.act.kind = "stop"
    BY <2>1 DEF Event, StopCall
  <2>3. SafeInv(p)
    BY <2>1, <2>2 DEF SafeInv
  <2>4. ASSUME NEW q \in Neighbours(p) PROVE LinkInv(p, q)
    <3>1. q \in Rank /\ p \in Neighbours(q)
      BY NeighbourSymmetry
    <3>2. chan[p][q] = <<>> /\ guarantee[q][p] = 0 /\ guarantee[p][q] = 0
      BY <3>1 DEF Init
    <3>3. InOrder(chan[p][q], guarantee[q][p]) /\ Promised(p, q) = 0
      <4>1. PICK s : s = chan[p][q]
        OBVIOUS
      <4>2. s = <<>>
        BY <3>2, <4>1
      <4>3. DOMAIN s = {}
        BY <4>2
      <4>4. LastPromise(s, 0) = 0
        BY <4>2 DEF LastPromise
      <4> QED  BY <3>2, <4>1, <4>3, <4>4 DEF InOrder, Promised
    <3>4. PICK D \in Nat : D = BundleDelay(p, q)
      BY <1>1, Types
    <3>5. \A ts \in Nat : Late(p, q, ts)
      BY <3>3, <3>4 DEF Late
    <3>6. AllLate(p, q) /\ Late(p, q, safe[p])
      BY <2>1, <2>2, <3>5 DEF AllLate
    <3> QED  BY <2>1, <2>2, <3>2, <3>3, <3>6 DEF LinkInv, IsNull
  <2> QED  BY <2>3, <2>4
<1> QED  BY <1>2 DEF LinksInv

\* Without a new message a link's promise and delay stay.
LEMMA Unsent ==
  ASSUME TypeInv, NEW p \in Rank, NEW s \in Neighbours(p), channels' = channels,
         chan'[p][s] = chan[p][s], guarantee'[s][p] = guarantee[s][p]
  PROVE  \E L, D, I \in Nat :
           /\ Promised(p, s) = L /\ Promised(p, s)' = L
           /\ BundleDelay(p, s) = D /\ BundleDelay(p, s)' = D
           /\ ChannelsOf(p, s)' = ChannelsOf(p, s)
           /\ NullInterval(p, s) = I /\ NullInterval(p, s)' = I
           /\ InOrder(chan[p][s], guarantee[s][p])
                => InOrder(chan'[p][s], guarantee'[s][p])
<1>1. /\ BundleDelay(p, s)' = BundleDelay(p, s) /\ ChannelsOf(p, s)' = ChannelsOf(p, s)
      /\ NullInterval(p, s)' = NullInterval(p, s)
  BY SameChannels
<1>2. PICK L, D, I \in Nat :
        L = Promised(p, s) /\ D = BundleDelay(p, s) /\ I = NullInterval(p, s)
  BY PromisedType, Types
<1>3. Promised(p, s)' = Promised(p, s)
  BY DEF Promised
<1> QED  BY <1>1, <1>2, <1>3

LEMMA ScheduleLinks ==
  ASSUME BaseInv, LinksInv, NEW p \in Rank, NEW d \in Delay, Schedule(p, d)
  PROVE  LinksInv'
<1>1. PICK x : x = Event(currentTs[p] + d, uid[p], Call(p, uid[p]))
  OBVIOUS
<1>2. /\ Frame(p) /\ Calling(p)
      /\ events'[p] = events[p] \cup {x}
      /\ UNCHANGED <<currentTs, stop, safe, guarantee, nullEvent, busy,
                     chan, phase, running>>
  BY <1>1, ScheduleEffect DEF BaseInv
<1>3. PICK now \in Nat : now = currentTs[p]
  BY Types DEF BaseInv
<1>4. x.ts = now + d /\ x.act.kind = "call" /\ d \in Nat
  BY <1>1, <1>3, InputAssumption DEF Event, Call
<1>5. SafeInv(p)'
  BY <1>2, <1>3, <1>4 DEF LinksInv, SafeInv
<1>6. ASSUME NEW s \in Neighbours(p) PROVE LinkInv(p, s)'
  <2>1. LinkInv(p, s)
    BY DEF LinksInv
  <2>2. PICK L, D, I \in Nat :
           /\ Promised(p, s) = L /\ Promised(p, s)' = L
           /\ BundleDelay(p, s) = D /\ BundleDelay(p, s)' = D
           /\ ChannelsOf(p, s)' = ChannelsOf(p, s)
           /\ NullInterval(p, s) = I /\ NullInterval(p, s)' = I
           /\ InOrder(chan[p][s], guarantee[s][p])
                => InOrder(chan'[p][s], guarantee'[s][p])
    BY <1>2, Unsent DEF BaseInv, Frame
  <2>3. ASSUME AllLate(p, s) PROVE AllLate(p, s)'
    <3>1. phase[p] \in {"script", "event"} /\ ~Sending(p, s)
      BY <1>2 DEF Calling, Sending
    <3>2. L <= now + D
      BY <1>3, <2>2, <2>3, <3>1 DEF AllLate, Late
    <3>3. L <= x.ts + D
      BY <1>4, <3>2
    <3> QED  BY <1>2, <1>3, <2>2, <2>3, <3>2, <3>3 DEF AllLate, Late, IsNull
  <2>4. ASSUME DeviceLate(p, s) PROVE DeviceLate(p, s)'
    BY <1>2, <1>3, <1>4, <2>2, <2>4 DEF DeviceLate, Late, IsNull, Sending
  <2>5. Late(p, s, safe[p])' /\ safe'[p] <= guarantee'[p][s]
    BY <1>2, <2>1, <2>2 DEF LinkInv, Late
  <2>6. \A e \in events'[p] : IsNull(e, s) /\ e.live => e.ts <= currentTs'[p] + I
    BY <1>2, <1>4, <2>1, <2>2 DEF LinkInv, IsNull
  <2> QED  BY <2>1, <2>2, <2>3, <2>4, <2>5, <2>6 DEF LinkInv, IsNull
<1> QED  BY <1>2, <1>5, <1>6, OwnLinksSent

LEMMA SendsInOrder ==
  ASSUME TypeInv, NEW p \in Rank, NEW q \in Neighbours(p), NEW m, Sends(p, q, m),
         InOrder(chan[p][q], guarantee[q][p]), guarantee' = guarantee,
         Promised(p, q) <= m.guarantee, m.rx > 0 => Promised(p, q) <= m.rx
  PROVE  /\ InOrder(chan'[p][q], guarantee'[q][p])
         /\ Promised(p, q)' = m.guarantee
<1>1. PICK s \in Seq(Message), g \in Nat : s = chan[p][q] /\ g = guarantee[q][p]
  BY Types
<1>2. /\ InOrder(s, g) /\ m \in Message /\ LastPromise(s, g) <= m.guarantee
      /\ m.rx > 0 => LastPromise(s, g) <= m.rx
  BY <1>1 DEF Sends, Promised
<1>3. /\ InOrder(Append(s, m), g) /\ LastPromise(Append(s, m), g) = m.guarantee
  BY <1>2, AppendInOrder
<1>4. chan'[p][q] = Append(s, m) /\ guarantee'[q][p] = g
  BY <1>1 DEF Sends
<1> QED  BY <1>3, <1>4 DEF Promised

LEMMA RunLinks ==
  ASSUME BaseInv, LinksInv, NEW p \in Rank, Run(p)
  PROVE  LinksInv'
<1>1. /\ Frame(p) /\ phase[p] = "script" /\ phase'[p] = "loop"
      /\ events'[p] = events[p] \cup {FirstNull(p, q) : q \in Neighbours(p)}
      /\ \A q \in Neighbours(p) :
           /\ FirstMessage(p, q) \in Message
           /\ chan'[p][q] = Append(chan[p][q], FirstMessage(p, q))
      /\ \A r \in Rank : r # p => chan'[r] = chan[r]
      /\ UNCHANGED <<currentTs, safe, guarantee, busy, running>>
  BY RunEffect DEF BaseInv
<1>2. TypeInv /\ QueueInv(p) /\ currentTs[p] = 0 /\ safe[p] \in Nat
  BY <1>1, Types DEF BaseInv, RankInv, QueueInv
<1>3. \A e \in events'[p] : /\ e.ts \in Nat
                            /\ e \in events[p] \/ \E q \in Neighbours(p) : e = FirstNull(p, q)
  <2>1. TypeInv'
    BY <1>1 DEF Frame
  <2>2. \A e \in EventRec : e.ts \in Nat
    BY DEF EventRec
  <2> QED  BY <1>1, <2>1, <2>2 DEF TypeInv
<1>4. SafeInv(p)'
  BY <1>1, <1>2, <1>3 DEF LinksInv, SafeInv
<1>5. ASSUME NEW q \in Neighbours(p) PROVE LinkInv(p, q)'
  <2>1. LinkInv(p, q)
    BY DEF LinksInv
  <2>2. PICK D, I \in Nat : /\ BundleDelay(p, q) = D /\ BundleDelay(p, q)' = D
                            /\ NullInterval(p, q) = I /\ NullInterval(p, q)' = I
    BY <1>1, <1>2, Types, SameChannels DEF Frame
  <2>3. Promised(p, q) <= 0 + D
    BY <1>1, <1>2, <2>1, <2>2 DEF LinkInv, AllLate, DeviceLate, Late, Sending
  <2>4. PICK m : m = FirstMessage(p, q)
    OBVIOUS
  <2>5. m.guarantee = D /\ m.rx = 0 /\ m \in Message
        /\ chan'[p][q] = Append(chan[p][q], m)
    BY <1>1, <2>2, <2>4 DEF FirstMessage
  <2>6. Promised(p, q) <= D
    BY <1>2, <2>2, <2>3, PromisedType
  <2>7. /\ InOrder(chan'[p][q], guarantee'[q][p]) /\ Promised(p, q)' = D
    <3>1. PICK s \in Seq(Message), g \in Nat : s = chan[p][q] /\ g = guarantee[q][p]
      BY <1>2, Types
    <3>2. /\ InOrder(s, g) /\ LastPromise(s, g) <= m.guarantee
          /\ m.rx > 0 => LastPromise(s, g) <= m.rx
      BY <2>1, <2>5, <2>6, <3>1 DEF LinkInv, Promised
    <3>3. /\ InOrder(Append(s, m), g) /\ LastPromise(Append(s, m), g) = m.guarantee
      BY <2>5, <3>2, AppendInOrder
    <3>4. chan'[p][q] = Append(s, m) /\ guarantee'[q][p] = g
      BY <1>1, <2>5, <3>1
    <3> QED  BY <2>5, <3>3, <3>4 DEF Promised
  <2>8. AllLate(p, q)' /\ Late(p, q, safe[p])'
    <3>1. \A ts \in Nat : D <= ts + D
      BY <2>2
    <3>2. ~(phase'[p] \in {"script", "event"})
      BY <1>1
    <3> QED  BY <1>1, <1>2, <1>3, <2>2, <2>7, <3>1, <3>2 DEF AllLate, Late
  <2>9. \A e \in events'[p] : IsNull(e, q) /\ e.live => e.ts <= currentTs'[p] + I
    <3> SUFFICES ASSUME NEW e \in events'[p], IsNull(e, q)
                 PROVE  e.ts <= currentTs'[p] + I
      OBVIOUS
    <3>1. e \notin events[p]
      BY <1>1, <1>2 DEF QueueInv, IsNull
    <3>2. PICK r \in Neighbours(p) : e = FirstNull(p, r)
      BY <1>3, <3>1
    <3>3. r = q
      BY <3>2, FirstNullIs
    <3>4. e.ts = currentTs[p] + I
      BY <2>2, <3>2, <3>3, FirstNullIs
    <3> QED  BY <1>1, <1>2, <2>2, <3>4
  <2>10. safe'[p] <= guarantee'[p][q]
    BY <1>1, <2>1 DEF LinkInv
  <2> QED  BY <2>2, <2>7, <2>8, <2>9, <2>10 DEF LinkInv, IsNull
<1> QED  BY <1>1, <1>4, <1>5, OwnLinksSent

LEMMA ProcessLinks ==
  ASSUME BaseInv, LinksInv, NEW p \in Rank, ProcessOneEvent(p)
  PROVE  LinksInv'
<1>1. PICK e \in events[p] :
           /\ Frame(p) /\ phase[p] = "loop"
           /\ IsFirst(e, events[p]) /\ e.ts <= safe[p]
           /\ currentTs'[p] = e.ts
           /\ events'[p] = events[p] \ {e}
           /\ running'[p] = IF e.live THEN e.act ELSE NoAct
           /\ phase'[p] = IF e.live THEN "event" ELSE "poll"
           /\ UNCHANGED <<safe, guarantee, chan>>
  BY ProcessEffect DEF BaseInv
<1>2. PICK now, ts \in Nat : now = currentTs[p] /\ ts = e.ts
  BY Types DEF BaseInv
<1>3. /\ TypeInv /\ SafeInv(p) /\ safe[p] \in Nat
      /\ \A f \in events[p] : f.ts \in Nat /\ f.live \in BOOLEAN
  BY Types DEF BaseInv, LinksInv
<1>4. \A f \in events[p] : ts <= f.ts
  BY <1>1, <1>2, <1>3 DEF IsFirst, Before
<1>5. now <= ts
  BY <1>2, <1>3 DEF SafeInv
<1>6. SafeInv(p)'
  BY <1>1, <1>2, <1>3, <1>4 DEF SafeInv
<1>7. ASSUME NEW s \in Neighbours(p) PROVE LinkInv(p, s)'
  <2>1. LinkInv(p, s)
    BY DEF LinksInv
  <2>2. PICK L, D, I \in Nat :
           /\ Promised(p, s) = L /\ Promised(p, s)' = L
           /\ BundleDelay(p, s) = D /\ BundleDelay(p, s)' = D
           /\ ChannelsOf(p, s)' = ChannelsOf(p, s)
           /\ NullInterval(p, s) = I /\ NullInterval(p, s)' = I
           /\ InOrder(chan[p][s], guarantee[s][p])
                => InOrder(chan'[p][s], guarantee'[s][p])
    BY <1>1, Unsent DEF BaseInv, Frame
  <2>3. Late(p, s, safe[p])' /\ safe'[p] <= guarantee'[p][s]
    BY <1>1, <2>1, <2>2 DEF LinkInv, Late
  <2>4. \A f \in events'[p] : IsNull(f, s) /\ f.live => f.ts <= currentTs'[p] + I
    BY <1>1, <1>2, <1>3, <1>5, <2>1, <2>2 DEF LinkInv
  <2>5. ASSUME L <= ts + D PROVE AllLate(p, s)'
    <3>1. \A f \in events[p] : L <= f.ts + D
      BY <1>2, <1>3, <1>4, <2>2, <2>5
    <3> QED  BY <1>1, <1>2, <2>2, <2>5, <3>1 DEF AllLate, Late
  <2>6. CASE IsNull(e, s) /\ e.live
    <3>1. Sending(p, s)'
      BY <1>1, <2>6 DEF Sending, IsNull
    <3>2. ASSUME AllLate(p, s) PROVE AllLate(p, s)'
      BY <1>1, <2>2, <3>1, <3>2 DEF AllLate, Late, IsNull
    <3>3. ASSUME DeviceLate(p, s) PROVE L <= ts + D
      BY <1>2, <2>2, <2>6, <3>3 DEF DeviceLate, Late
    <3> QED  BY <2>1, <2>2, <2>3, <2>4, <2>5, <3>2, <3>3 DEF LinkInv, IsNull
  <2>7. CASE ~(IsNull(e, s) /\ e.live)
    <3>1. ~Sending(p, s)'
      BY <1>1, <1>3, <2>7 DEF Sending, IsNull
    <3>2. ASSUME AllLate(p, s) PROVE L <= ts + D
      BY <1>2, <2>2, <2>7, <3>2 DEF AllLate, Late
    <3>3. ASSUME DeviceLate(p, s), ~(L <= ts + D) PROVE DeviceLate(p, s)'
      <4>1. PICK c \in ChannelsOf(p, s), f \in events[p] :
              f.act.kind = "complete" /\ f.act.on = c.id /\ L <= f.ts + D
        BY <2>2, <3>3 DEF DeviceLate, Late
      <4>2. f # e
        BY <1>2, <3>3, <4>1
      <4>3. f \in events'[p] /\ phase'[p] # "script"
        BY <1>1, <4>2
      <4>4. \A n \in events'[p] : IsNull(n, s) /\ n.live => L <= n.ts + D
        BY <1>1, <2>2, <3>3 DEF DeviceLate, Late
      <4> QED  BY <2>2, <3>1, <4>1, <4>3, <4>4 DEF DeviceLate, Late, IsNull
    <3> QED  BY <2>1, <2>2, <2>3, <2>4, <2>5, <3>2, <3>3 DEF LinkInv, IsNull
  <2> QED  BY <2>6, <2>7
<1>8. \A r \in Rank : r # p => chan'[r] = chan[r]
  BY <1>1
<1> QED  BY <1>1, <1>6, <1>7, <1>8, OwnLinksSent

\* The link a packet is sent on.
LEMMA TransmitOwnLink ==
  ASSUME OneChannel, BaseInv, LinksInv, NEW p \in Rank, NEW q \in Neighbours(p),
         NEW c, NEW t, Transmitted(p, q, c, t)
  PROVE  LinkInv(p, q)'
<1>1. /\ TypeInv /\ LinkInv(p, q) /\ SafeInv(p) /\ BusyInv(p)
      /\ c \in ChannelsOf(p, q) /\ Frame(p) /\ phase[p] = "event"
      /\ c.id \notin busy[p] /\ ~Sending(p, q) /\ t \in Nat /\ c.delay \in Nat
      /\ Sends(p, q, PacketOf(p, q, c, t))
      /\ UNCHANGED <<currentTs, stop, safe, guarantee, phase, running>>
  BY DEF BaseInv, RankInv, LinksInv, Transmitted
<1>2. PICK D, I, now, S \in Nat :
        /\ BundleDelay(p, q) = D /\ BundleDelay(p, q)' = D /\ D = c.delay
        /\ NullInterval(p, q) = I /\ NullInterval(p, q)' = I
        /\ now = currentTs[p] /\ S = safe[p]
  <2>1. BundleDelay(p, q) = c.delay
    BY <1>1, OneDelay
  <2> QED  BY <1>1, <2>1, Types, SameChannels DEF Frame
<1>3. PICK x, y, K : /\ x = EndOf(p, c, t) /\ y = LaterNull(p, q, uid[p] + 1)
                     /\ K = PutOff(p, q)
  OBVIOUS
<1>4. /\ x.ts = now + t /\ x.act.kind = "complete" /\ x.act.on = c.id
      /\ y.ts = now + I /\ IsNull(y, q) /\ y.live
  BY <1>1, <1>2, <1>3, EndOfIs, LaterNullIs
<1>5. /\ events'[p] = K \cup {x, y}
      /\ \A f \in K : \E e \in events[p] :
           /\ f.ts = e.ts /\ f.uid = e.uid /\ f.act = e.act
           /\ f.live <=> e.live /\ ~IsNull(e, q)
      /\ Busier(p, c, t) \in SUBSET EventRec
  BY <1>3 DEF Transmitted
<1>6. PICK n \in events[p] : NextNull(p, q, n)
  BY DEF Transmitted
<1>7. \A e \in events[p] : e.ts \in Nat /\ now <= e.ts
  BY <1>1, <1>2, Types DEF SafeInv
<1>8. PICK L \in Nat : L = Promised(p, q)
  BY <1>1, PromisedType
<1>9. L <= now + D
  <2>1. ~DeviceLate(p, q)
    <3> SUFFICES ASSUME DeviceLate(p, q) PROVE FALSE
      OBVIOUS
    <3>1. PICK d \in ChannelsOf(p, q), e \in events[p] :
            e.act.kind = "complete" /\ e.act.on = d.id
      BY DEF DeviceLate
    <3>2. d = c
      BY <1>1, OneDelay
    <3> QED  BY <1>1, <3>1, <3>2 DEF BusyInv
  <2> QED  BY <1>1, <1>2, <1>8, <2>1 DEF LinkInv, AllLate, Late
<1>10. PICK G \in Nat : /\ G = GuaranteeTime(p, q, Busier(p, c, t))
                        /\ G <= S + D /\ G <= x.ts + D /\ G <= n.ts + D
                        /\ L <= G
  <2>1. x \in Busier(p, c, t) /\ n \in Busier(p, c, t)
    BY <1>3 DEF Busier
  <2>2. PICK Q \in SUBSET EventRec : Q = Busier(p, c, t)
    BY <1>5
  <2>3. /\ GuaranteeTime(p, q, Q) \in Nat
        /\ GuaranteeTime(p, q, Q) <= safe[p] + BundleDelay(p, q)
        /\ \A e \in Q : GuaranteeTime(p, q, Q) <= e.ts + BundleDelay(p, q)
        /\ \/ GuaranteeTime(p, q, Q) = safe[p] + BundleDelay(p, q)
           \/ \E e \in Q : GuaranteeTime(p, q, Q) = e.ts + BundleDelay(p, q)
    BY <1>1, <2>1, <2>2, GuaranteeTimeIs
  <2>4. PICK G \in Nat : G = GuaranteeTime(p, q, Q)
    BY <2>3
  <2>5. G <= S + D /\ G <= x.ts + D /\ G <= n.ts + D
    BY <1>2, <2>1, <2>2, <2>3, <2>4
  <2>6. L <= S + D
    BY <1>1, <1>2, <1>8 DEF LinkInv, Late
  <2>7. \A e \in Q : e.ts \in Nat /\ now <= e.ts
    BY <1>1, <1>2, <1>3, <1>4, <1>7, <2>2 DEF Busier
  <2>8. L <= G
    <3>1. CASE G = S + D
      BY <2>6, <3>1
    <3>2. CASE \E e \in Q : G = e.ts + D
      BY <1>9, <2>7, <3>2
    <3> QED  BY <1>2, <2>3, <2>4, <3>1, <3>2
  <2> QED  BY <2>2, <2>4, <2>5, <2>8
<1>11. PICK m : m = PacketOf(p, q, c, t)
  OBVIOUS
<1>12. m.guarantee = G /\ m.rx = now + t + D /\ Sends(p, q, m)
  BY <1>1, <1>2, <1>10, <1>11 DEF PacketOf
<1>13. L <= m.rx
  BY <1>1, <1>9, <1>12
<1>14. InOrder(chan'[p][q], guarantee'[q][p]) /\ Promised(p, q)' = G
  <2>1. InOrder(chan[p][q], guarantee[q][p])
    BY <1>1 DEF LinkInv
  <2> QED  BY <1>1, <1>8, <1>10, <1>12, <1>13, <2>1, SendsInOrder
<1>15. /\ \A f \in K : IsNull(f, q) => ~f.live
       /\ \A f \in events'[p] : IsNull(f, q) /\ f.live => f = y
  <2>1. \A f \in K : IsNull(f, q) => ~f.live
    BY <1>5 DEF IsNull
  <2>2. ~IsNull(x, q)
    BY <1>4 DEF IsNull
  <2> QED  BY <1>5, <2>1, <2>2
<1>16. G <= y.ts + D
  <2>1. n.ts \in Nat /\ n.ts <= now + I
    BY <1>1, <1>2, <1>6, <1>7 DEF LinkInv, NextNull
  <2> QED  BY <1>4, <1>10, <2>1
<1>17. DeviceLate(p, q)'
  <2>1. c \in ChannelsOf(p, q)' /\ x \in events'[p] /\ phase'[p] # "script"
    BY <1>1, <1>5, SameChannels DEF Frame
  <2>2. ~Sending(p, q)'
    BY <1>1 DEF Sending
  <2>3. Late(p, q, x.ts)' /\ \A f \in events'[p] : IsNull(f, q) /\ f.live => Late(p, q, f.ts)'
    BY <1>2, <1>10, <1>14, <1>15, <1>16 DEF Late
  <2> QED  BY <1>4, <2>1, <2>2, <2>3 DEF DeviceLate, Late, IsNull
<1>18. /\ Late(p, q, safe[p])' /\ safe'[p] <= guarantee'[p][q]
       /\ \A f \in events'[p] :
            IsNull(f, q) /\ f.live => f.ts <= currentTs'[p] + I
  <2>1. y.ts <= now + I
    BY <1>2, <1>4
  <2> QED  BY <1>1, <1>2, <1>10, <1>14, <1>15, <2>1 DEF Late, LinkInv
<1> QED  BY <1>2, <1>14, <1>17, <1>18 DEF LinkInv, IsNull

\* The links to other neighbours.
LEMMA TransmitOtherLink ==
  ASSUME BaseInv, LinksInv, NEW p \in Rank, NEW q \in Neighbours(p),
         NEW c, NEW t, Transmitted(p, q, c, t), NEW s \in Neighbours(p), s # q
  PROVE  LinkInv(p, s)'
<1>1. /\ TypeInv /\ LinkInv(p, s) /\ Frame(p) /\ phase[p] = "event"
      /\ ~Sending(p, s) /\ t \in Nat
      /\ chan'[p][s] = chan[p][s]
      /\ UNCHANGED <<currentTs, stop, safe, guarantee, phase, running>>
  BY DEF BaseInv, LinksInv, Transmitted, Sends
<1>2. PICK L, D, I \in Nat :
         /\ Promised(p, s) = L /\ Promised(p, s)' = L
         /\ BundleDelay(p, s) = D /\ BundleDelay(p, s)' = D
         /\ ChannelsOf(p, s)' = ChannelsOf(p, s)
         /\ NullInterval(p, s) = I /\ NullInterval(p, s)' = I
         /\ InOrder(chan[p][s], guarantee[s][p])
              => InOrder(chan'[p][s], guarantee'[s][p])
  BY <1>1, Unsent DEF Frame
<1>3. PICK now, J \in Nat : now = currentTs[p] /\ J = NullInterval(p, q)
  BY <1>1, Types
<1>4. PICK x, y, K : /\ x = EndOf(p, c, t) /\ y = LaterNull(p, q, uid[p] + 1)
                     /\ K = PutOff(p, q)
  OBVIOUS
<1>5. /\ x.ts = now + t /\ x.act.kind = "complete" /\ ~IsNull(x, s)
      /\ y.ts = now + J /\ ~IsNull(y, s)
  BY <1>1, <1>3, <1>4, EndOfIs, LaterNullIs DEF IsNull
<1>6. /\ events'[p] = K \cup {x, y}
      /\ \A f \in K : \E e \in events[p] :
           /\ f.ts = e.ts /\ f.uid = e.uid /\ f.act = e.act
           /\ f.live <=> e.live /\ ~IsNull(e, q)
      /\ \A e \in events[p] : \E f \in K :
           /\ f.ts = e.ts /\ f.act = e.act
  BY <1>4 DEF Transmitted
<1>7. \A f \in K : \E e \in events[p] :
        /\ f.ts = e.ts /\ f.act = e.act /\ (IsNull(f, s) => IsNull(e, s))
        /\ (IsNull(e, s) /\ e.live <=> IsNull(f, s) /\ f.live)
  <2> SUFFICES ASSUME NEW f \in K
               PROVE  \E e \in events[p] :
                        /\ f.ts = e.ts /\ f.act = e.act /\ (IsNull(f, s) => IsNull(e, s))
                        /\ (IsNull(e, s) /\ e.live <=> IsNull(f, s) /\ f.live)
    OBVIOUS
  <2>1. PICK e \in events[p] :
           /\ f.ts = e.ts /\ f.act = e.act
           /\ f.live <=> e.live /\ ~IsNull(e, q)
    BY <1>6
  <2>2. IsNull(e, s) => ~IsNull(e, q)
    BY DEF IsNull
  <2> QED  BY <2>1, <2>2 DEF IsNull
<1>8. Late(p, s, safe[p])' /\ safe'[p] <= guarantee'[p][s]
  BY <1>1, <1>2 DEF LinkInv, Late
<1>9. \A f \in events'[p] : IsNull(f, s) /\ f.live => f.ts <= currentTs'[p] + I
  BY <1>1, <1>2, <1>5, <1>6, <1>7 DEF LinkInv
<1>10. ~Sending(p, s)'
  BY <1>1 DEF Sending
<1>11. ASSUME AllLate(p, s) PROVE AllLate(p, s)'
  <2>1. L <= now + D
    BY <1>1, <1>2, <1>3, <1>11 DEF AllLate, Late
  <2>2. L <= x.ts + D /\ L <= y.ts + D
    BY <1>1, <1>2, <1>3, <1>5, <2>1
  <2>3. \A f \in K : (IsNull(f, s) /\ f.live) \/ L <= f.ts + D
    BY <1>2, <1>7, <1>11 DEF AllLate, Late
  <2> QED  BY <1>1, <1>2, <1>3, <1>6, <2>1, <2>2, <2>3 DEF AllLate, Late, IsNull
<1>12. ASSUME DeviceLate(p, s) PROVE DeviceLate(p, s)'
  <2>1. PICK d \in ChannelsOf(p, s), e \in events[p] :
              e.act.kind = "complete" /\ e.act.on = d.id /\ L <= e.ts + D
    BY <1>2, <1>12 DEF DeviceLate, Late
  <2>2. PICK f \in K : f.ts = e.ts /\ f.act = e.act
    BY <1>6
  <2>3. f \in events'[p] /\ f.act.kind = "complete" /\ f.act.on = d.id /\ L <= f.ts + D
    BY <1>6, <2>1, <2>2
  <2>6. ASSUME NEW g \in K, IsNull(g, s), g.live PROVE L <= g.ts + D
    <3>1. PICK h \in events[p] : g.ts = h.ts /\ IsNull(h, s) /\ h.live
      BY <1>7, <2>6
    <3>2. Late(p, s, h.ts)
      BY <1>12, <3>1 DEF DeviceLate
    <3> QED  BY <1>2, <3>1, <3>2 DEF Late
  <2>4. \A g \in events'[p] : IsNull(g, s) /\ g.live => L <= g.ts + D
    BY <1>5, <1>6, <2>6
  <2>5. phase'[p] # "script"
    BY <1>1
  <2> QED  BY <1>2, <1>10, <2>1, <2>3, <2>4, <2>5 DEF DeviceLate, Late, IsNull
<1> QED  BY <1>1, <1>2, <1>8, <1>9, <1>11, <1>12 DEF LinkInv, IsNull

LEMMA TransmitLinks ==
  ASSUME OneChannel, BaseInv, LinksInv, NEW p \in Rank, NEW c \in channels,
         NEW t \in TxTimes, Transmit(p, c, t)
  PROVE  LinksInv'
<1>1. PICK q \in Neighbours(p) : Transmitted(p, q, c, t)
  BY TransmitIs
<1>2. \A s \in Neighbours(p) : LinkInv(p, s)'
  BY <1>1, TransmitOwnLink, TransmitOtherLink
<1>3. /\ Frame(p) /\ TypeInv /\ SafeInv(p) /\ t \in Nat
      /\ UNCHANGED <<currentTs, safe, guarantee>>
      /\ Sends(p, q, PacketOf(p, q, c, t))
  BY <1>1 DEF BaseInv, LinksInv, Transmitted
<1>4. \A r \in Rank : r # p => chan'[r] = chan[r]
  <2> SUFFICES ASSUME NEW r \in Rank, r # p PROVE chan'[r] = chan[r]
    OBVIOUS
  <2>1. \A s \in Neighbours(r) : chan'[r][s] = chan[r][s]
    BY <1>3 DEF Sends
  <2>2. Neighbours(r)' = Neighbours(r)
    BY <1>3, SameChannels DEF Frame
  <2>3. chan[r] \in [Neighbours(r) -> Seq(Message)]
        /\ chan'[r] \in [Neighbours(r) -> Seq(Message)]
    BY <1>3, <2>2 DEF Frame, TypeInv, PerLink
  <2> QED  BY <2>1, <2>3
<1>5. SafeInv(p)'
  <2>1. PICK x, y, K : /\ x = EndOf(p, c, t) /\ y = LaterNull(p, q, uid[p] + 1)
                       /\ K = PutOff(p, q)
    OBVIOUS
  <2>2. PICK now, I \in Nat : now = currentTs[p] /\ I = NullInterval(p, q)
    BY <1>3, Types
  <2>3. x.ts = now + t /\ y.ts = now + I
    BY <1>3, <2>1, <2>2, EndOfIs, LaterNullIs
  <2>4. /\ events'[p] = K \cup {x, y}
        /\ \A f \in K : \E e \in events[p] : f.ts = e.ts
    BY <1>1, <2>1 DEF Transmitted
  <2>5. now <= x.ts /\ now <= y.ts
    BY <1>3, <2>2, <2>3
  <2> QED  BY <1>3, <2>2, <2>4, <2>5 DEF SafeInv
<1> QED  BY <1>2, <1>3, <1>4, <1>5, OwnLinksSent

\* The link a null message is sent on.
LEMMA NullOwnLink ==
  ASSUME BaseInv, LinksInv, NEW p \in Rank, NEW q \in Neighbours(p),
         Frame(p), Sending(p, q), phase'[p] = "poll", events[p] # {},
         Sends(p, q, NullMessage(p, q)),
         events'[p] = events[p] \cup {LaterNull(p, q, uid[p])},
         UNCHANGED <<currentTs, stop, safe, guarantee, busy>>
  PROVE  LinkInv(p, q)'
<1>1. TypeInv /\ LinkInv(p, q) /\ SafeInv(p) /\ NullInv(p, q)
  BY DEF BaseInv, NullsInv, LinksInv
<1>2. PICK D, I, now, S \in Nat :
        /\ BundleDelay(p, q) = D /\ BundleDelay(p, q)' = D
        /\ NullInterval(p, q) = I /\ NullInterval(p, q)' = I
        /\ now = currentTs[p] /\ S = safe[p]
  BY <1>1, Types, SameChannels DEF Frame
<1>3. PICK y : y = LaterNull(p, q, uid[p])
  OBVIOUS
<1>4. y.ts = now + I /\ IsNull(y, q) /\ y.live
  BY <1>1, <1>2, <1>3, LaterNullIs
<1>5. PICK L \in Nat : L = Promised(p, q)
  BY <1>1, PromisedType
<1>6. \A e \in events[p] : /\ e.ts \in Nat /\ now <= e.ts
                           /\ ~(IsNull(e, q) /\ e.live)
  <2>1. phase[p] # "script"
    BY DEF Sending
  <2> QED  BY <1>1, <1>2, <2>1, Types DEF SafeInv, NullInv
<1>7. now <= S /\ L <= S + D
  BY <1>1, <1>2, <1>5 DEF SafeInv, LinkInv, Late
<1>8. \A e \in events[p] : L <= e.ts + D
  <2>1. CASE AllLate(p, q)
    BY <1>2, <1>5, <1>6, <2>1 DEF AllLate, Late
  <2>2. CASE DeviceLate(p, q)
    <3>1. L <= now + D
      BY <1>2, <1>5, <2>2 DEF DeviceLate, Late
    <3> QED  BY <1>6, <3>1
  <2> QED  BY <1>1, <2>1, <2>2 DEF LinkInv
<1>9. PICK G \in Nat : /\ G = GuaranteeTime(p, q, events[p])
                       /\ G <= S + D /\ L <= G
                       /\ \A e \in events[p] : G <= e.ts + D
  <2>1. PICK Q \in SUBSET EventRec : Q = events[p]
    BY <1>1, Types
  <2>2. /\ GuaranteeTime(p, q, Q) \in Nat
        /\ GuaranteeTime(p, q, Q) <= safe[p] + BundleDelay(p, q)
        /\ \A e \in Q : GuaranteeTime(p, q, Q) <= e.ts + BundleDelay(p, q)
        /\ \/ GuaranteeTime(p, q, Q) = safe[p] + BundleDelay(p, q)
           \/ \E e \in Q : GuaranteeTime(p, q, Q) = e.ts + BundleDelay(p, q)
    BY <1>1, <2>1, GuaranteeTimeIs
  <2>3. PICK G \in Nat : G = GuaranteeTime(p, q, Q)
    BY <2>2
  <2>4. G <= S + D /\ \A e \in Q : G <= e.ts + D
    BY <1>2, <2>2, <2>3
  <2>5. L <= G
    BY <1>2, <1>7, <1>8, <2>1, <2>2, <2>3
  <2> QED  BY <2>1, <2>3, <2>4, <2>5
<1>10. PICK m : m = NullMessage(p, q)
  OBVIOUS
<1>11. m.guarantee = G /\ m.rx = 0 /\ Sends(p, q, m)
  BY <1>9, <1>10 DEF NullMessage
<1>12. InOrder(chan'[p][q], guarantee'[q][p]) /\ Promised(p, q)' = G
  <2>1. InOrder(chan[p][q], guarantee[q][p])
    BY <1>1 DEF LinkInv
  <2> QED  BY <1>1, <1>5, <1>9, <1>11, <2>1, SendsInOrder
<1>13. AllLate(p, q)'
  <2>1. \A e \in events[p] : Late(p, q, e.ts)'
    BY <1>2, <1>9, <1>12 DEF Late
  <2>2. events'[p] = events[p] \cup {y} /\ IsNull(y, q)' /\ y.live
    BY <1>3, <1>4 DEF IsNull
  <2> QED  BY <2>1, <2>2 DEF AllLate
<1>14. /\ Late(p, q, safe[p])' /\ safe'[p] <= guarantee'[p][q]
  BY <1>1, <1>2, <1>9, <1>12 DEF Late, LinkInv
<1>15. \A f \in events'[p] :
            IsNull(f, q) /\ f.live => f.ts <= currentTs'[p] + I
  <2>1. y.ts <= now + I
    BY <1>2, <1>4
  <2> QED  BY <1>2, <1>3, <1>6, <2>1
<1> QED  BY <1>2, <1>12, <1>13, <1>14, <1>15 DEF LinkInv, IsNull

\* The links to other neighbours.
LEMMA NullOtherLink ==
  ASSUME BaseInv, LinksInv, NEW p \in Rank, NEW q \in Neighbours(p),
         Frame(p), Sending(p, q), phase'[p] = "poll",
         events'[p] = events[p] \cup {LaterNull(p, q, uid[p])},
         UNCHANGED <<currentTs, stop, safe, guarantee, busy>>,
         NEW s \in Neighbours(p), s # q, chan'[p][s] = chan[p][s]
  PROVE  LinkInv(p, s)'
<1>1. /\ TypeInv /\ LinkInv(p, s) /\ ~Sending(p, s) /\ phase[p] = "event"
  BY DEF BaseInv, LinksInv, Sending
<1>2. PICK L, D, I \in Nat :
         /\ Promised(p, s) = L /\ Promised(p, s)' = L
         /\ BundleDelay(p, s) = D /\ BundleDelay(p, s)' = D
         /\ ChannelsOf(p, s)' = ChannelsOf(p, s)
         /\ NullInterval(p, s) = I /\ NullInterval(p, s)' = I
         /\ InOrder(chan[p][s], guarantee[s][p])
              => InOrder(chan'[p][s], guarantee'[s][p])
  BY <1>1, Unsent DEF Frame
<1>3. PICK now, J \in Nat : now = currentTs[p] /\ J = NullInterval(p, q)
  BY <1>1, Types
<1>4. PICK y : y = LaterNull(p, q, uid[p])
  OBVIOUS
<1>5. y.ts = now + J /\ ~IsNull(y, s)
  BY <1>1, <1>3, <1>4, LaterNullIs DEF IsNull
<1>6. events'[p] = events[p] \cup {y}
  BY <1>4
<1>7. Late(p, s, safe[p])' /\ safe'[p] <= guarantee'[p][s]
  BY <1>1, <1>2 DEF LinkInv, Late
<1>8. \A f \in events'[p] : IsNull(f, s) /\ f.live => f.ts <= currentTs'[p] + I
  BY <1>1, <1>2, <1>5, <1>6 DEF LinkInv
<1>9. ASSUME AllLate(p, s) PROVE AllLate(p, s)'
  <2>1. L <= now + D
    BY <1>1, <1>2, <1>3, <1>9 DEF AllLate, Late
  <2>2. L <= y.ts + D
    BY <1>2, <1>3, <1>5, <2>1
  <2> QED  BY <1>2, <1>6, <1>9, <2>2 DEF AllLate, Late, IsNull
<1>10. ASSUME DeviceLate(p, s) PROVE DeviceLate(p, s)'
  <2>1. ~Sending(p, s)' /\ phase'[p] # "script"
    BY DEF Sending
  <2>2. \A f \in events'[p] : IsNull(f, s) /\ f.live => L <= f.ts + D
    BY <1>2, <1>5, <1>6, <1>10 DEF DeviceLate, Late
  <2>3. PICK d \in ChannelsOf(p, s), e \in events[p] :
              e.act.kind = "complete" /\ e.act.on = d.id /\ L <= e.ts + D
    BY <1>2, <1>10 DEF DeviceLate, Late
  <2> QED  BY <1>2, <1>6, <2>1, <2>2, <2>3 DEF DeviceLate, Late, IsNull
<1> QED  BY <1>1, <1>2, <1>7, <1>8, <1>9, <1>10 DEF LinkInv, IsNull

\* What a step that sends leaves of the rows of the other ranks.
LEMMA OtherRows ==
  ASSUME TypeInv, NEW p \in Rank, NEW q \in Neighbours(p), NEW m,
         Frame(p), Sends(p, q, m)
  PROVE  \A r \in Rank : r # p => chan'[r] = chan[r]
<1> SUFFICES ASSUME NEW r \in Rank, r # p PROVE chan'[r] = chan[r]
  OBVIOUS
<1>1. \A s \in Neighbours(r) : chan'[r][s] = chan[r][s]
  BY DEF Sends
<1>2. Neighbours(r)' = Neighbours(r)
  BY SameChannels DEF Frame
<1>3. chan[r] \in [Neighbours(r) -> Seq(Message)]
      /\ chan'[r] \in [Neighbours(r) -> Seq(Message)]
  BY <1>2 DEF Frame, TypeInv, PerLink
<1> QED  BY <1>1, <1>3

LEMMA NullLinks ==
  ASSUME BaseInv, LinksInv, NEW p \in Rank, NullMessageEventHandler(p)
  PROVE  LinksInv'
<1>1. TypeInv /\ QueueInv(p) /\ SafeInv(p)
  BY DEF BaseInv, RankInv, LinksInv
<1>2. PICK q \in Neighbours(p) :
           /\ Frame(p) /\ Sending(p, q) /\ phase'[p] = "poll" /\ events[p] # {}
           /\ Sends(p, q, NullMessage(p, q))
           /\ events'[p] = events[p] \cup {LaterNull(p, q, uid[p])}
           /\ UNCHANGED <<currentTs, stop, safe, guarantee, busy>>
  BY <1>1, NullEffect
<1>3. \A s \in Neighbours(p) : s # q => chan'[p][s] = chan[p][s]
  BY <1>2 DEF Sends
<1>4. LinkInv(p, q)'
  BY <1>2, NullOwnLink
<1>5. \A s \in Neighbours(p) : s # q => LinkInv(p, s)'
  BY <1>2, <1>3, NullOtherLink
<1>6. SafeInv(p)'
  <2>1. PICK now, I \in Nat : now = currentTs[p] /\ I = NullInterval(p, q)
    BY <1>1, Types
  <2>2. PICK y : y = LaterNull(p, q, uid[p])
    OBVIOUS
  <2>3. y.ts = now + I
    BY <1>1, <2>1, <2>2, LaterNullIs
  <2>4. now <= y.ts
    BY <2>1, <2>3
  <2> QED  BY <1>1, <1>2, <2>1, <2>2, <2>4 DEF SafeInv
<1>7. \A r \in Rank : r # p => chan'[r] = chan[r]
  BY <1>1, <1>2, OtherRows
<1> QED  BY <1>2, <1>4, <1>5, <1>6, <1>7, OwnLinksSent

\* What is safe grows with what the neighbours guarantee.
LEMMA SafeGrows ==
  ASSUME TypeInv, NEW p \in Rank, SafeInv(p), TypeInv', channels' = channels,
         \A s \in Neighbours(p) : /\ safe[p] <= guarantee[p][s]
                                  /\ guarantee[p][s] <= guarantee'[p][s],
         safe'[p] = safe[p] \/ safe'[p] = Calculated(p, guarantee'[p])
  PROVE  /\ safe[p] <= safe'[p] /\ safe'[p] <= Forever
         /\ \A s \in Neighbours(p) : safe'[p] <= guarantee'[p][s]
<1>1. PICK S \in Nat, f, g \in [Neighbours(p) -> Nat] :
        S = safe[p] /\ f = guarantee[p] /\ g = guarantee'[p]
  <2>1. Neighbours(p)' = Neighbours(p)
    BY SameChannels
  <2>2. guarantee[p] \in [Neighbours(p) -> Nat] /\ guarantee'[p] \in [Neighbours(p) -> Nat]
    BY <2>1 DEF TypeInv, PerLink
  <2> QED  BY <2>2, Types
<1>2. S <= Forever /\ Forever \in Nat
  BY <1>1, InputAssumption DEF SafeInv
<1>3. \A s \in Neighbours(p) : S <= f[s] /\ f[s] <= g[s]
  BY <1>1
<1>4. \A s \in Neighbours(p) : S <= g[s]
  <2> SUFFICES ASSUME NEW s \in Neighbours(p) PROVE S <= g[s]
    OBVIOUS
  <2>1. f[s] \in Nat /\ g[s] \in Nat
    BY <1>1
  <2> QED  BY <1>1, <1>3, <2>1
<1>5. /\ Calculated(p, g) \in Nat /\ Calculated(p, g) <= Forever
      /\ \A s \in Neighbours(p) : Calculated(p, g) <= g[s]
      /\ S <= Calculated(p, g)
  BY <1>1, <1>2, <1>4, SafeTimeIs DEF TypeInv
<1> QED  BY <1>1, <1>2, <1>4, <1>5

\* A link from a rank that executes nothing, while messages arrive.
LEMMA WaitingLink ==
  ASSUME TypeInv, NEW p \in Rank, NEW s \in Neighbours(p), LinkInv(p, s), Frame(p),
         ~Sending(p, s), phase'[p] \notin {"script", "event"}, phase[p] # "script",
         currentTs'[p] = currentTs[p], chan'[p][s] = chan[p][s],
         guarantee'[s][p] = guarantee[s][p],
         safe[p] <= safe'[p], safe'[p] <= guarantee'[p][s],
         events[p] \subseteq events'[p],
         \A f \in events'[p] \ events[p] : safe[p] <= f.ts /\ ~IsNull(f, s)
  PROVE  LinkInv(p, s)'
<1>1. PICK L, D, I \in Nat :
         /\ Promised(p, s) = L /\ Promised(p, s)' = L
         /\ BundleDelay(p, s) = D /\ BundleDelay(p, s)' = D
         /\ ChannelsOf(p, s)' = ChannelsOf(p, s)
         /\ NullInterval(p, s) = I /\ NullInterval(p, s)' = I
         /\ InOrder(chan[p][s], guarantee[s][p])
              => InOrder(chan'[p][s], guarantee'[s][p])
  BY Unsent DEF Frame
<1>2. PICK S, T \in Nat : S = safe[p] /\ T = safe'[p]
  BY DEF Frame, TypeInv
<1>3. \A f \in events'[p] : f.ts \in Nat
  <2>1. events'[p] \in SUBSET EventRec
    BY DEF Frame, TypeInv
  <2> QED  BY <2>1 DEF EventRec
<1>4. L <= S + D
  BY <1>1, <1>2 DEF LinkInv, Late
<1>5. Late(p, s, safe[p])'
  <2>1. L <= T + D
    BY <1>2, <1>4
  <2> QED  BY <1>1, <1>2, <2>1 DEF Late
<1>6. \A f \in events'[p] \ events[p] : L <= f.ts + D
  <2> SUFFICES ASSUME NEW f \in events'[p] \ events[p] PROVE L <= f.ts + D
    OBVIOUS
  <2>1. f.ts \in Nat /\ S <= f.ts
    BY <1>2, <1>3
  <2> QED  BY <1>2, <1>4, <2>1
<1>7. \A f \in events'[p] : IsNull(f, s) /\ f.live => f \in events[p]
  OBVIOUS
<1>8. \A f \in events'[p] : IsNull(f, s) /\ f.live => f.ts <= currentTs'[p] + I
  BY <1>1, <1>7 DEF LinkInv
<1>9. ASSUME AllLate(p, s) PROVE AllLate(p, s)'
  <2>1. \A f \in events'[p] : (IsNull(f, s) /\ f.live) \/ L <= f.ts + D
    BY <1>1, <1>6, <1>9 DEF AllLate, Late
  <2> QED  BY <1>1, <2>1 DEF AllLate, Late, IsNull
<1>10. ASSUME DeviceLate(p, s) PROVE DeviceLate(p, s)'
  <2>1. ~Sending(p, s)'
    BY DEF Sending
  <2>2. \A f \in events'[p] : IsNull(f, s) /\ f.live => L <= f.ts + D
    BY <1>1, <1>7, <1>10 DEF DeviceLate, Late
  <2>3. PICK d \in ChannelsOf(p, s), e \in events[p] :
              e.act.kind = "complete" /\ e.act.on = d.id /\ L <= e.ts + D
    BY <1>1, <1>10 DEF DeviceLate, Late
  <2> QED  BY <1>1, <2>1, <2>2, <2>3 DEF DeviceLate, Late, IsNull
<1>11. LinkInv(p, s)
  OBVIOUS
<1> QED  BY <1>1, <1>5, <1>8, <1>9, <1>10, <1>11 DEF LinkInv, IsNull

LEMMA QuietLinks ==
  ASSUME BaseInv, LinksInv, NEW p \in Rank,
         \/ Stop(p) \/ EventReturns(p) \/ PollEnds(p) \/ NobodyToWaitFor(p)
         \/ RunReturns(p)
  PROVE  LinksInv'
<1>1. /\ Frame(p)
      /\ UNCHANGED <<events, uid, currentTs, guarantee, nullEvent, busy, chan>>
      /\ phase[p] # "script" /\ phase'[p] \notin {"script", "event"}
      /\ \A q : ~Sending(p, q)
      /\ safe'[p] = safe[p] \/ safe'[p] = Calculated(p, guarantee[p])
  BY QuietEffect DEF BaseInv
<1>2. /\ TypeInv /\ SafeInv(p) /\ TypeInv' /\ channels' = channels
      /\ \A s \in Neighbours(p) : LinkInv(p, s)
  BY <1>1 DEF BaseInv, LinksInv, Frame
<1>3. \A s \in Neighbours(p) : /\ safe[p] <= guarantee[p][s]
                               /\ guarantee[p][s] <= guarantee'[p][s]
  <2>1. \A s \in Neighbours(p) : guarantee[p][s] \in Nat
    BY <1>2, Types
  <2> QED  BY <1>1, <1>2, <2>1 DEF LinkInv
<1>4. /\ safe[p] <= safe'[p] /\ safe'[p] <= Forever
      /\ \A s \in Neighbours(p) : safe'[p] <= guarantee'[p][s]
  BY <1>1, <1>2, <1>3, SafeGrows
<1>5. SafeInv(p)'
  <2>1. currentTs[p] \in Nat /\ safe[p] \in Nat /\ safe'[p] \in Nat
    BY <1>2 DEF TypeInv
  <2>2. currentTs'[p] <= safe'[p]
    BY <1>1, <1>2, <1>4, <2>1 DEF SafeInv
  <2> QED  BY <1>1, <1>2, <1>4, <2>2 DEF SafeInv
<1>6. \A s \in Neighbours(p) : LinkInv(p, s)'
  BY <1>1, <1>2, <1>4, WaitingLink
<1> QED  BY <1>1, <1>5, <1>6, OwnLinksSent

LEMMA ReceiveLinks ==
  ASSUME BaseInv, LinksInv, NEW p \in Rank, PollReceive(p) \/ BlockingReceive(p)
  PROVE  LinksInv'
<1>1. PICK q \in Neighbours(p) :
           /\ Frame(p) /\ Taken(q, p) /\ phase[p] \in {"loop", "poll"}
           /\ Head(chan[q][p]) \in Message
           /\ \/ /\ Head(chan[q][p]).rx > 0
                 /\ Scheduled(p, q) \in EventRec
                 /\ events'[p] = events[p] \cup {Scheduled(p, q)}
                 /\ uid'[p] = uid[p] + 1
              \/ /\ Head(chan[q][p]).rx = 0
                 /\ UNCHANGED <<events, uid>>
           /\ safe'[p] = safe[p] \/ safe'[p] = Calculated(p, guarantee'[p])
           /\ UNCHANGED <<currentTs, stop, nullEvent, busy, phase, running>>
  BY ReceiveEffect DEF BaseInv
<1>2. /\ TypeInv /\ SafeInv(p) /\ TypeInv' /\ channels' = channels
      /\ \A s \in Neighbours(p) : LinkInv(p, s) /\ LinkInv(s, p)
  <2>1. \A s \in Neighbours(p) : s \in Rank /\ p \in Neighbours(s)
    BY NeighbourSymmetry
  <2> QED  BY <1>1, <2>1 DEF BaseInv, LinksInv, Frame
<1>3. PICK m, g, seq : m = Head(seq) /\ g = guarantee[p][q] /\ seq = chan[q][p]
  OBVIOUS
<1>4. /\ q \in Rank /\ q # p /\ p \in Neighbours(q)
      /\ g \in Nat /\ seq \in Seq(Message) /\ seq # <<>> /\ InOrder(seq, g)
      /\ chan'[q][p] = Tail(seq) /\ guarantee'[p][q] = m.guarantee
  <2>1. /\ q \in Rank /\ q # p /\ p \in Neighbours(q)
        /\ guarantee[p][q] \in Nat /\ chan[q][p] \in Seq(Message)
    BY <1>2, Types
  <2> QED  BY <1>1, <1>2, <1>3, <2>1 DEF LinkInv, Taken
<1>5. /\ m \in Message /\ g <= m.guarantee /\ (m.rx > 0 => g <= m.rx)
      /\ InOrder(Tail(seq), m.guarantee)
      /\ LastPromise(Tail(seq), m.guarantee) = LastPromise(seq, g)
  BY <1>3, <1>4, TailInOrder
<1>6. \A r \in Neighbours(p) :
        /\ InOrder(chan'[r][p], guarantee'[p][r])
        /\ Promised(r, p)' = Promised(r, p)
  <2> SUFFICES ASSUME NEW r \in Neighbours(p)
               PROVE  /\ InOrder(chan'[r][p], guarantee'[p][r])
                      /\ Promised(r, p)' = Promised(r, p)
    OBVIOUS
  <2>1. CASE r = q
    BY <1>3, <1>4, <1>5, <2>1 DEF Promised
  <2>2. CASE r # q
    <3>1. r \in Rank /\ p \in Neighbours(r)
      BY NeighbourSymmetry
    <3>2. chan'[r][p] = chan[r][p] /\ guarantee'[p][r] = guarantee[p][r]
      BY <1>1, <2>2, <3>1 DEF Taken
    <3> QED  BY <1>2, <3>2 DEF LinkInv, Promised
  <2> QED  BY <2>1, <2>2
<1>7. \A s \in Neighbours(p) : /\ safe[p] <= guarantee[p][s]
                               /\ guarantee[p][s] <= guarantee'[p][s]
  <2> SUFFICES ASSUME NEW s \in Neighbours(p)
               PROVE  /\ safe[p] <= guarantee[p][s]
                      /\ guarantee[p][s] <= guarantee'[p][s]
    OBVIOUS
  <2>1. safe[p] <= guarantee[p][s]
    BY <1>2 DEF LinkInv
  <2>2. CASE s = q
    BY <1>3, <1>4, <1>5, <2>1, <2>2
  <2>3. CASE s # q
    <3>1. s \in Rank /\ p \in Neighbours(s) /\ guarantee[p][s] \in Nat
      BY <1>2, Types
    <3>2. guarantee'[p][s] = guarantee[p][s]
      BY <1>1, <2>3, <3>1 DEF Taken
    <3> QED  BY <2>1, <3>1, <3>2
  <2> QED  BY <2>2, <2>3
<1>8. /\ safe[p] <= safe'[p] /\ safe'[p] <= Forever
      /\ \A s \in Neighbours(p) : safe'[p] <= guarantee'[p][s]
  BY <1>1, <1>2, <1>7, SafeGrows
<1>9. /\ events[p] \subseteq events'[p]
      /\ \A f \in events'[p] \ events[p] : f.ts = m.rx /\ m.rx > 0 /\ f.act.kind = "packet"
  <2>1. Scheduled(p, q).ts = m.rx /\ Scheduled(p, q).act.kind = "packet"
    BY <1>3 DEF Scheduled, Event, Reception
  <2> QED  BY <1>1, <1>3, <2>1
<1>10. \A f \in events'[p] \ events[p] : /\ safe[p] <= f.ts /\ f.ts \in Nat
                                         /\ \A s : ~IsNull(f, s)
  <2> SUFFICES ASSUME NEW f \in events'[p] \ events[p]
               PROVE  safe[p] <= f.ts /\ f.ts \in Nat /\ \A s : ~IsNull(f, s)
    OBVIOUS
  <2>1. m.rx \in Nat /\ g <= m.rx
    BY <1>5, <1>9 DEF Message
  <2>2. safe[p] \in Nat /\ safe[p] <= g
    BY <1>2, <1>3, <1>7, Types
  <2>3. safe[p] <= m.rx
    BY <1>4, <2>1, <2>2
  <2> QED  BY <1>9, <2>1, <2>3 DEF IsNull
<1>11. SafeInv(p)'
  <2>1. currentTs[p] \in Nat /\ safe[p] \in Nat /\ safe'[p] \in Nat
    BY <1>2 DEF TypeInv
  <2>2. currentTs[p] <= safe[p] /\ currentTs'[p] = currentTs[p]
    BY <1>1, <1>2 DEF SafeInv
  <2>3. \A f \in events'[p] : currentTs[p] <= f.ts
    <3> SUFFICES ASSUME NEW f \in events'[p] PROVE currentTs[p] <= f.ts
      OBVIOUS
    <3>1. CASE f \in events[p]
      BY <1>2, <3>1 DEF SafeInv
    <3>2. CASE f \notin events[p]
      BY <1>10, <2>1, <2>2, <3>2
    <3> QED  BY <3>1, <3>2
  <2>4. currentTs[p] <= safe'[p]
    BY <1>8, <2>1, <2>2
  <2> QED  BY <1>8, <2>2, <2>3, <2>4 DEF SafeInv
<1>12. ASSUME NEW s \in Neighbours(p) PROVE LinkInv(p, s)'
  <2>1. chan'[p][s] = chan[p][s] /\ guarantee'[s][p] = guarantee[s][p]
    BY <1>1, <1>4 DEF Taken
  <2>2. /\ LinkInv(p, s) /\ ~Sending(p, s) /\ phase'[p] \notin {"script", "event"}
        /\ phase[p] # "script" /\ currentTs'[p] = currentTs[p]
    BY <1>1, <1>2 DEF Sending
  <2> QED  BY <1>1, <1>2, <1>8, <1>9, <1>10, <2>1, <2>2, WaitingLink
<1>13. \A r \in Rank : \A s \in Neighbours(r) :
           r # p /\ s # p => chan'[r][s] = chan[r][s]
  BY <1>1 DEF Taken
<1> QED  BY <1>1, <1>6, <1>11, <1>12, <1>13, OwnLinks

LEMMA LinksInvNext ==
  ASSUME OneChannel, BaseInv, LinksInv, [Next]_vars
  PROVE  LinksInv'
<1>1. CASE Next
  BY <1>1, Steps, ScheduleLinks, TransmitLinks, RunLinks, ProcessLinks,
     NullLinks, ReceiveLinks, QuietLinks
<1>2. CASE UNCHANGED vars
  <2>1. channels' = channels /\ \A r \in Rank : Same(r)
    BY <1>2 DEF vars, timeVars, localVars, Same
  <2>2. \A r \in Rank : Neighbours(r)' = Neighbours(r)
    BY <2>1, SameChannels
  <2>3. \A r \in Rank : SafeInv(r)'
    BY <2>1 DEF LinksInv, SafeInv, Same
  <2>4. ASSUME NEW r \in Rank, NEW s \in Neighbours(r) PROVE LinkInv(r, s)'
    <3>1. chan' = chan /\ guarantee' = guarantee
      BY <1>2 DEF vars, timeVars
    <3>2. LinkInv(r, s) /\ Promised(r, s)' = Promised(r, s)
      BY <3>1 DEF LinksInv, Promised
    <3>3. InOrder(chan'[r][s], guarantee'[s][r])
      BY <3>1, <3>2 DEF LinkInv
    <3> QED  BY <2>1, <3>2, <3>3, SameLink
  <2> QED  BY <2>2, <2>3, <2>4 DEF LinksInv
<1> QED  BY <1>1, <1>2

LEMMA LinksInvAlways ==
  ASSUME OneChannel
  PROVE  Spec => [](BaseInv /\ LinksInv)
<1>1. Init => BaseInv /\ LinksInv
  BY BaseInvInit, LinksInvInit
<1>2. BaseInv /\ LinksInv /\ [Next]_vars => (BaseInv /\ LinksInv)'
  <2> SUFFICES ASSUME BaseInv, LinksInv, [Next]_vars PROVE BaseInv' /\ LinksInv'
    OBVIOUS
  <2>1. BaseInv'
    BY BaseInvNext
  <2>2. LinksInv'
    BY LinksInvNext
  <2> QED  BY <2>1, <2>2
<1> QED  BY <1>1, <1>2, PTL DEF Spec

\* A message on its way to a rank: what the invariant says of it.
LEMMA UnderWay ==
  ASSUME BaseInv, LinksInv, NEW p \in Rank, NEW q \in Neighbours(p),
         NEW i \in DOMAIN chan[q][p]
  PROVE  /\ chan[q][p][i] \in Message
         /\ currentTs[p] <= chan[q][p][i].guarantee
         /\ chan[q][p][i].rx > 0 =>
              /\ currentTs[p] <= chan[q][p][i].rx
              /\ guarantee[p][q] <= chan[q][p][i].rx
              /\ \A j \in 1..(i - 1) :
                   chan[q][p][j].guarantee <= chan[q][p][i].rx
<1>1. /\ q \in Rank /\ p \in Neighbours(q) /\ TypeInv
      /\ chan[q][p] \in Seq(Message) /\ guarantee[p][q] \in Nat
      /\ currentTs[p] \in Nat /\ safe[p] \in Nat
  BY Types DEF BaseInv
<1>2. PICK s \in Seq(Message), g, now, S \in Nat :
        s = chan[q][p] /\ g = guarantee[p][q] /\ now = currentTs[p] /\ S = safe[p]
  BY <1>1
<1>3. /\ now <= S /\ S <= g /\ InOrder(s, g)
  BY <1>1, <1>2 DEF LinksInv, SafeInv, LinkInv
<1>4. i \in DOMAIN s /\ s[i] \in Message
  BY <1>2
<1>5. s[i].rx \in Nat /\ s[i].guarantee \in Nat
  BY <1>4 DEF Message
<1>6. /\ g <= s[i].guarantee
      /\ s[i].rx > 0 =>
           g <= s[i].rx /\ \A j \in 1..(i - 1) : s[j].guarantee <= s[i].rx
  BY <1>3, <1>4 DEF InOrder
<1>7. now <= s[i].guarantee /\ (s[i].rx > 0 => now <= s[i].rx)
  BY <1>2, <1>3, <1>5, <1>6
<1> QED  BY <1>2, <1>4, <1>6, <1>7

LEMMA LinksInvKept ==
  BaseInv /\ LinksInv => GuaranteeHolds /\ GuaranteeInTime
<1> SUFFICES ASSUME BaseInv, LinksInv, NEW p \in Rank, NEW q \in Neighbours(p),
                    NEW i \in DOMAIN chan[q][p]
             PROVE  /\ chan[q][p][i].guarantee >= currentTs[p]
                    /\ chan[q][p][i].rx > 0 =>
                         /\ chan[q][p][i].rx >= currentTs[p]
                         /\ chan[q][p][i].rx >= guarantee[p][q]
                         /\ \A j \in 1..(i - 1) :
                              chan[q][p][i].rx >= chan[q][p][j].guarantee
  BY DEF GuaranteeHolds, GuaranteeInTime
<1> QED  BY UnderWay

-----------------------------------------------------------------------------
\* What is safe for a rank that does not poll is what the least of its
\* neighbours guaranteed it.
SafeKnown(p) ==
  phase[p] \in {"script", "loop"} =>
    \/ Neighbours(p) = {} \/ safe[p] = Forever
    \/ \E q \in Neighbours(p) : guarantee[p][q] <= safe[p]

\* The clock of a rank that stopped shows when the script stops it.
StopKnown(p) ==
  /\ \A e \in events[p] : e.act.kind = "stop" => e.ts = StopTime
  /\ phase[p] = "event" /\ running[p].kind = "stop" => currentTs[p] = StopTime
  /\ stop[p] => currentTs[p] = StopTime
  /\ phase[p] = "done" => stop[p] \/ events[p] = {}

\* A rank sends its next null message before it reaches the time it promised.
NullInTime(p, q) ==
  \A e \in events[p] : IsNull(e, q) /\ e.live => e.ts <= Promised(p, q)

WaitInv == \A p \in Rank : /\ SafeKnown(p) /\ StopKnown(p)
                           /\ \A q \in Neighbours(p) : NullInTime(p, q)

\* The interval of null messages is not longer than the delay of the bundle.
LEMMA IntervalShort ==
  ASSUME TypeInv, NEW p \in Rank, NEW q \in Neighbours(p)
  PROVE  NullInterval(p, q) <= BundleDelay(p, q)
<1>1. PICK d \in Nat : d = BundleDelay(p, q)
  BY Types
<1>2. PICK c \in 1..100 : c = Tune
  BY InputAssumption
<1>3. PICK x \in Nat : x = c * d
  BY <1>1, <1>2
<1>4. x <= 100 * d
  <2>1. ASSUME NEW a \in Nat, NEW b \in Nat, NEW k \in Nat, k = a + b
        PROVE  a * d <= k * d
    <3>1. k * d = a * d + b * d /\ b * d \in Nat /\ a * d \in Nat
      BY <1>1, <2>1
    <3> QED  BY <3>1
  <2>2. 100 - c \in Nat /\ 100 = c + (100 - c)
    BY <1>2
  <2> QED  BY <1>2, <1>3, <2>1, <2>2
<1>5. (x + 50) \div 100 <= d
  BY <1>1, <1>3, <1>4
<1> QED  BY <1>1, <1>2, <1>3, <1>5 DEF NullInterval

\* A guarantee is a delay of the bundle ahead of all the rank may execute.
LEMMA GuaranteeAhead ==
  ASSUME TypeInv, NEW p \in Rank, NEW q \in Neighbours(p),
         NEW queue \in SUBSET EventRec, queue # {}, currentTs[p] <= safe[p],
         \A e \in queue : currentTs[p] <= e.ts
  PROVE  currentTs[p] + BundleDelay(p, q) <= GuaranteeTime(p, q, queue)
<1>1. PICK now, S, D, G \in Nat :
        /\ now = currentTs[p] /\ S = safe[p] /\ D = BundleDelay(p, q)
        /\ G = GuaranteeTime(p, q, queue)
  BY GuaranteeTimeIs, Types
<1>2. \A e \in queue : e.ts \in Nat /\ now <= e.ts
  BY <1>1 DEF EventRec
<1>3. G = S + D \/ \E e \in queue : G = e.ts + D
  BY <1>1, GuaranteeTimeIs
<1>4. now + D <= G
  BY <1>1, <1>2, <1>3
<1> QED  BY <1>1, <1>4

LEMMA SentPromise ==
  ASSUME TypeInv, NEW p \in Rank, NEW q \in Neighbours(p), NEW m, Sends(p, q, m)
  PROVE  Promised(p, q)' = m.guarantee
<1>1. PICK s \in Seq(Message) : s = chan[p][q]
  BY Types
<1>2. chan'[p][q] = Append(s, m) /\ m \in Message
  BY <1>1 DEF Sends
<1>3. PICK t : t = Append(s, m)
  OBVIOUS
<1>4. t # <<>> /\ t[Len(t)] = m
  BY <1>2, <1>3
<1> QED  BY <1>2, <1>3, <1>4 DEF Promised, LastPromise

LEMMA CalculatedIsOne ==
  ASSUME channels \in Topologies, NEW p \in Rank,
         NEW promised \in [Neighbours(p) -> Nat]
  PROVE  \/ Calculated(p, promised) = Forever
         \/ \E q \in Neighbours(p) : promised[q] = Calculated(p, promised)
<1> DEFINE S == {promised[q] : q \in Neighbours(p)} \cup {Forever}
<1>1. S \in SUBSET Nat /\ S # {}
  BY InputAssumption
<1>2. Min(S) \in S
  <2> HIDE DEF S
  <2> QED  BY <1>1, MinNat
<1>3. PICK n : n = Min(S)
  OBVIOUS
<1>4. n = Calculated(p, promised)
  BY <1>3 DEF Calculated, SafeTime
<1> QED  BY <1>2, <1>3, <1>4

\* It is enough to look at the rank that steps, and at what the others promise.
LEMMA OwnWait ==
  ASSUME WaitInv, NEW p \in Rank, Frame(p), SafeKnown(p)', StopKnown(p)',
         \A q \in Neighbours(p) : NullInTime(p, q)',
         \A r \in Rank : \A s \in Neighbours(r) :
           r # p => Promised(r, s)' = Promised(r, s)
  PROVE  WaitInv'
<1>1. \A r \in Rank : Neighbours(r)' = Neighbours(r)
  BY SameChannels DEF Frame
<1>2. ASSUME NEW r \in Rank, r # p
      PROVE  /\ SafeKnown(r)' /\ StopKnown(r)'
             /\ \A s \in Neighbours(r) : NullInTime(r, s)'
  <2>1. Same(r) /\ SafeKnown(r) /\ StopKnown(r)
        /\ \A s \in Neighbours(r) : NullInTime(r, s)
    BY <1>2 DEF Frame, WaitInv
  <2>2. SafeKnown(r)'
    BY <1>1, <2>1 DEF SafeKnown, Same
  <2>3. StopKnown(r)'
    BY <2>1 DEF StopKnown, Same
  <2>4. \A s \in Neighbours(r) : NullInTime(r, s)'
    BY <1>2, <2>1 DEF NullInTime, IsNull, Same
  <2> QED  BY <2>2, <2>3, <2>4
<1> QED  BY <1>1, <1>2 DEF WaitInv

LEMMA OwnWaitSent ==
  ASSUME WaitInv, NEW p \in Rank, Frame(p), SafeKnown(p)', StopKnown(p)',
         \A q \in Neighbours(p) : NullInTime(p, q)',
         \A r \in Rank : \A s \in Neighbours(r) : r # p => chan'[r][s] = chan[r][s],
         guarantee' = guarantee
  PROVE  WaitInv'
<1>1. \A r \in Rank : \A s \in Neighbours(r) :
        r # p => Promised(r, s)' = Promised(r, s)
  BY DEF Promised
<1> QED  BY <1>1, OwnWait

LEMMA WaitInvInit == Init => WaitInv
<1> SUFFICES ASSUME Init, NEW p \in Rank
             PROVE  /\ SafeKnown(p) /\ StopKnown(p)
                    /\ \A q \in Neighbours(p) : NullInTime(p, q)
  BY DEF WaitInv
<1>1. /\ events[p] = {Event(StopTime, FirstUid, StopCall(p))}
      /\ safe[p] = 0 /\ phase[p] = "script" /\ ~stop[p]
      /\ \A q \in Neighbours(p) : guarantee[p][q] = 0
  BY DEF Init
<1>2. \A e \in events[p] : e.ts = StopTime /\ e.act.kind = "stop"
  BY <1>1 DEF Event, StopCall
<1>3. SafeKnown(p)
  BY <1>1 DEF SafeKnown
<1>4. StopKnown(p)
  BY <1>1, <1>2 DEF StopKnown
<1>5. \A q \in Neighbours(p) : NullInTime(p, q)
  BY <1>2 DEF NullInTime, IsNull
<1> QED  BY <1>3, <1>4, <1>5

LEMMA ScheduleWait ==
  ASSUME BaseInv, WaitInv, NEW p \in Rank, NEW d \in Delay, Schedule(p, d)
  PROVE  WaitInv'
<1>1. PICK x : x = Event(currentTs[p] + d, uid[p], Call(p, uid[p]))
  OBVIOUS
<1>2. /\ Frame(p) /\ Calling(p) /\ channels' = channels
      /\ events'[p] = events[p] \cup {x}
      /\ UNCHANGED <<currentTs, stop, safe, guarantee, chan, phase, running>>
  BY <1>1, ScheduleEffect DEF BaseInv, Frame
<1>3. x.act.kind = "call"
  BY <1>1 DEF Event, Call
<1>4. /\ SafeKnown(p) /\ StopKnown(p) /\ Neighbours(p)' = Neighbours(p)
      /\ \A q \in Neighbours(p) : NullInTime(p, q)
  BY <1>2, SameChannels DEF WaitInv
<1>5. SafeKnown(p)'
  BY <1>2, <1>4 DEF SafeKnown
<1>6. StopKnown(p)'
  BY <1>2, <1>3, <1>4 DEF StopKnown, Calling
<1>7. \A q \in Neighbours(p) : NullInTime(p, q)'
  BY <1>2, <1>3, <1>4 DEF NullInTime, IsNull, Promised
<1> QED  BY <1>2, <1>5, <1>6, <1>7, OwnWaitSent

LEMMA RunWait ==
  ASSUME BaseInv, WaitInv, NEW p \in Rank, Run(p)
  PROVE  WaitInv'
<1>1. /\ Frame(p) /\ phase[p] = "script" /\ phase'[p] = "loop"
      /\ stop'[p] = FALSE /\ channels' = channels
      /\ events'[p] = events[p] \cup {FirstNull(p, q) : q \in Neighbours(p)}
      /\ \A q \in Neighbours(p) :
           /\ FirstMessage(p, q) \in Message
           /\ chan'[p][q] = Append(chan[p][q], FirstMessage(p, q))
      /\ \A r \in Rank : r # p => chan'[r] = chan[r]
      /\ UNCHANGED <<currentTs, safe, guarantee, running>>
  BY RunEffect DEF BaseInv, Frame
<1>2. TypeInv /\ QueueInv(p) /\ currentTs[p] = 0
  BY <1>1 DEF BaseInv, RankInv, QueueInv
<1>3. /\ SafeKnown(p) /\ StopKnown(p) /\ Neighbours(p)' = Neighbours(p)
  BY <1>1, SameChannels DEF WaitInv
<1>4. SafeKnown(p)'
  BY <1>1, <1>3 DEF SafeKnown
<1>5. \A q \in Neighbours(p) : FirstNull(p, q).act.kind = "null"
  BY <1>2, FirstNullIs DEF IsNull
<1>6. StopKnown(p)'
  BY <1>1, <1>3, <1>5 DEF StopKnown
<1>7. ASSUME NEW q \in Neighbours(p) PROVE NullInTime(p, q)'
  <2>1. PICK D, I \in Nat : BundleDelay(p, q) = D /\ NullInterval(p, q) = I /\ I <= D
    BY <1>2, Types, IntervalShort
  <2>2. PICK s \in Seq(Message), m \in Message :
          s = chan[p][q] /\ m = FirstMessage(p, q)
    BY <1>1, <1>2, Types
  <2>3. chan'[p][q] = Append(s, m) /\ m.guarantee = D
    BY <1>1, <2>1, <2>2 DEF FirstMessage
  <2>4. PICK t : t = Append(s, m)
    OBVIOUS
  <2>5. t # <<>> /\ t[Len(t)] = m
    BY <2>4
  <2>6. Promised(p, q)' = D
    BY <2>3, <2>4, <2>5 DEF Promised, LastPromise
  <2>7. \A e \in events'[p] : IsNull(e, q) => e.ts <= D
    <3> SUFFICES ASSUME NEW e \in events'[p], IsNull(e, q)
                 PROVE  e.ts <= D
      OBVIOUS
    <3>1. e \notin events[p]
      BY <1>1, <1>2 DEF QueueInv, IsNull
    <3>2. PICK r \in Neighbours(p) : e = FirstNull(p, r)
      BY <1>1, <3>1
    <3>3. r = q
      BY <1>2, <3>2, FirstNullIs
    <3>4. e.ts = currentTs[p] + I
      BY <1>2, <2>1, <3>2, <3>3, FirstNullIs
    <3> QED  BY <1>2, <2>1, <3>4
  <2> QED  BY <2>6, <2>7 DEF NullInTime, IsNull
<1> QED  BY <1>1, <1>4, <1>6, <1>7, OwnWaitSent

LEMMA ProcessWait ==
  ASSUME BaseInv, WaitInv, NEW p \in Rank, ProcessOneEvent(p)
  PROVE  WaitInv'
<1>1. PICK e \in events[p] :
           /\ Frame(p) /\ phase[p] = "loop" /\ ~stop[p]
           /\ currentTs'[p] = e.ts
           /\ events'[p] = events[p] \ {e}
           /\ running'[p] = IF e.live THEN e.act ELSE NoAct
           /\ phase'[p] = IF e.live THEN "event" ELSE "poll"
           /\ UNCHANGED <<stop, safe, guarantee, chan>>
  BY ProcessEffect DEF BaseInv
<1>2. StopKnown(p) /\ \A q \in Neighbours(p) : NullInTime(p, q)
  BY DEF WaitInv
<1>3. SafeKnown(p)'
  BY <1>1 DEF SafeKnown
<1>4. StopKnown(p)'
  BY <1>1, <1>2 DEF StopKnown
<1>5. \A q \in Neighbours(p) : NullInTime(p, q)'
  BY <1>1, <1>2 DEF NullInTime, IsNull, Promised
<1> QED  BY <1>1, <1>3, <1>4, <1>5, OwnWaitSent

LEMMA TransmitWait ==
  ASSUME BaseInv, LinksInv, WaitInv, NEW p \in Rank, NEW c \in channels,
         NEW t \in TxTimes, Transmit(p, c, t)
  PROVE  WaitInv'
<1>1. PICK q \in Neighbours(p) : Transmitted(p, q, c, t)
  BY TransmitIs
<1>2. /\ Frame(p) /\ TypeInv /\ SafeInv(p) /\ t \in Nat /\ phase[p] = "event"
      /\ running[p].kind \in {"call", "complete", "packet"}
      /\ Busier(p, c, t) \in SUBSET EventRec
      /\ Sends(p, q, PacketOf(p, q, c, t)) /\ channels' = channels
      /\ UNCHANGED <<currentTs, stop, safe, guarantee, phase, running>>
      /\ StopKnown(p) /\ \A s \in Neighbours(p) : NullInTime(p, s)
  BY <1>1 DEF BaseInv, LinksInv, WaitInv, Transmitted, Frame
<1>3. PICK now, D, I, S \in Nat :
        /\ now = currentTs[p] /\ S = safe[p] /\ I <= D
        /\ D = BundleDelay(p, q) /\ I = NullInterval(p, q)
  BY <1>2, Types, IntervalShort
<1>4. PICK x, y, K : /\ x = EndOf(p, c, t) /\ y = LaterNull(p, q, uid[p] + 1)
                     /\ K = PutOff(p, q)
  OBVIOUS
<1>5. /\ x.ts = now + t /\ x.act.kind = "complete"
      /\ y.ts = now + I /\ y.act.kind = "null" /\ \A s : s # q => ~IsNull(y, s)
  BY <1>2, <1>3, <1>4, EndOfIs, LaterNullIs
<1>6. /\ events'[p] = K \cup {x, y}
      /\ \A f \in K : \E e \in events[p] :
           /\ f.ts = e.ts /\ f.act = e.act
           /\ f.live <=> e.live /\ ~IsNull(e, q)
  BY <1>1, <1>4 DEF Transmitted
<1>7. SafeKnown(p)'
  BY <1>2 DEF SafeKnown
<1>8. StopKnown(p)'
  BY <1>2, <1>5, <1>6 DEF StopKnown
<1>9. PICK G \in Nat : /\ G = GuaranteeTime(p, q, Busier(p, c, t)) /\ now + D <= G
  <2>1. PICK Q \in SUBSET EventRec : Q = Busier(p, c, t)
    BY <1>2
  <2>2. Q # {} /\ currentTs[p] <= safe[p]
    BY <1>2, <2>1 DEF Busier, SafeInv
  <2>3. \A e \in Q : currentTs[p] <= e.ts
    <3>1. now <= x.ts
      BY <1>2, <1>3, <1>5
    <3>2. \A e \in events[p] : currentTs[p] <= e.ts
      BY <1>2 DEF SafeInv
    <3> QED  BY <1>3, <1>4, <2>1, <3>1, <3>2 DEF Busier
  <2> QED  BY <1>2, <1>3, <2>1, <2>2, <2>3, GuaranteeTimeIs, GuaranteeAhead
<1>10. NullInTime(p, q)'
  <2>1. Promised(p, q)' = G
    BY <1>2, <1>9, SentPromise DEF PacketOf
  <2>2. \A f \in events'[p] : IsNull(f, q) /\ f.live => f = y
    BY <1>5, <1>6 DEF IsNull
  <2>3. y.ts <= G
    BY <1>3, <1>5, <1>9
  <2> QED  BY <2>1, <2>2, <2>3 DEF NullInTime, IsNull
<1>11. ASSUME NEW s \in Neighbours(p), s # q PROVE NullInTime(p, s)'
  <2>1. Promised(p, s)' = Promised(p, s)
    BY <1>2, <1>11 DEF Promised, Sends
  <2>2. ASSUME NEW f \in events'[p], IsNull(f, s), f.live
        PROVE  f.ts <= Promised(p, s)
    <3>1. f \in K
      BY <1>5, <1>6, <1>11, <2>2 DEF IsNull
    <3>2. PICK e \in events[p] : /\ f.ts = e.ts /\ f.act = e.act
                                 /\ f.live <=> e.live /\ ~IsNull(e, q)
      BY <1>6, <3>1
    <3> QED  BY <1>2, <2>2, <3>2 DEF NullInTime, IsNull
  <2> QED  BY <2>1, <2>2 DEF NullInTime, IsNull
<1>12. \A r \in Rank : \A s \in Neighbours(r) : r # p => chan'[r][s] = chan[r][s]
  BY <1>2 DEF Sends
<1> QED  BY <1>2, <1>7, <1>8, <1>10, <1>11, <1>12, OwnWaitSent

LEMMA NullWait ==
  ASSUME BaseInv, LinksInv, WaitInv, NEW p \in Rank, NullMessageEventHandler(p)
  PROVE  WaitInv'
<1>1. TypeInv /\ QueueInv(p) /\ SafeInv(p) /\ StopKnown(p)
      /\ \A s \in Neighbours(p) : NullInTime(p, s) /\ NullInv(p, s)
  BY DEF BaseInv, RankInv, NullsInv, LinksInv, WaitInv
<1>2. PICK q \in Neighbours(p) :
           /\ Frame(p) /\ Sending(p, q) /\ phase'[p] = "poll" /\ events[p] # {}
           /\ Sends(p, q, NullMessage(p, q))
           /\ events'[p] = events[p] \cup {LaterNull(p, q, uid[p])}
           /\ UNCHANGED <<currentTs, stop, safe, guarantee>>
  BY <1>1, NullEffect
<1>3. PICK now, D, I \in Nat :
        /\ now = currentTs[p] /\ I <= D
        /\ D = BundleDelay(p, q) /\ I = NullInterval(p, q)
  BY <1>1, Types, IntervalShort
<1>4. PICK y : y = LaterNull(p, q, uid[p])
  OBVIOUS
<1>5. y.ts = now + I /\ y.act.kind = "null" /\ \A s : s # q => ~IsNull(y, s)
  BY <1>1, <1>3, <1>4, LaterNullIs
<1>6. SafeKnown(p)'
  BY <1>2 DEF SafeKnown
<1>7. StopKnown(p)'
  BY <1>1, <1>2, <1>4, <1>5 DEF StopKnown
<1>8. NullInTime(p, q)'
  <2>1. PICK G \in Nat : G = GuaranteeTime(p, q, events[p]) /\ now + D <= G
    <3>1. PICK Q \in SUBSET EventRec : Q = events[p]
      BY <1>1, Types
    <3>2. currentTs[p] <= safe[p] /\ \A e \in Q : currentTs[p] <= e.ts
      BY <1>1, <3>1 DEF SafeInv
    <3> QED  BY <1>1, <1>2, <1>3, <3>1, <3>2, GuaranteeTimeIs, GuaranteeAhead
  <2>2. Promised(p, q)' = G
    BY <1>1, <1>2, <2>1, SentPromise DEF NullMessage
  <2>3. \A e \in events[p] : ~(IsNull(e, q) /\ e.live)
    BY <1>1, <1>2 DEF NullInv, Sending
  <2>4. \A f \in events'[p] : IsNull(f, q) /\ f.live => f = y
    BY <1>2, <1>4, <2>3
  <2>5. y.ts <= G
    BY <1>3, <1>5, <2>1
  <2> QED  BY <2>2, <2>4, <2>5 DEF NullInTime, IsNull
<1>9. ASSUME NEW s \in Neighbours(p), s # q PROVE NullInTime(p, s)'
  <2>1. Promised(p, s)' = Promised(p, s)
    BY <1>2, <1>9 DEF Promised, Sends
  <2>2. \A f \in events'[p] : IsNull(f, s) => f \in events[p]
    BY <1>2, <1>4, <1>5, <1>9
  <2> QED  BY <1>1, <2>1, <2>2 DEF NullInTime, IsNull
<1>10. \A r \in Rank : \A s \in Neighbours(r) : r # p => chan'[r][s] = chan[r][s]
  BY <1>2 DEF Sends
<1> QED  BY <1>2, <1>6, <1>7, <1>8, <1>9, <1>10, OwnWaitSent

\* Of what a rank has received what is safe follows.
LEMMA SafeFollows ==
  ASSUME TypeInv', channels' = channels, NEW p \in Rank,
         safe'[p] = Calculated(p, guarantee'[p])
  PROVE  SafeKnown(p)'
<1>1. /\ channels \in Topologies /\ Neighbours(p)' = Neighbours(p)
      /\ safe'[p] \in Nat
  BY SameChannels DEF TypeInv
<1>2. PICK g \in [Neighbours(p) -> Nat] : g = guarantee'[p]
  BY <1>1 DEF TypeInv, PerLink
<1>3. PICK S \in Nat : S = safe'[p] /\ S = Calculated(p, g)
  BY <1>1, <1>2
<1>4. S = Forever \/ \E q \in Neighbours(p) : g[q] = S
  BY <1>1, <1>3, CalculatedIsOne
<1> QED  BY <1>1, <1>2, <1>3, <1>4 DEF SafeKnown

LEMMA ReceiveWait ==
  ASSUME BaseInv, LinksInv, WaitInv, NEW p \in Rank,
         PollReceive(p) \/ BlockingReceive(p)
  PROVE  WaitInv'
<1>1. PICK q \in Neighbours(p) :
           /\ Frame(p) /\ Taken(q, p) /\ phase[p] \in {"loop", "poll"}
           /\ \/ /\ Head(chan[q][p]).rx > 0
                 /\ events'[p] = events[p] \cup {Scheduled(p, q)}
              \/ UNCHANGED events
           /\ UNCHANGED <<currentTs, stop, phase, running>>
  BY ReceiveEffect DEF BaseInv
<1>2. /\ TypeInv /\ TypeInv' /\ channels' = channels /\ StopKnown(p)
      /\ Neighbours(p)' = Neighbours(p)
      /\ \A s \in Neighbours(p) : NullInTime(p, s)
  BY <1>1, SameChannels DEF BaseInv, WaitInv, Frame
<1>3. /\ q \in Rank /\ q # p /\ p \in Neighbours(q)
      /\ chan[q][p] \in Seq(Message) /\ guarantee[p][q] \in Nat
  BY <1>2, Types
<1>4. /\ events[p] \subseteq events'[p]
      /\ \A f \in events'[p] \ events[p] : f.act.kind = "packet"
  <2>1. Scheduled(p, q).act.kind = "packet"
    BY DEF Scheduled, Event, Reception
  <2> QED  BY <1>1, <2>1
<1>5. SafeKnown(p)'
  <2>1. CASE PollReceive(p)
    BY <1>1, <2>1 DEF PollReceive, SafeKnown
  <2>2. CASE BlockingReceive(p)
    <3>1. safe' = [safe EXCEPT ![p] = Calculated(p, guarantee'[p])]
      BY <2>2 DEF BlockingReceive, Calculated
    <3>2. safe'[p] = Calculated(p, guarantee'[p])
      BY <1>2, <3>1 DEF TypeInv
    <3> QED  BY <1>2, <3>2, SafeFollows
  <2> QED  BY <2>1, <2>2
<1>6. StopKnown(p)'
  BY <1>1, <1>2, <1>4 DEF StopKnown
<1>7. ASSUME NEW s \in Neighbours(p) PROVE NullInTime(p, s)'
  <2>1. Promised(p, s)' = Promised(p, s)
    BY <1>1, <1>3 DEF Taken, Promised
  <2>2. \A f \in events'[p] : IsNull(f, s) => f \in events[p]
    BY <1>4 DEF IsNull
  <2> QED  BY <1>2, <2>1, <2>2 DEF NullInTime, IsNull
<1>8. Promised(q, p)' = Promised(q, p)
  <2>1. PICK s \in Seq(Message), g \in Nat : s = chan[q][p] /\ g = guarantee[p][q]
    BY <1>3
  <2>2. InOrder(s, g) /\ s # <<>>
    BY <1>1, <1>3, <2>1 DEF LinksInv, LinkInv, Taken
  <2>3. LastPromise(Tail(s), Head(s).guarantee) = LastPromise(s, g)
    BY <2>1, <2>2, TailInOrder
  <2> QED  BY <1>1, <2>1, <2>3 DEF Promised, Taken
<1>9. \A r \in Rank : \A s \in Neighbours(r) :
        r # p => Promised(r, s)' = Promised(r, s)
  BY <1>1, <1>8 DEF Taken, Promised
<1> QED  BY <1>1, <1>5, <1>6, <1>7, <1>9, OwnWait

LEMMA QuietWait ==
  ASSUME BaseInv, WaitInv, NEW p \in Rank,
         \/ Stop(p) \/ EventReturns(p) \/ PollEnds(p) \/ NobodyToWaitFor(p)
         \/ RunReturns(p)
  PROVE  WaitInv'
<1>1. /\ Frame(p) /\ TypeInv /\ TypeInv' /\ channels' = channels
      /\ UNCHANGED <<events, currentTs, guarantee, chan>>
      /\ phase'[p] \notin {"script", "event"}
      /\ StopKnown(p) /\ \A s \in Neighbours(p) : NullInTime(p, s)
      /\ Neighbours(p)' = Neighbours(p)
  BY QuietEffect, SameChannels DEF BaseInv, WaitInv, Frame
<1>2. SafeKnown(p)'
  <2>1. CASE Stop(p) \/ EventReturns(p) \/ RunReturns(p)
    <3>1. phase'[p] \notin {"script", "loop"}
      BY <1>1, <2>1 DEF Stop, EventReturns, RunReturns, TypeInv
    <3> QED  BY <3>1 DEF SafeKnown
  <2>2. CASE PollEnds(p)
    <3>1. safe' = [safe EXCEPT ![p] = Calculated(p, guarantee[p])]
      BY <2>2 DEF PollEnds, Calculated
    <3>2. safe'[p] = Calculated(p, guarantee'[p])
      BY <1>1, <3>1 DEF TypeInv
    <3> QED  BY <1>1, <3>2, SafeFollows
  <2>3. CASE NobodyToWaitFor(p)
    BY <1>1, <2>3 DEF NobodyToWaitFor, SafeKnown
  <2> QED  BY <2>1, <2>2, <2>3
<1>3. StopKnown(p)'
  <2>1. stop'[p] => currentTs[p] = StopTime
    <3>1. CASE Stop(p)
      BY <1>1, <3>1 DEF Stop, StopKnown
    <3>2. CASE ~Stop(p)
      <4>1. stop' = stop
        BY <3>2 DEF EventReturns, PollEnds, NobodyToWaitFor, RunReturns
      <4> QED  BY <1>1, <4>1 DEF StopKnown
    <3> QED  BY <3>1, <3>2
  <2>2. phase'[p] = "done" => stop'[p] \/ events'[p] = {}
    BY <1>1 DEF Stop, EventReturns, PollEnds, NobodyToWaitFor, RunReturns,
                StopKnown, TypeInv, localVars
  <2> QED  BY <1>1, <2>1, <2>2 DEF StopKnown
<1>4. \A s \in Neighbours(p) : NullInTime(p, s)'
  BY <1>1 DEF NullInTime, IsNull, Promised
<1> QED  BY <1>1, <1>2, <1>3, <1>4, OwnWaitSent

LEMMA WaitInvNext ==
  ASSUME BaseInv, LinksInv, WaitInv, [Next]_vars
  PROVE  WaitInv'
<1>1. CASE Next
  BY <1>1, Steps, ScheduleWait, TransmitWait, RunWait, ProcessWait, NullWait,
     ReceiveWait, QuietWait
<1>2. CASE UNCHANGED vars
  <2>1. /\ channels' = channels /\ events' = events /\ safe' = safe
        /\ guarantee' = guarantee /\ chan' = chan /\ phase' = phase
        /\ running' = running /\ stop' = stop /\ currentTs' = currentTs
    BY <1>2 DEF vars, timeVars
  <2>2. \A r \in Rank : Neighbours(r)' = Neighbours(r)
    BY <2>1, SameChannels
  <2> QED  BY <2>1, <2>2 DEF WaitInv, SafeKnown, StopKnown, NullInTime, IsNull,
                             Promised
<1> QED  BY <1>1, <1>2

LEMMA WaitInvAlways ==
  ASSUME OneChannel
  PROVE  Spec => [](BaseInv /\ LinksInv /\ WaitInv)
<1>1. Init => WaitInv
  BY WaitInvInit
<1>2. BaseInv /\ LinksInv /\ WaitInv /\ [Next]_vars => WaitInv'
  BY WaitInvNext
<1>3. Spec => [](BaseInv /\ LinksInv)
  BY LinksInvAlways
<1> QED  BY <1>1, <1>2, <1>3, PTL DEF Spec

\* A rank that waits has been told no more than a neighbour promised last; that
\* neighbour will send before it gets there, which is behind this rank.
LEMMA WaitInvKept ==
  ASSUME BaseInv, LinksInv, WaitInv
  PROVE  WaitsForOneBehind
<1> SUFFICES ASSUME NEW p \in Rank, Waiting(p)
             PROVE  \E q \in Neighbours(p) :
                      /\ phase[q] # "done"
                      /\ phase[q] \in {"loop", "poll"} =>
                           NextOf(events[q]) < NextOf(events[p])
  BY DEF WaitsForOneBehind
<1>1. /\ TypeInv /\ SafeKnown(p) /\ StopInv(p) /\ phase[p] = "loop" /\ ~stop[p]
      /\ events[p] # {} /\ NextOf(events[p]) > safe[p] /\ Neighbours(p) # {}
      /\ \A q \in Neighbours(p) : chan[q][p] = <<>>
  BY DEF BaseInv, RankInv, WaitInv, Waiting, Blocked
<1>2. PICK N, S \in Nat :
        /\ N = NextOf(events[p]) /\ S = safe[p] /\ S < N
        /\ \A e \in events[p] : N <= e.ts
  BY <1>1, Types, NextOfIs
<1>3. N <= StopTime /\ StopTime \in Nat /\ Forever \in Nat /\ StopTime <= Forever
  BY <1>1, <1>2, InputAssumption DEF StopInv
<1>4. PICK q \in Neighbours(p) : guarantee[p][q] <= S
  BY <1>1, <1>2, <1>3 DEF SafeKnown
<1>5. PICK g \in Nat : g = guarantee[p][q] /\ g < N
  BY <1>1, <1>2, <1>4, Types
<1>6. /\ q \in Rank /\ p \in Neighbours(q) /\ Promised(q, p) = g
  BY <1>1, <1>5, NeighbourSymmetry DEF Promised, LastPromise
<1>7. /\ NullInv(q, p) /\ NullInTime(q, p) /\ StopKnown(q) /\ SafeInv(q)
      /\ events[q] \in SUBSET EventRec
  BY <1>1, <1>6, Types DEF BaseInv, NullsInv, LinksInv, WaitInv
<1>8. ASSUME phase[q] \in {"loop", "poll", "done"}
      PROVE  \E e \in events[q] : e.ts \in Nat /\ e.ts <= g
  <2>1. PICK e \in events[q] : NextNull(q, p, e)
    BY <1>7, <1>8 DEF NullInv, Sending
  <2> QED  BY <1>6, <1>7, <2>1 DEF NextNull, NullInTime, EventRec
<1>9. phase[q] # "done"
  <2> SUFFICES ASSUME phase[q] = "done" PROVE FALSE
    OBVIOUS
  <2>1. PICK e \in events[q] : e.ts \in Nat /\ e.ts <= g
    BY <1>8
  <2>2. currentTs[q] = StopTime
    BY <1>7, <2>1 DEF StopKnown
  <2>3. StopTime <= e.ts
    BY <1>7, <2>2 DEF SafeInv
  <2> QED  BY <1>2, <1>3, <1>5, <2>1, <2>3
<1>10. ASSUME phase[q] \in {"loop", "poll"} PROVE NextOf(events[q]) < N
  <2>1. PICK e \in events[q] : e.ts \in Nat /\ e.ts <= g
    BY <1>8, <1>10
  <2>2. NextOf(events[q]) \in Nat /\ NextOf(events[q]) <= e.ts
    BY <1>7, <2>1, NextOfIs
  <2> QED  BY <1>5, <2>1, <2>2
<1> QED  BY <1>2, <1>9, <1>10

\* While a rank has not finished, one of those that have not does not wait: the
\* one with the first event of all that wait would wait for one behind it.
SomebodyGoesOn ==
  (\E p \in Rank : phase[p] # "done") =>
    \E p \in Rank : phase[p] # "done" /\ ~Waiting(p)

LEMMA WaitingGoesOn ==
  ASSUME TypeInv, WaitsForOneBehind
  PROVE  SomebodyGoesOn
<1> SUFFICES ASSUME NEW r \in Rank, phase[r] # "done",
                    \A p \in Rank : phase[p] # "done" => Waiting(p)
             PROVE  FALSE
  BY DEF SomebodyGoesOn
<1> DEFINE Left == {p \in Rank : phase[p] # "done"}
           Nexts == {NextOf(events[p]) : p \in Left}
<1>1. \A p \in Left : /\ Waiting(p) /\ phase[p] = "loop"
                      /\ NextOf(events[p]) \in Nat
  <2> SUFFICES ASSUME NEW p \in Left
               PROVE  /\ Waiting(p) /\ phase[p] = "loop"
                      /\ NextOf(events[p]) \in Nat
    OBVIOUS
  <2>1. Waiting(p) /\ phase[p] = "loop" /\ events[p] # {}
    BY DEF Waiting, Blocked
  <2>2. events[p] \in SUBSET EventRec
    BY Types
  <2> QED  BY <2>1, <2>2, NextOfIs
<1>2. Nexts \in SUBSET Nat /\ Nexts # {}
  BY <1>1
<1>3. PICK n \in Nexts : \A x \in Nexts : n <= x
  <2> HIDE DEF Nexts
  <2> QED  BY <1>2, MinNat
<1>4. PICK p \in Left : n = NextOf(events[p])
  OBVIOUS
<1>5. PICK q \in Neighbours(p) :
        /\ phase[q] # "done"
        /\ phase[q] \in {"loop", "poll"} => NextOf(events[q]) < NextOf(events[p])
  BY <1>1 DEF WaitsForOneBehind
<1>6. q \in Left
  BY <1>5, NeighbourSymmetry
<1>7. NextOf(events[q]) \in Nat /\ NextOf(events[p]) \in Nat
      /\ NextOf(events[q]) < NextOf(events[p])
  BY <1>1, <1>5, <1>6
<1>8. n <= NextOf(events[q])
  BY <1>3, <1>6
<1> QED  BY <1>4, <1>7, <1>8

\* With one channel between two ranks, whatever the ranks, delays, transmission
\* times and calls: a packet is received no sooner than its sender guaranteed
\* before, no message takes back a guarantee its receiver has used, which is
\* what the assertions in SetGuaranteeTime, CalculateSafeTime and
\* ScheduleWithContext ask, and a rank that waits does so for a neighbour that
\* has not finished and whose next event is earlier.
THEOREM GuaranteesAreKept ==
  ASSUME OneChannel
  PROVE  Spec => []GuaranteesKept
<1>1. BaseInv /\ LinksInv /\ WaitInv => GuaranteesKept
  BY LinksInvKept, WaitInvKept DEF GuaranteesKept
<1> QED  BY <1>1, WaitInvAlways, PTL

\* The ranks never all wait for each other, not even for some that finished:
\* while one has not finished, one has something to do or a message to take.
\* Only null messages make this so, and that the interval between them is not
\* longer than the delay of the bundle.
THEOREM NoDeadlock ==
  ASSUME OneChannel
  PROVE  Spec => []SomebodyGoesOn
<1>1. BaseInv /\ LinksInv /\ WaitInv => SomebodyGoesOn
  BY WaitInvKept, WaitingGoesOn DEF BaseInv
<1> QED  BY <1>1, WaitInvAlways, PTL

-----------------------------------------------------------------------------
\* What a step of a rank may put on its way: null messages, and packets with
\* a number of their own, in the future of both ranks.
Posted(p) ==
  \A r \in Rank : \A s \in Neighbours(r) :
    \/ chan'[r][s] = chan[r][s]
    \/ /\ r = p
       /\ \E m \in Message :
            /\ chan'[r][s] = Append(chan[r][s], m)
            /\ \/ m.rx = 0
               \/ /\ m.n = uid[p] /\ uid[p] < uid'[p]
                  /\ currentTs[p] <= m.rx /\ currentTs[s] <= m.rx

LEMMA ApartKept ==
  ASSUME NEW s \in Seq(Message), NEW E \in SUBSET EventRec, NEW q,
         NEW u \in Nat, NEW v \in Nat, u <= v, Apart(s, E, q, u),
         NEW F \in SUBSET EventRec,
         \A f \in F : f.act.kind = "packet" => f \in E
  PROVE  Apart(s, F, q, v)
<1>1. \A i \in DOMAIN s : s[i].n \in Nat
  <2>1. \A i \in DOMAIN s : s[i] \in Message
    OBVIOUS
  <2> QED  BY <2>1 DEF Message
<1>2. \A e \in E : e.act.n \in Nat
  BY DEF EventRec, Acts
<1>3. \A i \in DOMAIN s : s[i].n < u => s[i].n < v
  BY <1>1
<1>4. \A e \in E : e.act.n < u => e.act.n < v
  BY <1>2
<1>5. ASSUME NEW f \in F, f.act.kind = "packet", f.act.from = q
      PROVE  /\ f.act = Reception(q, f.act.n) /\ f.act.n < v
             /\ \A i \in DOMAIN s : s[i].rx > 0 => s[i].n # f.act.n
             /\ \A g \in F : g.act = f.act => g = f
  <2>1. f \in E
    BY <1>5
  <2>2. \A g \in F : g.act = f.act => g \in E
    BY <1>5
  <2> QED  BY <1>4, <1>5, <2>1, <2>2 DEF Apart
<1> QED  BY <1>3, <1>5 DEF Apart

LEMMA ApartAppend ==
  ASSUME NEW s \in Seq(Message), NEW E \in SUBSET EventRec, NEW q,
         NEW u \in Nat, NEW v \in Nat, Apart(s, E, q, u), u <= v,
         NEW m \in Message, m.rx > 0 => m.n = u /\ u < v
  PROVE  Apart(Append(s, m), E, q, v)
<1>1. Apart(s, E, q, v)
  <2>1. \A f \in E : f.act.kind = "packet" => f \in E
    OBVIOUS
  <2> QED  BY <2>1, ApartKept
<1>2. PICK t \in Seq(Message) : t = Append(s, m)
  <2>1. Append(s, m) \in Seq(Message)
    OBVIOUS
  <2> QED  BY <2>1
<1>3. /\ DOMAIN t = 1..(Len(s) + 1) /\ DOMAIN s = 1..Len(s) /\ Len(s) \in Nat
      /\ \A i \in 1..Len(s) : t[i] = s[i]
      /\ t[Len(s) + 1] = m
  BY <1>2
<1>4. \A i \in DOMAIN s : s[i].n \in Nat
  <2>1. \A i \in DOMAIN s : s[i] \in Message
    OBVIOUS
  <2> QED  BY <2>1 DEF Message
<1>5. \A i \in DOMAIN t : i \in DOMAIN s \/ i = Len(s) + 1
  BY <1>3
<1>6. \A i \in DOMAIN s : t[i] = s[i]
  BY <1>3
<1>7. ASSUME m.rx > 0
      PROVE  /\ \A i \in DOMAIN s : s[i].rx > 0 => s[i].n # m.n
             /\ \A e \in E : e.act.kind = "packet" /\ e.act.from = q => m.n # e.act.n
             /\ m.n < v
  <2>1. \A e \in E : e.act.n \in Nat
    BY DEF EventRec, Acts
  <2>2. m.n = u /\ u < v
    BY <1>7
  <2> QED  BY <1>4, <2>1, <2>2 DEF Apart
<1>8. ASSUME NEW i \in DOMAIN t, t[i].rx > 0
      PROVE  /\ t[i].n < v
             /\ \A j \in DOMAIN t : t[j].rx > 0 /\ t[i].n = t[j].n => i = j
  BY <1>1, <1>3, <1>5, <1>6, <1>7, <1>8 DEF Apart
<1>9. ASSUME NEW e \in E, e.act.kind = "packet", e.act.from = q
      PROVE  /\ e.act = Reception(q, e.act.n) /\ e.act.n < v
             /\ \A i \in DOMAIN t : t[i].rx > 0 => t[i].n # e.act.n
             /\ \A f \in E : f.act = e.act => f = e
  BY <1>1, <1>3, <1>5, <1>6, <1>7, <1>9 DEF Apart
<1>10. Apart(t, E, q, v)
  BY <1>8, <1>9 DEF Apart
<1> QED  BY <1>2, <1>10

LEMMA ApartTail ==
  ASSUME NEW s \in Seq(Message), s # <<>>, NEW E \in SUBSET EventRec, NEW q \in Rank,
         NEW u \in Nat, Apart(s, E, q, u), NEW F \in SUBSET EventRec,
         \/ Head(s).rx = 0 /\ F = E
         \/ \E x : F = E \cup {x} /\ x.act = Reception(q, Head(s).n) /\ Head(s).rx > 0
  PROVE  Apart(Tail(s), F, q, u)
<1>1. PICK t, m : t = Tail(s) /\ m = Head(s)
  OBVIOUS
<1>2. /\ t \in Seq(Message) /\ m = s[1] /\ 1 \in DOMAIN s
      /\ Len(s) \in Nat /\ Len(t) = Len(s) - 1
      /\ DOMAIN t = 1..(Len(s) - 1) /\ DOMAIN s = 1..Len(s)
      /\ \A i \in 1..(Len(s) - 1) : t[i] = s[i + 1]
  BY <1>1
<1>3. \A i \in DOMAIN t : /\ i + 1 \in DOMAIN s /\ t[i] = s[i + 1] /\ i + 1 # 1
                          /\ i \in Nat
  BY <1>2
<1>4. \A i \in DOMAIN t : t[i].rx > 0 =>
        /\ t[i].n < u
        /\ \A j \in DOMAIN t : t[j].rx > 0 /\ t[i].n = t[j].n => i = j
  <2> SUFFICES ASSUME NEW i \in DOMAIN t, t[i].rx > 0
               PROVE  /\ t[i].n < u
                      /\ \A j \in DOMAIN t : t[j].rx > 0 /\ t[i].n = t[j].n => i = j
    OBVIOUS
  <2>1. t[i].n < u
    BY <1>3 DEF Apart
  <2>2. ASSUME NEW j \in DOMAIN t, t[j].rx > 0, t[i].n = t[j].n PROVE i = j
    <3>1. i + 1 = j + 1
      BY <1>3, <2>2 DEF Apart
    <3> QED  BY <1>3, <3>1
  <2> QED  BY <2>1, <2>2
<1>5. ASSUME NEW e \in E, e.act.kind = "packet", e.act.from = q
      PROVE  /\ e.act = Reception(q, e.act.n) /\ e.act.n < u
             /\ \A i \in DOMAIN t : t[i].rx > 0 => t[i].n # e.act.n
             /\ \A f \in E : f.act = e.act => f = e
             /\ m.rx > 0 => m.n # e.act.n
  BY <1>2, <1>3, <1>5 DEF Apart
<1>6. CASE m.rx = 0 /\ F = E
  BY <1>4, <1>5, <1>6 DEF Apart
<1>7. CASE \E x : F = E \cup {x} /\ x.act = Reception(q, m.n) /\ m.rx > 0
  <2>1. PICK x : F = E \cup {x} /\ x.act = Reception(q, m.n) /\ m.rx > 0
    BY <1>7
  <2>2. x.act.kind = "packet" /\ x.act.from = q /\ x.act.n = m.n
    BY <2>1 DEF Reception
  <2>3. m.n < u /\ \A i \in DOMAIN t : t[i].rx > 0 => t[i].n # m.n
    BY <1>2, <1>3, <2>1 DEF Apart
  <2>4. \A e \in E : e.act # x.act
    BY <1>5, <2>1, <2>2
  <2>5. ASSUME NEW e \in F, e.act.kind = "packet", e.act.from = q
        PROVE  /\ e.act = Reception(q, e.act.n) /\ e.act.n < u
               /\ \A i \in DOMAIN t : t[i].rx > 0 => t[i].n # e.act.n
               /\ \A f \in F : f.act = e.act => f = e
    <3>1. CASE e = x
      BY <2>1, <2>2, <2>3, <2>4, <3>1
    <3>2. CASE e \in E
      <4>1. \A f \in F : f.act = e.act => f \in E
        BY <2>1, <2>4, <3>2
      <4> QED  BY <1>5, <2>5, <3>2, <4>1
    <3> QED  BY <2>1, <2>5, <3>1, <3>2
  <2>6. \A e \in F : e.act.kind = "packet" /\ e.act.from = q =>
          /\ e.act = Reception(q, e.act.n) /\ e.act.n < u
          /\ \A i \in DOMAIN t : t[i].rx > 0 => t[i].n # e.act.n
          /\ \A f \in F : f.act = e.act => f = e
    BY <2>5
  <2>7. Apart(t, F, q, u)
    BY <1>4, <2>6 DEF Apart
  <2> QED  BY <1>1, <2>7
<1> QED  BY <1>1, <1>6, <1>7

\* Steps in which a rank receives nothing.
LEMMA PacketsKept ==
  ASSUME TypeInv, PacketInv, NEW p \in Rank, Frame(p), Posted(p), uid[p] <= uid'[p],
         \A f \in events'[p] : f.act.kind = "packet" => f \in events[p]
  PROVE  PacketInv'
<1>1. \A r \in Rank : Neighbours(r)' = Neighbours(r)
  BY SameChannels DEF Frame
<1>2. ASSUME NEW r \in Rank, NEW s \in Neighbours(r)
      PROVE  Apart(chan'[s][r], events'[r], s, uid'[s])
  <2>1. /\ s \in Rank /\ r \in Neighbours(s) /\ chan[s][r] \in Seq(Message)
        /\ events[r] \in SUBSET EventRec
    BY Types
  <2>2. uid[s] \in Nat /\ uid'[s] \in Nat /\ events'[r] \in SUBSET EventRec
    BY <2>1 DEF Frame, TypeInv
  <2>3. PICK t \in Seq(Message), E, F \in SUBSET EventRec, u, v \in Nat :
          /\ t = chan[s][r] /\ E = events[r] /\ F = events'[r]
          /\ u = uid[s] /\ v = uid'[s]
    BY <2>1, <2>2
  <2>4. Apart(t, E, s, u)
    BY <2>3 DEF PacketInv
  <2>5. u <= v
    <3>1. CASE s = p
      BY <2>3, <3>1
    <3>2. CASE s # p
      BY <2>1, <2>3, <3>2 DEF Frame, Same
    <3> QED  BY <3>1, <3>2
  <2>6. \A f \in F : f.act.kind = "packet" => f \in E
    <3>1. CASE r = p
      BY <2>3, <3>1
    <3>2. CASE r # p
      BY <2>3, <3>2 DEF Frame, Same
    <3> QED  BY <3>1, <3>2
  <2>7. Apart(t, F, s, u)
    BY <2>4, <2>6, ApartKept
  <2>8. CASE chan'[s][r] = chan[s][r]
    BY <2>3, <2>4, <2>5, <2>6, <2>8, ApartKept
  <2>9. CASE s = p /\ \E m \in Message :
               /\ chan'[s][r] = Append(chan[s][r], m)
               /\ m.rx = 0 \/ (m.n = uid[p] /\ uid[p] < uid'[p])
    <3>1. PICK m \in Message :
               /\ chan'[s][r] = Append(t, m)
               /\ m.rx = 0 \/ (m.n = u /\ u < v)
      BY <2>3, <2>9
    <3>2. m.rx > 0 => m.n = u /\ u < v
      BY <3>1
    <3>3. Apart(Append(t, m), F, s, v)
      BY <2>5, <2>7, <3>2, ApartAppend
    <3> QED  BY <2>3, <3>1, <3>3
  <2> QED  BY <2>1, <2>8, <2>9 DEF Posted
<1> QED  BY <1>1, <1>2 DEF PacketInv

LEMMA ReceivePackets ==
  ASSUME TypeInv, PacketInv, NEW p \in Rank, PollReceive(p) \/ BlockingReceive(p)
  PROVE  PacketInv'
<1>1. PICK q \in Neighbours(p) :
           /\ Frame(p) /\ Taken(q, p)
           /\ Head(chan[q][p]) \in Message
           /\ \/ /\ Head(chan[q][p]).rx > 0
                 /\ Scheduled(p, q) \in EventRec
                 /\ events'[p] = events[p] \cup {Scheduled(p, q)}
                 /\ uid'[p] = uid[p] + 1
              \/ /\ Head(chan[q][p]).rx = 0
                 /\ UNCHANGED <<events, uid>>
  BY ReceiveEffect
<1>2. \A r \in Rank : Neighbours(r)' = Neighbours(r)
  BY <1>1, SameChannels DEF Frame
<1>3. ASSUME NEW r \in Rank, NEW s \in Neighbours(r)
      PROVE  Apart(chan'[s][r], events'[r], s, uid'[s])
  <2>1. /\ s \in Rank /\ r \in Neighbours(s) /\ chan[s][r] \in Seq(Message)
        /\ events[r] \in SUBSET EventRec /\ s # r
    BY Types
  <2>2. uid[s] \in Nat /\ uid'[s] \in Nat /\ events'[r] \in SUBSET EventRec
    BY <1>1, <2>1 DEF TypeInv, Frame
  <2>3. PICK t \in Seq(Message), E, F \in SUBSET EventRec, u, v \in Nat :
          /\ t = chan[s][r] /\ E = events[r] /\ F = events'[r]
          /\ u = uid[s] /\ v = uid'[s]
    BY <2>1, <2>2
  <2>4. Apart(t, E, s, u)
    BY <2>3 DEF PacketInv
  <2>5. u <= v
    <3>1. CASE s = p
      BY <1>1, <2>3, <3>1
    <3>2. CASE s # p
      BY <1>1, <2>1, <2>3, <3>2 DEF Frame, Same
    <3> QED  BY <3>1, <3>2
  <2>6. CASE r = p /\ s = q
    <3>1. t # <<>> /\ chan'[s][r] = Tail(t) /\ u = v
      BY <1>1, <2>1, <2>3, <2>6 DEF Taken, Frame, Same
    <3>2. Scheduled(p, q).act = Reception(q, Head(t).n)
      BY <2>3, <2>6 DEF Scheduled, Event
    <3>3. \/ Head(t).rx = 0 /\ F = E
          \/ \E x : F = E \cup {x} /\ x.act = Reception(s, Head(t).n) /\ Head(t).rx > 0
      BY <1>1, <2>3, <2>6, <3>2
    <3>4. Apart(Tail(t), F, s, u)
      BY <2>1, <2>4, <3>1, <3>3, ApartTail
    <3> QED  BY <2>3, <3>1, <3>4
  <2>7. CASE ~(r = p /\ s = q)
    <3>1. chan'[s][r] = t
      BY <1>1, <2>1, <2>3, <2>7 DEF Taken
    <3>2. \A f \in F \ E : f.act.kind = "packet" => f.act.from # s
      <4>1. CASE r = p
        <5>1. Scheduled(p, q).act.from = q
          BY DEF Scheduled, Event, Reception
        <5> QED  BY <1>1, <2>3, <2>7, <4>1, <5>1
      <4>2. CASE r # p
        BY <1>1, <2>3, <4>2 DEF Frame, Same
      <4> QED  BY <4>1, <4>2
    <3>3. Apart(t, E, s, v)
      BY <2>4, <2>5, ApartKept
    <3>4. Apart(t, F, s, v)
      <4>1. ASSUME NEW f \in F, f.act.kind = "packet", f.act.from = s
            PROVE  f \in E /\ \A g \in F : g.act = f.act => g \in E
        BY <3>2, <4>1
      <4> QED  BY <3>3, <4>1 DEF Apart
    <3> QED  BY <2>3, <3>1, <3>4
  <2> QED  BY <2>6, <2>7
<1> QED  BY <1>2, <1>3 DEF PacketInv

LEMMA PacketInvInit == Init => PacketInv
<1> SUFFICES ASSUME Init, NEW p \in Rank, NEW q \in Neighbours(p)
             PROVE  Apart(chan[q][p], events[p], q, uid[q])
  BY DEF PacketInv
<1>1. q \in Rank /\ p \in Neighbours(q)
  BY NeighbourSymmetry
<1>2. PICK s, E : s = chan[q][p] /\ E = events[p]
  OBVIOUS
<1>3. s = <<>> /\ E = {Event(StopTime, FirstUid, StopCall(p))}
  BY <1>1, <1>2 DEF Init
<1>4. DOMAIN s = {}
  BY <1>3
<1>5. \A e \in E : e.act.kind # "packet"
  BY <1>3 DEF Event, StopCall
<1> QED  BY <1>2, <1>4, <1>5 DEF Apart

-----------------------------------------------------------------------------
AllInv == BaseInv /\ LinksInv /\ PacketInv

\* An activity is pending as an event, or on its way in a packet.
Owns(queue, a) == \E e \in queue : a = [act |-> e.act, due |-> e.ts]
Comes(s, q, a) == \E i \in DOMAIN s :
  s[i].rx > 0 /\ a = [act |-> Reception(q, s[i].n), due |-> s[i].rx]

LEMMA PendingIs ==
  ASSUME NEW p \in Rank
  PROVE  \A a : a \in Pending(p) <=>
           (Owns(events[p], a) \/ \E q \in Neighbours(p) : Comes(chan[q][p], q, a))
<1> DEFINE C(q) == {[act |-> Reception(q, chan[q][p][i].n), due |-> chan[q][p][i].rx] :
                      i \in {k \in DOMAIN chan[q][p] : chan[q][p][k].rx > 0}}
           E == {[act |-> e.act, due |-> e.ts] : e \in events[p]}
<1>1. Pending(p) = E \cup UNION {C(q) : q \in Neighbours(p)}
  BY DEF Pending
<1>2. \A a : a \in E <=> Owns(events[p], a)
  BY DEF Owns
<1>3. \A q, a : a \in C(q) <=> Comes(chan[q][p], q, a)
  BY DEF Comes
<1> HIDE DEF C, E
<1>4. \A a : a \in UNION {C(q) : q \in Neighbours(p)} <=> \E q \in Neighbours(p) : a \in C(q)
  OBVIOUS
<1> QED  BY <1>1, <1>2, <1>3, <1>4

LEMMA PendingThen ==
  ASSUME channels' = channels, NEW p \in Rank
  PROVE  \A a : a \in Pending(p)' <=>
           (Owns(events'[p], a) \/ \E q \in Neighbours(p) : Comes(chan'[q][p], q, a))
<1> DEFINE C(q) == {[act |-> Reception(q, chan'[q][p][i].n), due |-> chan'[q][p][i].rx] :
                      i \in {k \in DOMAIN chan'[q][p] : chan'[q][p][k].rx > 0}}
           E == {[act |-> e.act, due |-> e.ts] : e \in events'[p]}
<1>1. Pending(p)' = E \cup UNION {C(q) : q \in Neighbours(p)}
  BY SameChannels DEF Pending
<1>2. \A a : a \in E <=> Owns(events'[p], a)
  BY DEF Owns
<1>3. \A q, a : a \in C(q) <=> Comes(chan'[q][p], q, a)
  BY DEF Comes
<1> HIDE DEF C, E
<1>4. \A a : a \in UNION {C(q) : q \in Neighbours(p)} <=> \E q \in Neighbours(p) : a \in C(q)
  OBVIOUS
<1> QED  BY <1>1, <1>2, <1>3, <1>4

LEMMA ComesAppend ==
  ASSUME NEW s \in Seq(Message), NEW m \in Message, NEW q, NEW a
  PROVE  Comes(Append(s, m), q, a) <=>
           (Comes(s, q, a)
            \/ (m.rx > 0 /\ a = [act |-> Reception(q, m.n), due |-> m.rx]))
<1>1. PICK t : t = Append(s, m)
  OBVIOUS
<1>2. /\ DOMAIN t = 1..(Len(s) + 1) /\ DOMAIN s = 1..Len(s) /\ Len(s) \in Nat
      /\ \A i \in 1..Len(s) : t[i] = s[i]
      /\ t[Len(s) + 1] = m
  BY <1>1
<1>3. /\ \A i \in DOMAIN t : i \in DOMAIN s \/ i = Len(s) + 1
      /\ \A i \in DOMAIN s : i \in DOMAIN t /\ t[i] = s[i]
      /\ Len(s) + 1 \in DOMAIN t
  BY <1>2
<1>4. Comes(t, q, a) <=>
           (Comes(s, q, a)
            \/ (m.rx > 0 /\ a = [act |-> Reception(q, m.n), due |-> m.rx]))
  BY <1>2, <1>3 DEF Comes
<1> QED  BY <1>1, <1>4

LEMMA ComesTail ==
  ASSUME NEW s \in Seq(Message), s # <<>>, NEW q, NEW a
  PROVE  Comes(s, q, a) <=>
           (Comes(Tail(s), q, a)
            \/ (Head(s).rx > 0 /\ a = [act |-> Reception(q, Head(s).n), due |-> Head(s).rx]))
<1>1. PICK t, m : t = Tail(s) /\ m = Head(s)
  OBVIOUS
<1>2. /\ m = s[1] /\ Len(s) \in Nat /\ Len(s) >= 1
      /\ DOMAIN t = 1..(Len(s) - 1) /\ DOMAIN s = 1..Len(s)
      /\ \A i \in 1..(Len(s) - 1) : t[i] = s[i + 1]
  BY <1>1
<1>3. /\ \A i \in DOMAIN t : i + 1 \in DOMAIN s /\ t[i] = s[i + 1]
      /\ \A i \in DOMAIN s : i = 1 \/ \E j \in DOMAIN t : t[j] = s[i]
      /\ 1 \in DOMAIN s
  <2>1. \A i \in DOMAIN t : i + 1 \in DOMAIN s /\ t[i] = s[i + 1]
    BY <1>2
  <2>2. ASSUME NEW i \in DOMAIN s, i # 1 PROVE \E j \in DOMAIN t : t[j] = s[i]
    <3>1. i - 1 \in DOMAIN t /\ (i - 1) + 1 = i
      BY <1>2, <2>2
    <3>2. t[i - 1] = s[(i - 1) + 1]
      BY <1>2, <3>1
    <3> QED  BY <3>1, <3>2
  <2> QED  BY <1>2, <2>1, <2>2
<1>4. Comes(s, q, a) <=>
           (Comes(t, q, a)
            \/ (m.rx > 0 /\ a = [act |-> Reception(q, m.n), due |-> m.rx]))
  <2>1. Comes(t, q, a) => Comes(s, q, a)
    BY <1>3 DEF Comes
  <2>2. m.rx > 0 /\ a = [act |-> Reception(q, m.n), due |-> m.rx] => Comes(s, q, a)
    BY <1>2, <1>3 DEF Comes
  <2>3. ASSUME Comes(s, q, a), ~Comes(t, q, a)
        PROVE  m.rx > 0 /\ a = [act |-> Reception(q, m.n), due |-> m.rx]
    <3>1. PICK i \in DOMAIN s :
            s[i].rx > 0 /\ a = [act |-> Reception(q, s[i].n), due |-> s[i].rx]
      BY <2>3 DEF Comes
    <3>2. i = 1
      BY <1>3, <2>3, <3>1 DEF Comes
    <3> QED  BY <1>2, <3>1, <3>2
  <2> QED  BY <2>1, <2>2, <2>3
<1> QED  BY <1>1, <1>4

\* A step that schedules and sends, but executes nothing.
Issued(p) ==
  /\ Frame(p) /\ currentTs' = currentTs /\ uid[p] <= uid'[p] /\ Posted(p)
  /\ \A f \in events'[p] :
       \/ \E e \in events[p] : f.ts = e.ts /\ f.act = e.act
       \/ currentTs[p] <= f.ts /\ f.act.kind # "packet" /\ uid[p] <= f.act.n
  /\ \A e \in events[p] : \E f \in events'[p] : f.ts = e.ts /\ f.act = e.act
  /\ \A f \in events'[p] : f.act.kind = "packet" => f \in events[p]

\* What such a step creates for a rank.
Created(p, r, a) ==
  \/ /\ r = p /\ currentTs[p] <= a.due
     /\ a.act.kind # "packet" /\ uid[p] <= a.act.n
  \/ /\ p \in Neighbours(r) /\ a.act = Reception(p, uid[p])
     /\ currentTs[p] <= a.due /\ currentTs[r] <= a.due

LEMMA IssuedCreates ==
  ASSUME TypeInv, NEW p \in Rank, Issued(p), NEW r \in Rank
  PROVE  /\ Pending(r) \subseteq Pending(r)'
         /\ \A a \in Pending(r)' \ Pending(r) : Created(p, r, a)
<1>1. /\ Frame(p) /\ Posted(p) /\ channels' = channels
  BY DEF Issued, Frame
<1>2. ASSUME NEW q \in Neighbours(r), NEW a
      PROVE  /\ Comes(chan[q][r], q, a) => Comes(chan'[q][r], q, a)
             /\ Comes(chan'[q][r], q, a) /\ ~Comes(chan[q][r], q, a)
                  => Created(p, r, a)
  <2>1. q \in Rank /\ r \in Neighbours(q) /\ chan[q][r] \in Seq(Message)
    BY Types
  <2>2. CASE chan'[q][r] = chan[q][r]
    BY <2>2
  <2>3. CASE /\ q = p
             /\ \E m \in Message :
                  /\ chan'[q][r] = Append(chan[q][r], m)
                  /\ \/ m.rx = 0
                     \/ /\ m.n = uid[p] /\ uid[p] < uid'[p]
                        /\ currentTs[p] <= m.rx /\ currentTs[r] <= m.rx
    <3>1. PICK m \in Message :
            /\ chan'[q][r] = Append(chan[q][r], m)
            /\ m.rx > 0 => m.n = uid[p] /\ currentTs[p] <= m.rx /\ currentTs[r] <= m.rx
      BY <2>3
    <3>2. Comes(chan'[q][r], q, a) <=>
           (Comes(chan[q][r], q, a)
            \/ (m.rx > 0 /\ a = [act |-> Reception(q, m.n), due |-> m.rx]))
      BY <2>1, <3>1, ComesAppend
    <3> QED  BY <2>3, <3>1, <3>2 DEF Created
  <2> QED  BY <1>1, <2>1, <2>2, <2>3 DEF Posted
<1>3. ASSUME NEW a
      PROVE  /\ Owns(events[r], a) => Owns(events'[r], a)
             /\ Owns(events'[r], a) /\ ~Owns(events[r], a) => Created(p, r, a)
  <2>1. CASE r # p
    BY <1>1, <2>1 DEF Frame, Same
  <2>2. CASE r = p
    <3>1. Owns(events[r], a) => Owns(events'[r], a)
      BY <2>2 DEF Issued, Owns
    <3>2. ASSUME Owns(events'[r], a), ~Owns(events[r], a) PROVE Created(p, r, a)
      <4>1. PICK f \in events'[r] : a = [act |-> f.act, due |-> f.ts]
        BY <3>2 DEF Owns
      <4>2. ~\E e \in events[p] : f.ts = e.ts /\ f.act = e.act
        BY <2>2, <3>2, <4>1 DEF Owns
      <4>3. currentTs[p] <= f.ts /\ f.act.kind # "packet" /\ uid[p] <= f.act.n
        BY <2>2, <4>2 DEF Issued
      <4> QED  BY <2>2, <4>1, <4>3 DEF Created
    <3> QED  BY <3>1, <3>2
  <2> QED  BY <2>1, <2>2
<1>4. \A a : a \in Pending(r) <=>
        (Owns(events[r], a) \/ \E q \in Neighbours(r) : Comes(chan[q][r], q, a))
  BY PendingIs
<1>5. \A a : a \in Pending(r)' <=>
        (Owns(events'[r], a) \/ \E q \in Neighbours(r) : Comes(chan'[q][r], q, a))
  BY <1>1, PendingThen
<1>6. \A a \in Pending(r) : a \in Pending(r)'
  BY <1>2, <1>3, <1>4, <1>5
<1>7. \A a \in Pending(r)' \ Pending(r) : Created(p, r, a)
  BY <1>2, <1>3, <1>4, <1>5
<1> QED  BY <1>6, <1>7

\* It is nothing that was pending there.
LEMMA CreatedIsNew ==
  ASSUME TypeInv, RankInv, PacketInv, NEW p \in Rank, NEW r \in Rank, NEW a,
         Created(p, r, a), NEW b \in Pending(r)
  PROVE  b.act # a.act
<1>1. \/ \E e \in events[r] : b.act = e.act
      \/ \E q \in Neighbours(r) : \E i \in DOMAIN chan[q][r] :
           chan[q][r][i].rx > 0 /\ b.act = Reception(q, chan[q][r][i].n)
  BY PendingIs DEF Owns, Comes
<1>2. \A q, n : Reception(q, n).kind = "packet" /\ Reception(q, n).from = q
                /\ Reception(q, n).n = n
  BY DEF Reception
<1>3. CASE /\ r = p /\ a.act.kind # "packet" /\ uid[p] <= a.act.n
  <2>1. \A e \in events[p] : e.act.kind # "packet" => e.act.n < uid[p]
    <3> SUFFICES ASSUME NEW e \in events[p], e.act.kind # "packet"
                 PROVE  e.act.n < uid[p]
      OBVIOUS
    <3>1. e.act.n = e.uid /\ e.uid \in FirstUid..(uid[p] - 1)
      BY DEF RankInv, QueueInv
    <3>2. uid[p] \in Nat /\ FirstUid \in Nat
      BY Types DEF FirstUid
    <3> QED  BY <3>1, <3>2
  <2>2. \A e \in events[p] : e.act.n \in Nat /\ uid[p] \in Nat
    <3>1. \A e \in events[p] : e.act \in Acts /\ uid[p] \in Nat
      BY Types
    <3> QED  BY <3>1 DEF Acts
  <2>3. \A e \in events[p] : e.act # a.act
    <3> SUFFICES ASSUME NEW e \in events[p], e.act = a.act PROVE FALSE
      OBVIOUS
    <3>1. e.act.n < uid[p] /\ uid[p] <= e.act.n
      BY <1>3, <2>1
    <3> QED  BY <2>2, <3>1
  <2> QED  BY <1>1, <1>2, <1>3, <2>3
<1>4. CASE p \in Neighbours(r) /\ a.act = Reception(p, uid[p])
  <2>1. Apart(chan[p][r], events[r], p, uid[p]) /\ uid[p] \in Nat
    BY <1>4, Types DEF PacketInv
  <2>2. \A e \in events[r] : e.act # a.act
    BY <1>2, <1>4, <2>1 DEF Apart
  <2>3. \A i \in DOMAIN chan[p][r] : chan[p][r][i].rx > 0 => chan[p][r][i].n # uid[p]
    BY <2>1 DEF Apart
  <2>4. \A q, n : Reception(q, n) = Reception(p, uid[p]) => q = p /\ n = uid[p]
    BY <1>2
  <2> QED  BY <1>1, <1>4, <2>2, <2>3, <2>4
<1> QED  BY <1>3, <1>4 DEF Created

LEMMA IssuedImplements ==
  ASSUME AllInv, NEW p \in Rank, Issued(p)
  PROVE  [Par!ParNext]_(Par!parVars)
<1>1. TypeInv /\ RankInv /\ PacketInv /\ currentTs' = currentTs
  BY DEF AllInv, BaseInv, Issued
<1>2. \A r \in Rank : /\ Pending(r) \subseteq Pending(r)'
                      /\ \A a \in Pending(r)' \ Pending(r) : Created(p, r, a)
  BY <1>1, IssuedCreates
<1>3. \A r \in Rank : \A a \in Pending(r)' \ Pending(r) :
        /\ a.due >= currentTs[p] /\ a.due >= currentTs[r]
        /\ \A b \in Pending(r) : b.act # a.act
  BY <1>1, <1>2, CreatedIsNew DEF Created
<1>4. CASE \E r \in Rank : Pending(r)' \ Pending(r) # {}
  <2>1. Par!Issue
    BY <1>1, <1>2, <1>3, <1>4 DEF Par!Issue, Par!New
  <2> QED  BY <2>1 DEF Par!ParNext
<1>5. CASE \A r \in Rank : Pending(r)' \ Pending(r) = {}
  <2>1. \A r \in Rank : Pending(r)' = Pending(r)
    BY <1>2, <1>5
  <2>2. [r \in Rank |-> Pending(r)]' = [r \in Rank |-> Pending(r)]
    BY <2>1
  <2> QED  BY <1>1, <2>2 DEF Par!parVars
<1> QED  BY <1>4, <1>5

LEMMA ScheduleIssues ==
  ASSUME BaseInv, NEW p \in Rank, NEW d \in Delay, Schedule(p, d)
  PROVE  Issued(p)
<1>1. PICK x : x = Event(currentTs[p] + d, uid[p], Call(p, uid[p]))
  OBVIOUS
<1>2. /\ Frame(p) /\ events'[p] = events[p] \cup {x} /\ uid'[p] = uid[p] + 1
      /\ UNCHANGED <<currentTs, chan>>
  BY <1>1, ScheduleEffect DEF BaseInv
<1>3. currentTs[p] \in Nat /\ uid[p] \in Nat /\ d \in Nat
  BY Types, InputAssumption DEF BaseInv
<1>4. currentTs[p] <= x.ts /\ x.act.kind = "call" /\ x.act.n = uid[p]
      /\ uid[p] <= x.act.n /\ uid[p] <= uid'[p]
  <2>1. x.ts = currentTs[p] + d /\ x.act.kind = "call" /\ x.act.n = uid[p]
    BY <1>1 DEF Event, Call
  <2> QED  BY <1>2, <1>3, <2>1
<1>5. Posted(p)
  BY <1>2 DEF Posted
<1> QED  BY <1>2, <1>4, <1>5 DEF Issued

LEMMA RunIssues ==
  ASSUME BaseInv, NEW p \in Rank, Run(p)
  PROVE  Issued(p)
<1>1. /\ Frame(p)
      /\ events'[p] = events[p] \cup {FirstNull(p, q) : q \in Neighbours(p)}
      /\ uid'[p] = uid[p] + Cardinality(Neighbours(p))
      /\ \A q \in Neighbours(p) :
           /\ FirstMessage(p, q) \in Message
           /\ chan'[p][q] = Append(chan[p][q], FirstMessage(p, q))
      /\ \A r \in Rank : r # p => chan'[r] = chan[r]
      /\ UNCHANGED <<currentTs, safe, guarantee, busy, running>>
  BY RunEffect DEF BaseInv
<1>2. TypeInv
  BY DEF BaseInv
<1>3. Posted(p)
  <2>1. \A q \in Neighbours(p) : FirstMessage(p, q).rx = 0
    BY DEF FirstMessage
  <2> QED  BY <1>1, <2>1 DEF Posted
<1>4. ASSUME NEW q \in Neighbours(p)
      PROVE  /\ currentTs[p] <= FirstNull(p, q).ts
             /\ FirstNull(p, q).act.kind = "null"
             /\ uid[p] <= FirstNull(p, q).act.n
  <2>1. currentTs[p] \in Nat /\ NullInterval(p, q) \in Nat
    BY <1>2, Types
  <2>2. uid[p] <= Turn(p, q)
    BY <1>2, TurnIs
  <2>3. FirstNull(p, q).ts = currentTs[p] + NullInterval(p, q)
        /\ FirstNull(p, q).act.kind = "null" /\ FirstNull(p, q).act.n = Turn(p, q)
    BY DEF FirstNull, Event, Null
  <2> QED  BY <2>1, <2>2, <2>3
<1>5. uid[p] <= uid'[p]
  <2>1. IsFiniteSet(Neighbours(p)) /\ uid[p] \in Nat
    BY <1>2, NeighboursFinite, Types
  <2>2. Cardinality(Neighbours(p)) \in Nat
    BY <2>1, FS_CardinalityType
  <2> QED  BY <1>1, <2>1, <2>2
<1>6. \A f \in events'[p] : f \in events[p] \/ \E q \in Neighbours(p) : f = FirstNull(p, q)
  BY <1>1
<1>7. \A f \in events'[p] :
       \/ f \in events[p]
       \/ currentTs[p] <= f.ts /\ f.act.kind = "null" /\ uid[p] <= f.act.n
  BY <1>4, <1>6
<1>8. events[p] \subseteq events'[p]
  BY <1>1
<1> QED  BY <1>1, <1>3, <1>5, <1>7, <1>8 DEF Issued

LEMMA NullIssues ==
  ASSUME BaseInv, NEW p \in Rank, NullMessageEventHandler(p)
  PROVE  Issued(p)
<1>1. TypeInv /\ QueueInv(p)
  BY DEF BaseInv, RankInv
<1>2. PICK q \in Neighbours(p) :
           /\ Frame(p)
           /\ Sends(p, q, NullMessage(p, q))
           /\ events'[p] = events[p] \cup {LaterNull(p, q, uid[p])}
           /\ uid'[p] = uid[p] + 1
           /\ UNCHANGED <<currentTs, stop, safe, guarantee, busy>>
  BY <1>1, NullEffect
<1>3. PICK y : y = LaterNull(p, q, uid[p])
  OBVIOUS
<1>4. PICK now, I, u \in Nat :
        now = currentTs[p] /\ I = NullInterval(p, q) /\ u = uid[p]
  BY <1>1, Types
<1>5. y.ts = now + I /\ y.act.kind = "null" /\ y.act.n = u
  BY <1>1, <1>3, <1>4, LaterNullIs
<1>6. currentTs[p] <= y.ts /\ uid[p] <= y.act.n /\ uid[p] <= uid'[p]
  BY <1>2, <1>4, <1>5
<1>7. Posted(p)
  <2>1. NullMessage(p, q).rx = 0
    BY DEF NullMessage
  <2> QED  BY <1>2, <2>1 DEF Posted, Sends
<1> QED  BY <1>2, <1>3, <1>5, <1>6, <1>7 DEF Issued

\* A packet arrives in the future of its receiver: the guarantees say so.
LEMMA TransmitIssues ==
  ASSUME OneChannel, BaseInv, LinksInv, GuaranteesKept', NEW p \in Rank,
         NEW c \in channels, NEW t \in TxTimes, Transmit(p, c, t)
  PROVE  Issued(p)
<1>1. TypeInv /\ QueueInv(p)
  BY DEF BaseInv, RankInv
<1>2. PICK q \in Neighbours(p) : Transmitted(p, q, c, t)
  BY TransmitIs
<1>3. PICK x, y, K, m : /\ x = EndOf(p, c, t) /\ y = LaterNull(p, q, uid[p] + 1)
                        /\ K = PutOff(p, q) /\ m = PacketOf(p, q, c, t)
  OBVIOUS
<1>4. /\ Frame(p) /\ currentTs' = currentTs /\ uid'[p] = uid[p] + 2
      /\ t \in Nat /\ c.delay \in Nat
      /\ events'[p] = K \cup {x, y} /\ Sends(p, q, m)
      /\ \A f \in K : \E e \in events[p] :
           /\ f.ts = e.ts /\ f.uid = e.uid /\ f.act = e.act
      /\ \A e \in events[p] : \E f \in K :
           /\ f.ts = e.ts /\ f.uid = e.uid /\ f.act = e.act
           /\ ~IsNull(e, q) => f = e
      /\ \A f, g \in K : f.uid = g.uid => f = g
  BY <1>2, <1>3 DEF Transmitted
<1>5. PICK now, I, u \in Nat :
        now = currentTs[p] /\ I = NullInterval(p, q) /\ u = uid[p]
  BY <1>1, Types
<1>6. /\ x.ts = now + t /\ x.act.kind = "complete" /\ x.act.n = u
      /\ y.ts = now + I /\ y.act.kind = "null" /\ y.act.n = u + 1
  BY <1>1, <1>3, <1>5, EndOfIs, LaterNullIs
<1>7. /\ currentTs[p] <= x.ts /\ uid[p] <= x.act.n
      /\ currentTs[p] <= y.ts /\ uid[p] <= y.act.n
      /\ uid[p] < uid'[p] /\ uid[p] <= uid'[p]
  BY <1>4, <1>5, <1>6
<1>8. \A f \in K : f.act.kind = "packet" => f \in events[p]
  <2> SUFFICES ASSUME NEW f \in K, f.act.kind = "packet" PROVE f \in events[p]
    OBVIOUS
  <2>1. PICK e \in events[p] : f.uid = e.uid /\ f.act = e.act
    BY <1>4
  <2>2. ~IsNull(e, q)
    BY <2>1 DEF IsNull
  <2>3. e \in K
    BY <1>4, <2>2
  <2> QED  BY <1>4, <2>1, <2>3
<1>9. m.n = uid[p] /\ currentTs[p] <= m.rx /\ m \in Message
  <2>1. m.n = uid[p] /\ m.rx = now + t + c.delay
    BY <1>3, <1>5 DEF PacketOf
  <2>2. m \in Message
    BY <1>4 DEF Sends
  <2> QED  BY <1>4, <1>5, <2>1, <2>2
<1>10. m.rx = 0 \/ currentTs[q] <= m.rx
  <2>1. q \in Rank /\ p \in Neighbours(q) /\ chan[p][q] \in Seq(Message)
    BY <1>1, Types
  <2>2. p \in Neighbours(q)'
    BY <1>4, <2>1, SameChannels DEF Frame
  <2>3. PICK s, old : s = chan'[p][q] /\ old = chan[p][q]
    OBVIOUS
  <2>4. s = Append(old, m) /\ old \in Seq(Message) /\ m \in Message
    BY <1>4, <1>9, <2>1, <2>3 DEF Sends
  <2>5. Len(s) \in DOMAIN s /\ s[Len(s)] = m
    BY <2>4
  <2>6. \A i \in DOMAIN s : s[i].rx > 0 => s[i].rx >= currentTs[q]
    BY <1>4, <2>1, <2>2, <2>3 DEF GuaranteesKept, GuaranteeInTime
  <2>7. m.rx \in Nat
    BY <1>9 DEF Message
  <2> QED  BY <2>5, <2>6, <2>7
<1>11. Posted(p)
  BY <1>4, <1>7, <1>9, <1>10 DEF Posted, Sends
<1>12. \A f \in events'[p] :
       \/ \E e \in events[p] : f.ts = e.ts /\ f.act = e.act
       \/ currentTs[p] <= f.ts /\ f.act.kind # "packet" /\ uid[p] <= f.act.n
  BY <1>4, <1>6, <1>7
<1>13. \A e \in events[p] : \E f \in events'[p] : f.ts = e.ts /\ f.act = e.act
  BY <1>4
<1>14. \A f \in events'[p] : f.act.kind = "packet" => f \in events[p]
  BY <1>4, <1>6, <1>8
<1> QED  BY <1>4, <1>7, <1>11, <1>12, <1>13, <1>14 DEF Issued

\* What is next in the queue, and safe, is due before all that is on its way.
LEMMA ProcessPerforms ==
  ASSUME AllInv, NEW p \in Rank, ProcessOneEvent(p)
  PROVE  Par!Perform
<1>1. /\ TypeInv /\ BaseInv /\ LinksInv /\ QueueInv(p) /\ SafeInv(p)
      /\ \A q \in Neighbours(p) : LinkInv(p, q)
      /\ \A q \in Neighbours(p) : Apart(chan[q][p], events[p], q, uid[q])
  BY DEF AllInv, BaseInv, RankInv, LinksInv, PacketInv
<1>2. PICK e \in events[p] :
           /\ Frame(p) /\ IsFirst(e, events[p]) /\ e.ts <= safe[p]
           /\ currentTs'[p] = e.ts
           /\ events'[p] = events[p] \ {e}
           /\ chan' = chan
  BY <1>1, ProcessEffect
<1>3. PICK a : a = [act |-> e.act, due |-> e.ts]
  OBVIOUS
<1>4. \A b : b \in Pending(p) <=>
           (Owns(events[p], b) \/ \E q \in Neighbours(p) : Comes(chan[q][p], q, b))
  BY PendingIs
<1>5. \A b : b \in Pending(p)' <=>
           (Owns(events'[p], b) \/ \E q \in Neighbours(p) : Comes(chan[q][p], q, b))
  BY <1>2, PendingThen DEF Frame
<1>6. a \in Pending(p) /\ a.due = e.ts /\ a.act = e.act
  BY <1>3, <1>4 DEF Owns
<1>7. ASSUME NEW f \in events[p], f.act = e.act PROVE f = e
  <2>1. CASE e.act.kind = "packet"
    <3>1. e.act.from \in Neighbours(p)
      BY <1>1, <2>1 DEF QueueInv
    <3> QED  BY <1>1, <1>7, <2>1, <3>1 DEF Apart
  <2>2. CASE e.act.kind # "packet"
    <3>1. e.act.n = e.uid /\ f.act.n = f.uid
      BY <1>1, <1>7, <2>2 DEF QueueInv
    <3> QED  BY <1>1, <1>7, <3>1 DEF QueueInv
  <2> QED  BY <2>1, <2>2
<1>8. \A q \in Neighbours(p) : ~Comes(chan[q][p], q, a)
  <2> SUFFICES ASSUME NEW q \in Neighbours(p), NEW i \in DOMAIN chan[q][p],
                      chan[q][p][i].rx > 0, e.act = Reception(q, chan[q][p][i].n)
               PROVE  FALSE
    BY <1>6 DEF Comes
  <2>1. e.act.kind = "packet" /\ e.act.from = q /\ e.act.n = chan[q][p][i].n
    BY DEF Reception
  <2> QED  BY <1>1, <2>1 DEF Apart
<1>9. \A b : b \in Pending(p)' <=> b \in Pending(p) \ {a}
  <2>1. \A b : Owns(events'[p], b) <=> Owns(events[p], b) /\ b # a
    <3>1. ASSUME NEW f \in events[p], f # e PROVE [act |-> f.act, due |-> f.ts] # a
      BY <1>6, <1>7, <3>1
    <3> QED  BY <1>2, <1>3, <3>1 DEF Owns
  <2> QED  BY <1>4, <1>5, <1>8, <2>1
<1>10. \A r \in Rank : r # p => Pending(r)' = Pending(r)
  <2> SUFFICES ASSUME NEW r \in Rank, r # p PROVE Pending(r)' = Pending(r)
    OBVIOUS
  <2>1. events'[r] = events[r] /\ channels' = channels
    BY <1>2 DEF Frame, Same
  <2>2. \A b : b \in Pending(r)' <=> b \in Pending(r)
    <3>1. \A b : b \in Pending(r) <=>
           (Owns(events[r], b) \/ \E q \in Neighbours(r) : Comes(chan[q][r], q, b))
      BY PendingIs
    <3>2. \A b : b \in Pending(r)' <=>
           (Owns(events'[r], b) \/ \E q \in Neighbours(r) : Comes(chan'[q][r], q, b))
      BY <2>1, PendingThen
    <3> QED  BY <1>2, <2>1, <3>1, <3>2
  <2> QED  BY <2>2
<1>11. ASSUME NEW b \in Pending(p) PROVE a.due <= b.due
  <2>1. CASE Owns(events[p], b)
    <3>1. PICK f \in events[p] : b.due = f.ts
      BY <2>1 DEF Owns
    <3>2. e.ts <= f.ts
      <4>1. e.ts \in Nat /\ f.ts \in Nat
        BY <1>1, Types
      <4> QED  BY <1>2, <4>1 DEF IsFirst, Before
    <3> QED  BY <1>6, <3>1, <3>2
  <2>2. CASE \E q \in Neighbours(p) : Comes(chan[q][p], q, b)
    <3>6. PICK q \in Neighbours(p) : Comes(chan[q][p], q, b)
      BY <2>2
    <3>1. PICK i \in DOMAIN chan[q][p] :
            chan[q][p][i].rx > 0 /\ b.due = chan[q][p][i].rx
      BY <3>6 DEF Comes
    <3>2. chan[q][p][i] \in Message /\ guarantee[p][q] <= chan[q][p][i].rx
      BY <1>1, <3>1, UnderWay
    <3>3. safe[p] <= guarantee[p][q] /\ e.ts <= safe[p]
      BY <1>1, <1>2 DEF LinkInv
    <3>4. chan[q][p][i].rx \in Nat /\ guarantee[p][q] \in Nat /\ safe[p] \in Nat
          /\ e.ts \in Nat
      BY <1>1, <3>2, Types DEF Message
    <3>5. e.ts <= chan[q][p][i].rx
      BY <3>2, <3>3, <3>4
    <3> QED  BY <1>6, <3>1, <3>5
  <2> QED  BY <1>4, <2>1, <2>2
<1>12. a.due >= currentTs[p]
  <2>1. currentTs[p] <= e.ts /\ currentTs[p] \in Nat /\ e.ts \in Nat
    BY <1>1, Types DEF SafeInv
  <2> QED  BY <1>6, <2>1
<1>13. currentTs' = [currentTs EXCEPT ![p] = a.due]
  <2>1. currentTs \in [Rank -> Nat] /\ currentTs' \in [Rank -> Nat]
    BY <1>1, <1>2 DEF Frame, TypeInv
  <2>2. currentTs'[p] = a.due /\ \A r \in Rank : r # p => currentTs'[r] = currentTs[r]
    BY <1>2, <1>6 DEF Frame, Same
  <2> QED  BY <2>1, <2>2
<1>14. [r \in Rank |-> Pending(r)]' = [[r \in Rank |-> Pending(r)] EXCEPT ![p] = @ \ {a}]
  <2>1. Pending(p)' = Pending(p) \ {a}
    BY <1>9
  <2>2. PICK f, g : /\ f = [r \in Rank |-> Pending(r)]
                    /\ g = [r \in Rank |-> Pending(r)]'
    OBVIOUS
  <2>3. /\ f = [r \in Rank |-> f[r]] /\ g = [r \in Rank |-> g[r]]
        /\ \A r \in Rank : f[r] = Pending(r) /\ g[r] = Pending(r)'
    BY <2>2
  <2>4. g[p] = f[p] \ {a} /\ \A r \in Rank : r # p => g[r] = f[r]
    BY <1>10, <2>1, <2>3
  <2>5. g = [f EXCEPT ![p] = @ \ {a}]
    BY <2>3, <2>4
  <2> QED  BY <2>2, <2>5
<1> QED  BY <1>6, <1>11, <1>12, <1>13, <1>14 DEF Par!Perform

\* A packet that arrives was pending before.
LEMMA ReceiveStutters ==
  ASSUME TypeInv, NEW p \in Rank, PollReceive(p) \/ BlockingReceive(p)
  PROVE  UNCHANGED Par!parVars
<1>1. PICK q \in Neighbours(p) :
           /\ Frame(p) /\ Taken(q, p)
           /\ Head(chan[q][p]) \in Message
           /\ \/ /\ Head(chan[q][p]).rx > 0
                 /\ Scheduled(p, q) \in EventRec
                 /\ events'[p] = events[p] \cup {Scheduled(p, q)}
                 /\ uid'[p] = uid[p] + 1
              \/ /\ Head(chan[q][p]).rx = 0
                 /\ UNCHANGED <<events, uid>>
           /\ UNCHANGED <<currentTs, stop, nullEvent, busy, phase, running>>
  BY ReceiveEffect
<1>2. channels' = channels /\ \A r \in Rank : r # p => events'[r] = events[r]
  BY <1>1 DEF Frame, Same
<1>3. ASSUME NEW r \in Rank PROVE Pending(r)' = Pending(r)
  <2>1. \A a : a \in Pending(r) <=>
           (Owns(events[r], a) \/ \E s \in Neighbours(r) : Comes(chan[s][r], s, a))
    BY PendingIs
  <2>2. \A a : a \in Pending(r)' <=>
           (Owns(events'[r], a) \/ \E s \in Neighbours(r) : Comes(chan'[s][r], s, a))
    BY <1>2, PendingThen
  <2>3. \A s \in Neighbours(r) : s \in Rank /\ r \in Neighbours(s)
    BY NeighbourSymmetry
  <2>4. CASE r # p
    <3>1. \A s \in Neighbours(r) : chan'[s][r] = chan[s][r]
      BY <1>1, <2>3, <2>4 DEF Taken
    <3>2. events'[r] = events[r]
      BY <1>2, <2>4
    <3> QED  BY <2>1, <2>2, <3>1, <3>2
  <2>5. CASE r = p
    <3>1. PICK m, s : m = Head(s) /\ s = chan[q][p]
      OBVIOUS
    <3>2. s \in Seq(Message) /\ s # <<>> /\ chan'[q][p] = Tail(s) /\ m \in Message
      BY <1>1, <3>1, Types DEF Taken
    <3>3. \A a : Comes(s, q, a) <=>
             (Comes(Tail(s), q, a)
              \/ (m.rx > 0 /\ a = [act |-> Reception(q, m.n), due |-> m.rx]))
      BY <3>1, <3>2, ComesTail
    <3>4. \A a : Owns(events'[p], a) <=>
             (Owns(events[p], a)
              \/ (m.rx > 0 /\ a = [act |-> Reception(q, m.n), due |-> m.rx]))
      <4>1. PICK x : x = Scheduled(p, q)
        OBVIOUS
      <4>2. x.act = Reception(q, m.n) /\ x.ts = m.rx
        BY <3>1, <4>1 DEF Scheduled, Event
      <4>3. m.rx \in Nat
        BY <3>2 DEF Message
      <4>4. CASE m.rx > 0
        <5>1. events'[p] = events[p] \cup {x}
          BY <1>1, <3>1, <4>1, <4>4
        <5> QED  BY <4>2, <4>4, <5>1 DEF Owns
      <4>5. CASE m.rx = 0
        <5>1. events'[p] = events[p] /\ ~(m.rx > 0)
          BY <1>1, <3>1, <4>5
        <5> QED  BY <5>1 DEF Owns
      <4> QED  BY <4>3, <4>4, <4>5
    <3>5. \A o \in Neighbours(p) : o # q => chan'[o][p] = chan[o][p]
      BY <1>1, <2>3, <2>5 DEF Taken
    <3>6. \A a : (\E o \in Neighbours(p) : Comes(chan'[o][p], o, a)) <=>
             (Comes(Tail(s), q, a)
              \/ \E o \in Neighbours(p) : o # q /\ Comes(chan[o][p], o, a))
      BY <3>2, <3>5
    <3>7. \A a : (\E o \in Neighbours(p) : Comes(chan[o][p], o, a)) <=>
             (Comes(s, q, a)
              \/ \E o \in Neighbours(p) : o # q /\ Comes(chan[o][p], o, a))
      BY <3>1
    <3>8. \A a : a \in Pending(p)' <=> a \in Pending(p)
      BY <2>1, <2>2, <2>5, <3>3, <3>4, <3>6, <3>7
    <3> QED  BY <2>5, <3>8
  <2> QED  BY <2>4, <2>5
<1>4. [r \in Rank |-> Pending(r)]' = [r \in Rank |-> Pending(r)]
  BY <1>3
<1> QED  BY <1>1, <1>4 DEF Par!parVars

LEMMA SamePending ==
  ASSUME UNCHANGED <<channels, events, currentTs, chan>>
  PROVE  UNCHANGED Par!parVars
<1>1. \A r \in Rank : Pending(r)' = Pending(r)
  BY SameChannels DEF Pending
<1> QED  BY <1>1 DEF Par!parVars

LEMMA PacketInvNext ==
  ASSUME OneChannel, AllInv, GuaranteesKept', [Next]_vars
  PROVE  PacketInv'
<1>1. BaseInv /\ LinksInv /\ PacketInv /\ TypeInv
  BY DEF AllInv, BaseInv
<1>2. ASSUME NEW p \in Rank, Issued(p) PROVE PacketInv'
  BY <1>1, <1>2, PacketsKept DEF Issued
<1>3. ASSUME NEW p \in Rank, NEW d \in Delay, Schedule(p, d) PROVE PacketInv'
  BY <1>1, <1>2, <1>3, ScheduleIssues
<1>4. ASSUME NEW p \in Rank, NEW c \in channels, NEW t \in TxTimes, Transmit(p, c, t)
      PROVE  PacketInv'
  BY <1>1, <1>2, <1>4, TransmitIssues
<1>5. ASSUME NEW p \in Rank, Run(p) PROVE PacketInv'
  BY <1>1, <1>2, <1>5, RunIssues
<1>6. ASSUME NEW p \in Rank, ProcessOneEvent(p) PROVE PacketInv'
  <2>1. PICK e \in events[p] :
           /\ Frame(p) /\ events'[p] = events[p] \ {e} /\ UNCHANGED <<uid, chan>>
    BY <1>1, <1>6, ProcessEffect
  <2>2. Posted(p) /\ uid[p] <= uid'[p]
    <3>1. uid[p] \in Nat
      BY <1>1, Types
    <3> QED  BY <2>1, <3>1 DEF Posted
  <2> QED  BY <1>1, <2>1, <2>2, PacketsKept
<1>7. ASSUME NEW p \in Rank, NullMessageEventHandler(p) PROVE PacketInv'
  BY <1>1, <1>2, <1>7, NullIssues
<1>8. ASSUME NEW p \in Rank, PollReceive(p) \/ BlockingReceive(p) PROVE PacketInv'
  BY <1>1, <1>8, ReceivePackets
<1>9. ASSUME NEW p \in Rank,
             \/ Stop(p) \/ EventReturns(p) \/ PollEnds(p) \/ NobodyToWaitFor(p)
             \/ RunReturns(p)
      PROVE  PacketInv'
  <2>1. Frame(p) /\ UNCHANGED <<events, uid, chan>>
    BY <1>1, <1>9, QuietEffect
  <2>2. Posted(p) /\ uid[p] <= uid'[p]
    <3>1. uid[p] \in Nat
      BY <1>1, Types
    <3> QED  BY <2>1, <3>1 DEF Posted
  <2> QED  BY <1>1, <2>1, <2>2, PacketsKept
<1>10. CASE Next
  BY <1>3, <1>4, <1>5, <1>6, <1>7, <1>8, <1>9, <1>10, Steps
<1>11. CASE UNCHANGED vars
  <2>1. UNCHANGED <<channels, events, uid, chan>>
    BY <1>11 DEF vars, localVars
  <2> QED  BY <1>1, <2>1, SameChannels DEF PacketInv
<1> QED  BY <1>10, <1>11

LEMMA StepImplements ==
  ASSUME OneChannel, AllInv, GuaranteesKept', [Next]_vars
  PROVE  [Par!ParNext]_(Par!parVars)
<1>1. BaseInv /\ LinksInv /\ PacketInv /\ TypeInv
  BY DEF AllInv, BaseInv
<1>3. ASSUME NEW p \in Rank, NEW d \in Delay, Schedule(p, d)
      PROVE  [Par!ParNext]_(Par!parVars)
  BY <1>1, <1>3, ScheduleIssues, IssuedImplements
<1>4. ASSUME NEW p \in Rank, NEW c \in channels, NEW t \in TxTimes, Transmit(p, c, t)
      PROVE  [Par!ParNext]_(Par!parVars)
  BY <1>1, <1>4, TransmitIssues, IssuedImplements
<1>5. ASSUME NEW p \in Rank, Run(p) PROVE [Par!ParNext]_(Par!parVars)
  BY <1>1, <1>5, RunIssues, IssuedImplements
<1>6. ASSUME NEW p \in Rank, ProcessOneEvent(p) PROVE [Par!ParNext]_(Par!parVars)
  BY <1>6, ProcessPerforms DEF Par!ParNext
<1>7. ASSUME NEW p \in Rank, NullMessageEventHandler(p)
      PROVE  [Par!ParNext]_(Par!parVars)
  BY <1>1, <1>7, NullIssues, IssuedImplements
<1>8. ASSUME NEW p \in Rank, PollReceive(p) \/ BlockingReceive(p)
      PROVE  UNCHANGED Par!parVars
  BY <1>1, <1>8, ReceiveStutters
<1>9. ASSUME NEW p \in Rank,
             \/ Stop(p) \/ EventReturns(p) \/ PollEnds(p) \/ NobodyToWaitFor(p)
             \/ RunReturns(p)
      PROVE  UNCHANGED Par!parVars
  <2>1. UNCHANGED <<channels, events, currentTs, chan>>
    BY <1>1, <1>9, QuietEffect DEF Frame
  <2> QED  BY <2>1, SamePending
<1>10. CASE Next
  BY <1>3, <1>4, <1>5, <1>6, <1>7, <1>8, <1>9, <1>10, Steps
<1>11. CASE UNCHANGED vars
  <2>1. UNCHANGED <<channels, events, currentTs, chan>>
    BY <1>11 DEF vars, localVars
  <2> QED  BY <2>1, SamePending
<1> QED  BY <1>10, <1>11

\* With one channel between two ranks, the ranks together are one parallel
\* simulation: what one sends another arrives in the receiver's future, no rank
\* executes an event while an earlier one is pending for it or on its way, and
\* nothing gets lost or is executed twice.
THEOREM Implementation ==
  ASSUME OneChannel
  PROVE  Spec => ImplementsParallel
<1>1. Init => AllInv
  BY BaseInvInit, LinksInvInit, PacketInvInit DEF AllInv
<1>2. AllInv /\ [Next]_vars => (BaseInv /\ LinksInv)'
  <2> SUFFICES ASSUME AllInv, [Next]_vars PROVE BaseInv' /\ LinksInv'
    OBVIOUS
  <2>1. BaseInv'
    BY BaseInvNext DEF AllInv
  <2>2. LinksInv'
    BY LinksInvNext DEF AllInv
  <2> QED  BY <2>1, <2>2
<1>3. AllInv /\ [Next]_vars /\ GuaranteesKept' => PacketInv'
  BY PacketInvNext
<1>4. AllInv /\ [Next]_vars /\ GuaranteesKept' => [Par!ParNext]_(Par!parVars)
  BY StepImplements
<1>5. AllInv <=> BaseInv /\ LinksInv /\ PacketInv
  BY DEF AllInv
<1> QED
  BY <1>1, <1>2, <1>3, <1>4, <1>5, GuaranteesAreKept, PTL
     DEF Spec, ImplementsParallel
=============================================================================
