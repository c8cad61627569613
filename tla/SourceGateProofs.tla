--------------------------- MODULE SourceGateProofs ---------------------------
(***************************************************************************)
(* Proofs about SourceGate for every number of connections, slots, offers  *)
(* and packets: no slot is lost or handed out twice, the gate is never     *)
(* held by a connection that is gone, and only a first block or packet     *)
(* takes it from a playing source.                                         *)
(***************************************************************************)
EXTENDS SourceGate, FiniteSetTheorems, TLAPS

Phases == Holding \cup {"new", "refused", "gone"}
LoopPhases == {"none", "poll", "got", "stats", "play", "ended"}

\* The phases that own a slot, and those of a loop that works on a packet.
Taken == Holding \cup {"refused"}
InFlight == {"got", "stats", "play"}

Connections(f, K) == {c \in Conns : f[c] \in K}
Working(f) == {l \in Loops : f[l] \in InFlight}

LEMMA LoopsFinite == /\ IsFiniteSet(Loops) /\ IsFiniteSet(Conns)
                     /\ Cardinality(Conns) \in Nat
                     /\ MAX_CONNECTIONS \in Nat /\ MaxOffers \in Nat /\ MaxPackets \in Nat
<1>1. IsFiniteSet(1..MaxOffers)
  BY ConstantsOK, FS_Interval
<1>2. IsFiniteSet(Loops)
  BY <1>1, ConstantsOK, FS_Product DEF Loops
<1>3. QED BY <1>2, ConstantsOK, FS_CardinalityType

LEMMA Owned == ASSUME NEW l \in Loops PROVE Owner(l) \in Conns /\ l = <<Owner(l), l[2]>>
                                            /\ l[2] \in 1..MaxOffers
BY DEF Loops, Owner

(***************************************************************************)
(* Counting                                                                *)
(***************************************************************************)

\* How the number of connections in some phases changes when one of them moves on.
LEMMA ConnectionMoves ==
  ASSUME ws \in [Conns -> Phases], NEW c \in Conns, NEW v \in Phases, NEW K, WsGoto(c, v)
  PROVE  /\ Cardinality(Connections(ws, K)) \in Nat /\ Cardinality(Connections(ws', K)) \in Nat
         /\ Cardinality(Connections(ws', K)) <= Cardinality(Conns)
         /\ (ws[c] \in K <=> v \in K) =>
              Cardinality(Connections(ws', K)) = Cardinality(Connections(ws, K))
         /\ ws[c] \notin K /\ v \in K =>
              Cardinality(Connections(ws', K)) = Cardinality(Connections(ws, K)) + 1
         /\ ws[c] \in K /\ v \notin K =>
              Cardinality(Connections(ws', K)) = Cardinality(Connections(ws, K)) - 1
<1>. /\ ws'[c] = v
     /\ \A d \in Conns : d # c => ws'[d] = ws[d]
  BY DEF WsGoto
<1>1. ASSUME NEW h
      PROVE  /\ IsFiniteSet(Connections(h, K)) /\ Cardinality(Connections(h, K)) \in Nat
             /\ Cardinality(Connections(h, K)) <= Cardinality(Conns)
  <2>1. Connections(h, K) \in SUBSET Conns
    BY DEF Connections
  <2>2. QED BY <2>1, LoopsFinite, FS_Subset, FS_CardinalityType
<1>2. ASSUME ws[c] \in K <=> v \in K PROVE Connections(ws', K) = Connections(ws, K)
  BY <1>2 DEF Connections
<1>3. ASSUME ws[c] \notin K, v \in K
      PROVE  Cardinality(Connections(ws', K)) = Cardinality(Connections(ws, K)) + 1
  <2>1. Connections(ws', K) = Connections(ws, K) \cup {c} /\ c \notin Connections(ws, K)
    BY <1>3 DEF Connections
  <2>2. QED BY <2>1, <1>1, FS_AddElement
<1>4. ASSUME ws[c] \in K, v \notin K
      PROVE  Cardinality(Connections(ws', K)) = Cardinality(Connections(ws, K)) - 1
  <2>1. Connections(ws', K) = Connections(ws, K) \ {c} /\ c \in Connections(ws, K)
    BY <1>4 DEF Connections
  <2>2. QED BY <2>1, <1>1, FS_RemoveElement
<1>5. QED BY <1>1, <1>2, <1>3, <1>4

\* The same for the loops that work on a packet.
LEMMA LoopMoves ==
  ASSUME loop \in [Loops -> LoopPhases], NEW l \in Loops, NEW v \in LoopPhases, LoopGoto(l, v)
  PROVE  /\ Cardinality(Working(loop)) \in Nat /\ Cardinality(Working(loop')) \in Nat
         /\ (loop[l] \in InFlight <=> v \in InFlight) =>
              Cardinality(Working(loop')) = Cardinality(Working(loop))
         /\ loop[l] \notin InFlight /\ v \in InFlight =>
              Cardinality(Working(loop')) = Cardinality(Working(loop)) + 1
         /\ loop[l] \in InFlight /\ v \notin InFlight =>
              Cardinality(Working(loop')) = Cardinality(Working(loop)) - 1
<1>. /\ loop'[l] = v
     /\ \A m \in Loops : m # l => loop'[m] = loop[m]
  BY DEF LoopGoto
<1>1. ASSUME NEW h
      PROVE  IsFiniteSet(Working(h)) /\ Cardinality(Working(h)) \in Nat
  <2>1. Working(h) \in SUBSET Loops
    BY DEF Working
  <2>2. QED BY <2>1, LoopsFinite, FS_Subset, FS_CardinalityType
<1>2. ASSUME loop[l] \in InFlight <=> v \in InFlight PROVE Working(loop') = Working(loop)
  BY <1>2 DEF Working
<1>3. ASSUME loop[l] \notin InFlight, v \in InFlight
      PROVE  Cardinality(Working(loop')) = Cardinality(Working(loop)) + 1
  <2>1. Working(loop') = Working(loop) \cup {l} /\ l \notin Working(loop)
    BY <1>3 DEF Working
  <2>2. QED BY <2>1, <1>1, FS_AddElement
<1>4. ASSUME loop[l] \in InFlight, v \notin InFlight
      PROVE  Cardinality(Working(loop')) = Cardinality(Working(loop)) - 1
  <2>1. Working(loop') = Working(loop) \ {l} /\ l \in Working(loop)
    BY <1>4 DEF Working
  <2>2. QED BY <2>1, <1>1, FS_RemoveElement
<1>5. QED BY <1>1, <1>2, <1>3, <1>4

\* Every accepted offer of a connection has its own loop.
LEMMA OffersFit ==
  ASSUME NEW c \in Conns, offers[c] \in Nat, offers[c] <= MaxOffers,
         \A i \in 1..offers[c] : loop[<<c, i>>] # "none",
         Cardinality({l \in Loops : loop[l] # "none"}) < MaxOffers
  PROVE  offers[c] < MaxOffers
<1>. DEFINE U == {l \in Loops : loop[l] # "none"}
            n == offers[c]
            f == [i \in 1..n |-> <<c, i>>]
<1>1. IsFiniteSet(U) /\ Cardinality(U) \in Nat
  <2>1. U \in SUBSET Loops OBVIOUS
  <2>2. QED BY <2>1, LoopsFinite, FS_Subset, FS_CardinalityType
<1>2. \A i \in 1..n : <<c, i>> \in U
  BY LoopsFinite DEF Loops
<1>3. f \in Injection(1..n, U)
  <2>1. f \in [1..n -> U]
    BY <1>2
  <2>2. \A a, b \in 1..n : f[a] = f[b] => a = b
    OBVIOUS
  <2>3. QED BY <2>1, <2>2 DEF Injection, IsInjective
<1>4. Cardinality(1..n) <= Cardinality(U)
  BY <1>1, <1>3, FS_Injection
<1>5. Cardinality(1..n) = n
  BY FS_Interval
<1>6. QED BY <1>1, <1>4, <1>5, LoopsFinite

(***************************************************************************)
(* The inductive invariant                                                 *)
(***************************************************************************)

\* SlotsHold without the types.
SlotsCounted ==
  /\ slots = Cardinality(Connections(ws, Taken))
  /\ Cardinality(Connections(ws, Holding)) <= MAX_CONNECTIONS

\* The loops of a connection are those of its accepted offers; one that answers an offer has room
\* for another loop.
OffersLooped ==
  \A c \in Conns :
    /\ \A i \in 1..offers[c] : loop[<<c, i>>] # "none"
    /\ At(c, "offer") => offers[c] < MaxOffers

\* A packet that is being worked on has not been counted yet.
PacketsCounted == packets + Cardinality(Working(loop)) <= rtp

IInv == TypeOK /\ SlotsCounted /\ OffersLooped /\ PacketsCounted

LEMMA InitInv == Init => IInv
<1> SUFFICES ASSUME Init PROVE IInv
  OBVIOUS
<1>1. TypeOK
  <2>1. 0 \in 0..Cardinality(Conns) /\ 0 \in 0..MaxOffers /\ 0 \in 0..MaxPackets
    BY LoopsFinite
  <2>2. QED BY <2>1 DEF Init, TypeOK
<1>2. SlotsCounted
  <2>1. Connections(ws, Taken) = {} /\ Connections(ws, Holding) = {}
    BY DEF Init, Connections, Taken, Holding, Live, Ending
  <2>2. QED BY <2>1, FS_EmptySet, LoopsFinite DEF Init, SlotsCounted
<1>3. OffersLooped
  BY DEF Init, OffersLooped, At
<1>4. PacketsCounted
  <2>1. Working(loop) = {}
    BY DEF Init, Working, InFlight
  <2>2. QED BY <2>1, FS_EmptySet DEF Init, PacketsCounted
<1>5. QED BY <1>1, <1>2, <1>3, <1>4 DEF IInv

LEMMA Typed ==
  ASSUME TypeOK
  PROVE  /\ ws \in [Conns -> Phases] /\ loop \in [Loops -> LoopPhases]
         /\ slots \in Nat /\ packets \in Nat /\ rtp \in Nat
         /\ offers \in [Conns -> 0..MaxOffers]
BY LoopsFinite DEF TypeOK, Phases, LoopPhases

(***************************************************************************)
(* Steps that leave a part of the invariant alone                          *)
(***************************************************************************)

\* A connection that keeps its slot.
LEMMA SlotsKept ==
  ASSUME IInv, UNCHANGED slots, NEW c \in Conns, NEW v \in Holding, ws[c] \in Holding, WsGoto(c, v)
  PROVE  SlotsCounted' /\ ws' \in [Conns -> Phases]
<1>1. v \in Phases /\ v \in Taken /\ ws[c] \in Taken
  BY DEF Phases, Taken
<1>2. TypeOK /\ ws \in [Conns -> Phases]
  BY Typed DEF IInv
<1>3. Cardinality(Connections(ws', Taken)) = Cardinality(Connections(ws, Taken))
  BY <1>1, <1>2, ConnectionMoves
<1>4. Cardinality(Connections(ws', Holding)) = Cardinality(Connections(ws, Holding))
  BY <1>1, <1>2, ConnectionMoves
<1>5. ws' \in [Conns -> Phases]
  BY <1>1, <1>2 DEF WsGoto
<1>6. QED BY <1>3, <1>4, <1>5 DEF IInv, SlotsCounted

LEMMA OffersKept ==
  ASSUME IInv, UNCHANGED offers,
         \A l \in Loops : loop'[l] = "none" => loop[l] = "none",
         \A c \in Conns : ws'[c] = "offer" => ws[c] = "offer"
  PROVE  OffersLooped'
<1> SUFFICES ASSUME NEW c \in Conns
             PROVE  /\ \A i \in 1..offers[c] : loop'[<<c, i>>] # "none"
                    /\ ws'[c] = "offer" => offers[c] < MaxOffers
  BY DEF OffersLooped, At
<1>1. offers[c] \in 0..MaxOffers
  BY Typed DEF IInv
<1>2. \A i \in 1..offers[c] : <<c, i>> \in Loops
  BY <1>1, LoopsFinite DEF Loops
<1>3. QED BY <1>2 DEF IInv, OffersLooped, At

\* A step of a connection that is neither a new offer nor the start of a loop.
LEMMA QuietKept ==
  ASSUME IInv, UNCHANGED <<offers, loop, packets, rtp>>,
         NEW c \in Conns, NEW v, v # "offer", WsGoto(c, v)
  PROVE  OffersLooped' /\ PacketsCounted'
<1>1. ws \in [Conns -> Phases]
  BY Typed DEF IInv
<1>2. \A d \in Conns : ws'[d] = "offer" => ws[d] = "offer"
  BY <1>1 DEF WsGoto
<1>3. QED BY <1>2, OffersKept DEF IInv, PacketsCounted, Working

\* A step in which no connection goes anywhere.
LEMMA WsSame ==
  ASSUME IInv, UNCHANGED <<ws, slots, offers>>,
         \A l \in Loops : loop'[l] = "none" => loop[l] = "none"
  PROVE  SlotsCounted' /\ OffersLooped'
<1>1. OffersLooped'
  BY OffersKept
<1>2. SlotsCounted'
  BY DEF IInv, SlotsCounted, Connections
<1>3. QED BY <1>1, <1>2

(***************************************************************************)
(* Slots                                                                   *)
(***************************************************************************)
LEMMA ReserveInv == ASSUME IInv, NEW c \in Conns, Reserve(c) PROVE IInv'
<1>. DEFINE v == IF SlotFree THEN "upgrade" ELSE "refused"
<1>1. /\ ws \in [Conns -> Phases] /\ WsGoto(c, v) /\ ws[c] = "new" /\ v \in Phases
      /\ v # "offer"
  BY Typed DEF IInv, Reserve, At, Phases, Holding
<1>2. /\ ws[c] \notin Taken /\ v \in Taken /\ ws[c] \notin Holding
      /\ (v \in Holding <=> SlotFree)
  BY <1>1 DEF Taken, Holding, Live, Ending
<1>3. /\ Cardinality(Connections(ws', Taken)) = slots + 1 /\ slots' = slots + 1
      /\ Cardinality(Connections(ws', Taken)) <= Cardinality(Conns)
  BY <1>1, <1>2, ConnectionMoves DEF IInv, SlotsCounted, Reserve
<1>4. Cardinality(Connections(ws', Holding)) <= MAX_CONNECTIONS
  <2>1. CASE SlotFree
    <3>1. /\ Cardinality(Connections(ws', Holding)) = Cardinality(Connections(ws, Holding)) + 1
          /\ Cardinality(Connections(ws, Holding)) \in Nat
      BY <1>1, <1>2, <2>1, ConnectionMoves
    <3>2. Cardinality(Connections(ws, Holding)) <= slots
      <4>1. /\ Connections(ws, Holding) \in SUBSET Connections(ws, Taken)
            /\ Connections(ws, Taken) \in SUBSET Conns
        BY DEF Connections, Taken
      <4>2. IsFiniteSet(Connections(ws, Taken))
        BY <4>1, LoopsFinite, FS_Subset
      <4>3. QED BY <4>1, <4>2, FS_Subset DEF IInv, SlotsCounted
    <3>3. slots < MAX_CONNECTIONS /\ slots \in Nat /\ MAX_CONNECTIONS \in Nat
      BY <2>1, Typed, LoopsFinite DEF SlotFree, IInv
    <3>4. QED BY <3>1, <3>2, <3>3
  <2>2. CASE ~SlotFree
    <3>1. Cardinality(Connections(ws', Holding)) = Cardinality(Connections(ws, Holding))
      BY <1>1, <1>2, <2>2, ConnectionMoves
    <3>2. QED BY <3>1 DEF IInv, SlotsCounted
  <2>3. QED BY <2>1, <2>2
<1>5. TypeOK'
  <2>1. slots' \in 0..Cardinality(Conns)
    BY <1>3, Typed, LoopsFinite DEF IInv
  <2>2. ws' \in [Conns -> Phases]
    BY <1>1 DEF WsGoto
  <2>3. QED BY <2>1, <2>2 DEF IInv, TypeOK, Reserve, loops, stats, Phases
<1>6. OffersLooped' /\ PacketsCounted'
  BY <1>1, QuietKept DEF Reserve, loops, stats
<1>7. QED BY <1>3, <1>4, <1>5, <1>6 DEF IInv, SlotsCounted

\* The slot of a refused, failed or finished connection comes back exactly once.
LEMMA GiveSlotBackInv ==
  ASSUME IInv, NEW c \in Conns, ws[c] \in Taken, GiveSlotBack(c) PROVE IInv'
<1>1. /\ ws \in [Conns -> Phases] /\ WsGoto(c, "gone") /\ "gone" \in Phases
      /\ "gone" \notin Taken /\ "gone" \notin Holding
  BY Typed DEF IInv, GiveSlotBack, Phases, Taken, Holding, Live, Ending
<1>2. /\ Cardinality(Connections(ws', Taken)) = slots - 1 /\ slots' = slots - 1
      /\ Cardinality(Connections(ws', Taken)) \in Nat
      /\ Cardinality(Connections(ws', Taken)) <= Cardinality(Conns)
  BY <1>1, ConnectionMoves DEF IInv, SlotsCounted, GiveSlotBack
<1>3. Cardinality(Connections(ws', Holding)) <= MAX_CONNECTIONS
  <2>1. /\ Cardinality(Connections(ws', Holding)) \in Nat
        /\ Cardinality(Connections(ws, Holding)) \in Nat
        /\ \/ Cardinality(Connections(ws', Holding)) = Cardinality(Connections(ws, Holding))
           \/ Cardinality(Connections(ws', Holding)) = Cardinality(Connections(ws, Holding)) - 1
    BY <1>1, ConnectionMoves
  <2>2. QED BY <2>1, LoopsFinite DEF IInv, SlotsCounted
<1>4. TypeOK'
  <2>1. slots' \in 0..Cardinality(Conns)
    BY <1>2, LoopsFinite
  <2>2. ws' \in [Conns -> Phases] /\ 0 \in 0..MaxPackets
    BY <1>1, LoopsFinite DEF WsGoto
  <2>3. QED BY <2>1, <2>2 DEF IInv, TypeOK, GiveSlotBack, loops, stats, Phases
<1>5. OffersLooped' /\ PacketsCounted'
  BY <1>1, QuietKept DEF GiveSlotBack, loops, stats
<1>6. QED BY <1>2, <1>3, <1>4, <1>5 DEF IInv, SlotsCounted

(***************************************************************************)
(* A connection that has its slot                                          *)
(***************************************************************************)

\* A connection goes from one phase with a slot to another; nothing else changes but the gate, what
\* it remembers and connected.
LEMMA GoesOnInv ==
  ASSUME IInv, NEW c \in Conns, NEW v \in Holding, ws[c] \in Holding, WsGoto(c, v), v # "offer",
         UNCHANGED <<slots, offers, loop, claimed, packets, rtp, seen, pcmStarted>>,
         active' \in Conns \cup {None}, connected' \in BOOLEAN,
         session' \in [Conns -> BOOLEAN], pcOpen' \in [Loops -> BOOLEAN]
  PROVE  IInv'
<1>1. SlotsCounted' /\ ws' \in [Conns -> Phases]
  BY SlotsKept
<1>2. OffersLooped' /\ PacketsCounted'
  BY QuietKept
<1>3. TypeOK'
  BY <1>1 DEF IInv, TypeOK, Phases
<1>4. QED BY <1>1, <1>2, <1>3 DEF IInv

LEMMA Closes ==
  ASSUME IInv, NEW c \in Conns, CloseSession(c)
  PROVE  session' \in [Conns -> BOOLEAN] /\ pcOpen' \in [Loops -> BOOLEAN]
BY DEF IInv, TypeOK, CloseSession

LEMMA HoldingPhases ==
  /\ "upgrade" \in Holding /\ "open" \in Holding /\ "offer" \in Holding /\ "closing" \in Holding
  /\ "release" \in Holding /\ "clear" \in Holding /\ "drop" \in Holding
BY DEF Holding, Live, Ending

\* Steps that move a connection and touch no loop.
LEMMA QuietStepInv ==
  ASSUME IInv, NEW c \in Conns,
         \/ Upgraded(c) \/ OfferRejected(c) \/ SocketCloses(c) \/ IdleCloses(c)
         \/ EndSession(c) \/ Release(c) \/ ClearRtc(c)
  PROVE  IInv'
<1>1. /\ active \in Conns \cup {None} /\ None \in Conns \cup {None} /\ connected \in BOOLEAN
      /\ session \in [Conns -> BOOLEAN] /\ pcOpen \in [Loops -> BOOLEAN]
  BY DEF IInv, TypeOK
<1>2. CASE Upgraded(c)
  BY <1>1, <1>2, HoldingPhases, GoesOnInv DEF Upgraded, At, loops, stats
<1>3. CASE OfferRejected(c)
  BY <1>1, <1>3, HoldingPhases, GoesOnInv DEF OfferRejected, At, loops, stats
<1>4. CASE SocketCloses(c)
  BY <1>1, <1>4, HoldingPhases, GoesOnInv DEF SocketCloses, At, loops, stats
<1>5. CASE IdleCloses(c)
  BY <1>1, <1>5, HoldingPhases, GoesOnInv DEF IdleCloses, At, loops, stats
<1>6. CASE EndSession(c)
  BY <1>1, <1>6, HoldingPhases, Closes, GoesOnInv DEF EndSession, At, stats
<1>7. CASE Release(c)
  <2>. DEFINE v == IF active = c THEN "clear" ELSE "drop"
  <2>1. v \in Holding /\ v # "offer" /\ ws[c] \in Holding
    BY <1>7, HoldingPhases DEF Release, At
  <2>2. WsGoto(c, v) /\ active' \in Conns \cup {None}
    BY <1>1, <1>7 DEF Release
  <2>3. QED BY <1>1, <1>7, <2>1, <2>2, GoesOnInv DEF Release, loops, stats
<1>8. CASE ClearRtc(c)
  BY <1>1, <1>8, HoldingPhases, GoesOnInv DEF ClearRtc, At, loops
<1>9. QED BY <1>2, <1>3, <1>4, <1>5, <1>6, <1>7, <1>8

LEMMA PcmBlockInv == ASSUME IInv, NEW c \in Conns, PcmBlock(c) PROVE IInv'
<1>1. active' = c
  BY DEF PcmBlock, TakeOver, Allowed
<1>2. TypeOK'
  BY <1>1 DEF IInv, TypeOK, PcmBlock, loops, stats
<1>3. SlotsCounted' /\ OffersLooped' /\ PacketsCounted'
  BY WsSame DEF IInv, PacketsCounted, PcmBlock, loops, stats, Working
<1>4. QED BY <1>2, <1>3 DEF IInv

LEMMA IdleStaysInv == ASSUME IInv, NEW c \in Conns, IdleStays(c) PROVE IInv'
<1>1. TypeOK'
  BY DEF IInv, TypeOK, IdleStays, loops, stats
<1>2. SlotsCounted' /\ OffersLooped' /\ PacketsCounted'
  BY WsSame DEF IInv, PacketsCounted, IdleStays, loops, stats, Working
<1>3. QED BY <1>1, <1>2 DEF IInv

LEMMA OfferArrivesInv == ASSUME IInv, NEW c \in Conns, OfferArrives(c) PROVE IInv'
<1>1. /\ ws \in [Conns -> Phases] /\ ws[c] \in Holding /\ WsGoto(c, "offer")
      /\ UNCHANGED <<slots, offers, loop, packets, rtp>>
  BY Typed, HoldingPhases DEF IInv, OfferArrives, At, stats
<1>2. SlotsCounted' /\ ws' \in [Conns -> Phases]
  BY <1>1, HoldingPhases, SlotsKept
<1>3. OffersLooped'
  <2>1. offers[c] < MaxOffers
    BY <1>1, OffersFit, Typed, LoopsFinite DEF IInv, OffersLooped, OfferArrives
  <2>2. \A d \in Conns : d # c => ws'[d] = ws[d]
    BY <1>1 DEF WsGoto
  <2>3. QED BY <1>1, <2>1, <2>2 DEF IInv, OffersLooped, At
<1>4. TypeOK'
  BY <1>2, Closes DEF IInv, TypeOK, OfferArrives, stats, Phases
<1>5. PacketsCounted'
  BY <1>1 DEF IInv, PacketsCounted, Working
<1>6. QED BY <1>2, <1>3, <1>4, <1>5 DEF IInv

LEMMA OfferAcceptedInv == ASSUME IInv, NEW c \in Conns, OfferAccepted(c) PROVE IInv'
<1>. DEFINE n == offers[c] + 1
            l == <<c, n>>
<1>1. /\ ws \in [Conns -> Phases] /\ ws[c] = "offer" /\ WsGoto(c, "open")
      /\ loop \in [Loops -> LoopPhases] /\ LoopGoto(l, "poll")
      /\ offers \in [Conns -> 0..MaxOffers] /\ offers' = [offers EXCEPT ![c] = n]
      /\ UNCHANGED <<slots, packets, rtp>>
  BY Typed DEF IInv, OfferAccepted, At, stats
<1>2. n \in 1..MaxOffers /\ l \in Loops
  BY <1>1, LoopsFinite DEF IInv, OffersLooped, At, Loops
<1>3. SlotsCounted' /\ ws' \in [Conns -> Phases]
  BY <1>1, HoldingPhases, SlotsKept
<1>4. OffersLooped'
  <2> SUFFICES ASSUME NEW d \in Conns
               PROVE  /\ \A i \in 1..offers'[d] : loop'[<<d, i>>] # "none"
                      /\ ws'[d] = "offer" => offers'[d] < MaxOffers
    BY DEF OffersLooped, At
  <2>1. \A m \in Loops : m # l => loop'[m] = loop[m]
    BY <1>1 DEF LoopGoto
  <2>2. loop'[l] = "poll"
    BY <1>1, <1>2 DEF LoopGoto
  <2>3. CASE d = c
    <3>1. offers'[d] = n /\ ws'[d] = "open"
      BY <1>1, <2>3 DEF WsGoto
    <3>2. \A i \in 1..n : i = n \/ i \in 1..offers[c]
      BY <1>1
    <3>3. \A i \in 1..offers[c] : <<c, i>> \in Loops /\ <<c, i>> # l
      BY <1>1, LoopsFinite DEF Loops
    <3>4. \A i \in 1..offers[c] : loop[<<c, i>>] # "none"
      BY DEF IInv, OffersLooped
    <3>5. QED BY <2>1, <2>2, <2>3, <3>1, <3>2, <3>3, <3>4
  <2>4. CASE d # c
    <3>1. offers'[d] = offers[d] /\ ws'[d] = ws[d] /\ offers[d] \in 0..MaxOffers
      BY <1>1, <2>4 DEF WsGoto
    <3>2. \A i \in 1..offers[d] : <<d, i>> \in Loops /\ <<d, i>> # l
      BY <3>1, <2>4, LoopsFinite DEF Loops
    <3>3. \A i \in 1..offers[d] : loop'[<<d, i>>] = loop[<<d, i>>]
      BY <2>1, <3>2
    <3>4. QED BY <3>1, <3>3 DEF IInv, OffersLooped, At
  <2>5. QED BY <2>3, <2>4
<1>5. PacketsCounted'
  <2>1. loop[l] \notin InFlight \/ loop[l] \in InFlight
    OBVIOUS
  <2>2. /\ Cardinality(Working(loop')) \in Nat /\ Cardinality(Working(loop)) \in Nat
        /\ \/ Cardinality(Working(loop')) = Cardinality(Working(loop))
           \/ Cardinality(Working(loop')) = Cardinality(Working(loop)) - 1
    BY <1>1, <1>2, LoopMoves DEF InFlight, LoopPhases
  <2>3. QED BY <1>1, <2>2, Typed DEF IInv, PacketsCounted
<1>6. TypeOK'
  <2>1. offers' \in [Conns -> 0..MaxOffers]
    BY <1>1, <1>2, LoopsFinite
  <2>2. loop' \in [Loops -> LoopPhases]
    BY <1>1 DEF LoopGoto, LoopPhases
  <2>3. QED BY <1>3, <2>1, <2>2 DEF IInv, TypeOK, OfferAccepted, stats, Phases, LoopPhases
<1>7. QED BY <1>3, <1>4, <1>5, <1>6 DEF IInv

(***************************************************************************)
(* Decode loops                                                            *)
(***************************************************************************)

\* A step of a loop keeps the slots and the offers.
LEMMA LoopKept ==
  ASSUME IInv, UNCHANGED sockets, NEW l \in Loops, NEW v \in LoopPhases, v # "none", LoopGoto(l, v)
  PROVE  SlotsCounted' /\ OffersLooped' /\ loop' \in [Loops -> LoopPhases]
<1>1. loop \in [Loops -> LoopPhases]
  BY Typed DEF IInv
<1>2. loop' \in [Loops -> LoopPhases]
  BY <1>1 DEF LoopGoto
<1>3. \A m \in Loops : loop'[m] = "none" => loop[m] = "none"
  BY <1>1 DEF LoopGoto
<1>4. QED BY <1>2, <1>3, WsSame DEF sockets

LEMMA PacketPolledInv == ASSUME IInv, NEW l \in Loops, PacketPolled(l) PROVE IInv'
<1>1. SlotsCounted' /\ OffersLooped' /\ loop' \in [Loops -> LoopPhases]
  BY LoopKept DEF PacketPolled, LoopPhases
<1>2. /\ Cardinality(Working(loop')) = Cardinality(Working(loop)) + 1
      /\ Cardinality(Working(loop)) \in Nat
  BY LoopMoves, Typed DEF IInv, PacketPolled, LoopPhases, InFlight
<1>3. PacketsCounted'
  BY <1>2, Typed DEF IInv, PacketsCounted, PacketPolled, stats
<1>4. rtp' \in 0..MaxPackets
  BY Typed, LoopsFinite DEF IInv, PacketPolled
<1>5. TypeOK'
  BY <1>1, <1>4 DEF IInv, TypeOK, PacketPolled, sockets, stats, LoopPhases
<1>6. QED BY <1>1, <1>3, <1>5 DEF IInv

\* Loops that go on with the packet they have, or drop it.
LEMMA LoopDecidesInv ==
  ASSUME IInv, NEW l \in Loops, LoopClaims(l) \/ LoopAllowed(l) \/ LoopSuperseded(l)
  PROVE  IInv'
<1>1. PICK v \in {"stats", "play", "poll"} : LoopGoto(l, v)
  BY DEF LoopClaims, LoopAllowed, LoopSuperseded
<1>2. /\ v \in LoopPhases /\ v # "none" /\ loop[l] \in InFlight
      /\ UNCHANGED <<sockets, packets, connected, rtp, pcOpen>>
  BY <1>1 DEF LoopClaims, LoopAllowed, LoopSuperseded, LoopPhases, InFlight, stats
<1>3. SlotsCounted' /\ OffersLooped' /\ loop' \in [Loops -> LoopPhases]
  BY <1>1, <1>2, LoopKept
<1>4. PacketsCounted'
  <2>1. /\ Cardinality(Working(loop')) \in Nat /\ Cardinality(Working(loop)) \in Nat
        /\ \/ Cardinality(Working(loop')) = Cardinality(Working(loop))
           \/ Cardinality(Working(loop')) = Cardinality(Working(loop)) - 1
    <3>1. CASE v \in InFlight
      BY <1>1, <1>2, <3>1, LoopMoves, Typed DEF IInv
    <3>2. CASE v \notin InFlight
      BY <1>1, <1>2, <3>2, LoopMoves, Typed DEF IInv
    <3>3. QED BY <3>1, <3>2
  <2>2. QED BY <1>2, <2>1, Typed DEF IInv, PacketsCounted
<1>5. active' \in Conns \cup {None} /\ claimed' \in [Loops -> BOOLEAN]
  BY Owned DEF IInv, TypeOK, LoopClaims, LoopAllowed, LoopSuperseded, TakeOver, Allowed
<1>6. TypeOK'
  BY <1>2, <1>3, <1>5 DEF IInv, TypeOK, sockets, LoopPhases
<1>7. QED BY <1>3, <1>4, <1>6 DEF IInv

LEMMA ResetStatsInv == ASSUME IInv, NEW l \in Loops, ResetStats(l) PROVE IInv'
<1>1. SlotsCounted' /\ OffersLooped' /\ loop' \in [Loops -> LoopPhases]
  BY LoopKept DEF ResetStats, LoopPhases
<1>2. /\ Cardinality(Working(loop')) = Cardinality(Working(loop))
      /\ Cardinality(Working(loop)) \in Nat
  BY LoopMoves, Typed DEF IInv, ResetStats, LoopPhases, InFlight
<1>3. PacketsCounted'
  BY <1>2, Typed DEF IInv, PacketsCounted, ResetStats
<1>4. TypeOK'
  BY <1>1, LoopsFinite DEF IInv, TypeOK, ResetStats, sockets, LoopPhases
<1>5. QED BY <1>1, <1>3, <1>4 DEF IInv

\* The packet that was worked on is the one that may be counted.
LEMMA LoopPlaysInv == ASSUME IInv, NEW l \in Loops, LoopPlays(l) PROVE IInv'
<1>1. SlotsCounted' /\ OffersLooped' /\ loop' \in [Loops -> LoopPhases]
  BY LoopKept DEF LoopPlays, LoopPhases
<1>2. /\ Cardinality(Working(loop')) = Cardinality(Working(loop)) - 1
      /\ Cardinality(Working(loop)) \in Nat /\ Cardinality(Working(loop')) \in Nat
  BY LoopMoves, Typed DEF IInv, LoopPlays, LoopPhases, InFlight
<1>3. PacketsCounted'
  BY <1>2, Typed DEF IInv, PacketsCounted, LoopPlays
<1>4. packets' \in 0..MaxPackets
  BY <1>2, <1>3, Typed, LoopsFinite DEF IInv, PacketsCounted, LoopPlays, TypeOK
<1>5. TypeOK'
  BY <1>1, <1>4 DEF IInv, TypeOK, LoopPlays, sockets, LoopPhases
<1>6. QED BY <1>1, <1>3, <1>5 DEF IInv

LEMMA LoopEndsInv == ASSUME IInv, NEW l \in Loops, LoopEnds(l) PROVE IInv'
<1>1. SlotsCounted' /\ OffersLooped' /\ loop' \in [Loops -> LoopPhases]
  BY LoopKept DEF LoopEnds, LoopPhases
<1>2. Cardinality(Working(loop')) = Cardinality(Working(loop))
  BY LoopMoves, Typed DEF IInv, LoopEnds, LoopPhases, InFlight
<1>3. PacketsCounted'
  BY <1>2 DEF IInv, PacketsCounted, LoopEnds, stats
<1>4. TypeOK'
  BY <1>1 DEF IInv, TypeOK, LoopEnds, sockets, stats, LoopPhases
<1>5. QED BY <1>1, <1>3, <1>4 DEF IInv

LEMMA StateChangesInv == ASSUME IInv, NEW l \in Loops, StateChanges(l) PROVE IInv'
<1>1. TypeOK'
  BY DEF IInv, TypeOK, StateChanges, sockets, loops
<1>2. SlotsCounted' /\ OffersLooped' /\ PacketsCounted'
  BY WsSame DEF IInv, PacketsCounted, StateChanges, sockets, loops, Working
<1>3. QED BY <1>1, <1>2 DEF IInv

(***************************************************************************)
(* The invariant                                                           *)
(***************************************************************************)
LEMMA NextInv == IInv /\ [Next]_vars => IInv'
<1> SUFFICES ASSUME IInv, [Next]_vars PROVE IInv'
  OBVIOUS
<1>1. ASSUME NEW c \in Conns, Reserve(c) PROVE IInv'
  BY <1>1, ReserveInv
<1>2. ASSUME NEW c \in Conns, Refuse(c) \/ UpgradeFails(c) \/ DropSlot(c) PROVE IInv'
  <2>1. ws[c] \in Taken /\ GiveSlotBack(c)
    BY <1>2 DEF Refuse, UpgradeFails, DropSlot, At, Taken, Holding, Ending
  <2>2. QED BY <2>1, GiveSlotBackInv
<1>3. ASSUME NEW c \in Conns,
             \/ Upgraded(c) \/ OfferRejected(c) \/ SocketCloses(c) \/ IdleCloses(c)
             \/ EndSession(c) \/ Release(c) \/ ClearRtc(c)
      PROVE  IInv'
  BY <1>3, QuietStepInv
<1>4. ASSUME NEW c \in Conns, PcmBlock(c) \/ OfferArrives(c) \/ OfferAccepted(c) \/ IdleStays(c)
      PROVE  IInv'
  BY <1>4, PcmBlockInv, OfferArrivesInv, OfferAcceptedInv, IdleStaysInv
<1>5. ASSUME NEW l \in Loops, PacketPolled(l) \/ LoopStep(l) \/ StateChanges(l) PROVE IInv'
  BY <1>5, PacketPolledInv, LoopDecidesInv, ResetStatsInv, LoopPlaysInv, LoopEndsInv,
     StateChangesInv DEF LoopStep
<1>6. ASSUME UNCHANGED vars PROVE IInv'
  <2>1. TypeOK'
    BY <1>6 DEF IInv, TypeOK, vars, sockets, loops, stats
  <2>2. SlotsCounted' /\ OffersLooped' /\ PacketsCounted'
    BY <1>6, WsSame DEF IInv, PacketsCounted, vars, sockets, loops, stats, Working
  <2>3. QED BY <2>1, <2>2 DEF IInv
<1>7. QED
  BY <1>1, <1>2, <1>3, <1>4, <1>5, <1>6 DEF Next, Upgrade, Message, End

LEMMA Inductive == Spec => []IInv
BY InitInv, NextInv, PTL DEF Spec

\* At most MAX_CONNECTIONS sockets exist, whatever burst arrives, and no slot is ever lost: the
\* counter is the number of slots in use plus those about to be taken back (app.rs:331-355).
THEOREM SlotsAlwaysHold == Spec => []SlotsHold
<1>1. IInv => SlotsHold
  BY DEF IInv, SlotsCounted, SlotsHold, Connections, Taken
<1>2. QED BY <1>1, Inductive, PTL

\* A playing source loses the gate only when it releases it itself or when another connection sends
\* its first block or packet; a superseded one cannot take it back (PROTOCOL.md:79-82).
THEOREM OnlyStartsMayTakeOver == Spec => OnlyStartsTakeOver
<1>. DEFINE Legal == active # None /\ active' # active =>
                       \/ active' = None /\ ws'[active] = "clear"
                       \/ active' # None /\ (pcmStarted' # pcmStarted \/ claimed' # claimed)
<1>1. IInv /\ [Next]_vars => [Legal]_vars
  <2> SUFFICES ASSUME IInv, Next, active # None, active' # active
               PROVE  \/ active' = None /\ ws'[active] = "clear"
                      \/ active' # None /\ (pcmStarted' # pcmStarted \/ claimed' # claimed)
    OBVIOUS
  <2>. /\ ws \in [Conns -> Phases] /\ pcmStarted \in [Conns -> BOOLEAN]
       /\ claimed \in [Loops -> BOOLEAN] /\ active \in Conns \cup {None}
    BY Typed DEF IInv, TypeOK
  <2>1. ASSUME NEW c \in Conns, PcmBlock(c)
        PROVE  active' # None /\ pcmStarted' # pcmStarted
    <3>1. ~pcmStarted[c]
      BY <2>1 DEF PcmBlock, Allowed, MayPlay
    <3>2. pcmStarted'[c] = TRUE /\ active' = c
      BY <2>1 DEF PcmBlock, TakeOver, Allowed
    <3>3. QED BY <3>1, <3>2, ConstantsOK
  <2>2. ASSUME NEW c \in Conns, Release(c)
        PROVE  active' = None /\ ws'[active] = "clear"
    BY <2>2 DEF Release, WsGoto
  <2>3. ASSUME NEW l \in Loops, LoopClaims(l)
        PROVE  active' # None /\ claimed' # claimed
    <3>1. ~claimed[l] /\ claimed'[l] = TRUE /\ active' = Owner(l)
      BY <2>3 DEF LoopClaims, TakeOver
    <3>2. QED BY <3>1, Owned, ConstantsOK
  <2>4. ASSUME NEW l \in Loops, LoopAllowed(l) PROVE FALSE
    BY <2>4 DEF LoopAllowed, Allowed, MayPlay
  <2>5. ASSUME NEW c \in Conns,
               \/ Reserve(c) \/ UpgradeFails(c) \/ Refuse(c) \/ Upgraded(c) \/ DropSlot(c)
               \/ OfferArrives(c) \/ OfferAccepted(c) \/ OfferRejected(c)
        PROVE  FALSE
    BY <2>5 DEF Reserve, UpgradeFails, Refuse, DropSlot, GiveSlotBack, Upgraded, OfferArrives,
                OfferAccepted, OfferRejected
  <2>6. ASSUME NEW c \in Conns,
               SocketCloses(c) \/ IdleStays(c) \/ IdleCloses(c) \/ EndSession(c) \/ ClearRtc(c)
        PROVE  FALSE
    BY <2>6 DEF SocketCloses, IdleStays, IdleCloses, EndSession, ClearRtc
  <2>7. ASSUME NEW l \in Loops,
               \/ PacketPolled(l) \/ ResetStats(l) \/ LoopSuperseded(l) \/ LoopPlays(l)
               \/ LoopEnds(l) \/ StateChanges(l)
        PROVE  FALSE
    BY <2>7 DEF PacketPolled, ResetStats, LoopSuperseded, LoopPlays, LoopEnds, StateChanges
  <2>8. QED
    BY <2>1, <2>2, <2>3, <2>4, <2>5, <2>6, <2>7 DEF Next, Upgrade, Message, End, LoopStep
<1>2. QED BY <1>1, Inductive, PTL DEF Spec, OnlyStartsTakeOver

(***************************************************************************)
(* Who may hold the gate.  CloseSession does not wait for the decode loop: *)
(* with LateLoops a loop that outlives its connection can claim the gate   *)
(* for it, and ActiveIsAlive fails.  Without them:                         *)
(***************************************************************************)
Alive == Live \cup {"closing"}

\* A loop that works on a packet has its peer connection, and that one its WebSocket.
Attached ==
  \A l \in Loops : /\ loop[l] \in InFlight => pcOpen[l]
                   /\ pcOpen[l] => ws[Owner(l)] \in Alive

GateInv == Attached /\ ActiveIsAlive

\* The phases in which an active connection may be.
MayBeActive == Live \cup {"closing", "release"}

LEMMA GateHeld == ActiveIsAlive <=> (active # None => ws[active] \in MayBeActive)
BY DEF ActiveIsAlive, MayBeActive

\* A connection goes on to a phase in which it may still be active.
LEMMA GoesOnGate ==
  ASSUME IInv, GateInv, UNCHANGED <<active, loop>>, NEW c \in Conns, NEW v, WsGoto(c, v),
         active = c => v \in MayBeActive,
         \A l \in Loops : pcOpen'[l] => /\ pcOpen[l]
                                        /\ v \in Alive \/ ws[c] \notin Alive \/ Owner(l) # c,
         \A l \in Loops : pcOpen[l] /\ loop[l] \in InFlight => pcOpen'[l]
  PROVE  GateInv'
<1>. /\ ws'[c] = v
     /\ \A d \in Conns : d # c => ws'[d] = ws[d]
  BY Typed DEF IInv, WsGoto
<1>1. Attached'
  <2> SUFFICES ASSUME NEW l \in Loops
               PROVE  /\ loop'[l] \in InFlight => pcOpen'[l]
                      /\ pcOpen'[l] => ws'[Owner(l)] \in Alive
    BY DEF Attached
  <2>1. Owner(l) \in Conns
    BY Owned
  <2>2. QED BY <2>1 DEF GateInv, Attached
<1>2. ActiveIsAlive'
  <2>1. active \in Conns \cup {None}
    BY DEF IInv, TypeOK
  <2>2. active # None => ws'[active] \in MayBeActive
    BY <2>1, GateHeld DEF GateInv
  <2>3. QED BY <2>2 DEF ActiveIsAlive, MayBeActive
<1>3. QED BY <1>1, <1>2 DEF GateInv

\* A connection or a loop takes the gate, or nobody does, and no WebSocket goes anywhere.
LEMMA TakesGate ==
  ASSUME IInv, GateInv, UNCHANGED ws,
         active' = active \/ active' = None \/ ws[active'] \in MayBeActive,
         \A l \in Loops : loop'[l] \in InFlight => loop[l] \in InFlight \/ pcOpen[l],
         UNCHANGED pcOpen
  PROVE  GateInv'
<1>1. Attached'
  BY DEF GateInv, Attached
<1>2. active' # None => ws[active'] \in MayBeActive
  BY GateHeld DEF GateInv
<1>3. ActiveIsAlive'
  BY <1>2 DEF ActiveIsAlive, MayBeActive
<1>4. QED BY <1>1, <1>3 DEF GateInv

\* Closing a session leaves no loop behind that works on a packet.
LEMMA ClosesClean ==
  ASSUME ~LateLoops, IInv, GateInv, NEW c \in Conns, CloseSession(c)
  PROVE  \A l \in Loops : /\ pcOpen'[l] => pcOpen[l] /\ Owner(l) # c
                          /\ Owner(l) # c /\ pcOpen[l] => pcOpen'[l]
                          /\ Owner(l) = c => loop[l] \notin InFlight
<1> TAKE l \in Loops
<1>1. pcOpen'[l] = (pcOpen[l] /\ Owner(l) # c)
  BY DEF CloseSession
<1>2. ASSUME Owner(l) = c PROVE loop[l] \notin InFlight
  BY <1>2 DEF CloseSession, SessionQuiet, GateInv, Attached, InFlight
<1>3. QED BY <1>1, <1>2

LEMMA AlivePhases ==
  /\ "open" \in Alive /\ "offer" \in Alive /\ "closing" \in Alive
  /\ "open" \in MayBeActive /\ "offer" \in MayBeActive /\ "closing" \in MayBeActive
  /\ "release" \in MayBeActive
  /\ \A p : p \in Alive => p \in MayBeActive
  /\ \A p : p \in {"new", "refused", "upgrade", "clear", "drop", "gone"} =>
       p \notin MayBeActive /\ p \notin Alive
  /\ "release" \notin Alive
BY DEF Alive, MayBeActive, Live

LEMMA GateNextInv == ~LateLoops /\ IInv /\ GateInv /\ [Next]_vars => GateInv'
<1> SUFFICES ASSUME ~LateLoops, IInv, GateInv, [Next]_vars PROVE GateInv'
  OBVIOUS
<1>. /\ pcOpen \in [Loops -> BOOLEAN] /\ active \in Conns \cup {None}
     /\ active # None => ws[active] \in MayBeActive
  BY GateHeld DEF IInv, TypeOK, GateInv
<1>1. ASSUME NEW c \in Conns,
             Reserve(c) \/ UpgradeFails(c) \/ Refuse(c) \/ DropSlot(c) \/ Upgraded(c) \/ ClearRtc(c)
      PROVE  GateInv'
  <2>1. /\ ws[c] \in {"new", "refused", "upgrade", "clear", "drop"}
        /\ \E v : WsGoto(c, v)
        /\ UNCHANGED <<active, loop, pcOpen>>
    BY <1>1 DEF Reserve, UpgradeFails, Refuse, DropSlot, GiveSlotBack, Upgraded, ClearRtc, At, loops
  <2>2. active # c
    BY <2>1, AlivePhases, ConstantsOK
  <2>3. ws[c] \notin Alive
    BY <2>1, AlivePhases
  <2>4. QED BY <2>1, <2>2, <2>3, GoesOnGate
<1>2. ASSUME NEW c \in Conns,
             OfferAccepted(c) \/ OfferRejected(c) \/ SocketCloses(c) \/ IdleCloses(c)
      PROVE  /\ \E v \in {"open", "closing"} : WsGoto(c, v)
             /\ ws[c] \in {"open", "offer"} /\ active' = active
  BY <1>2 DEF OfferAccepted, OfferRejected, SocketCloses, IdleCloses, At
<1>3. ASSUME NEW c \in Conns, OfferRejected(c) \/ SocketCloses(c) \/ IdleCloses(c) PROVE GateInv'
  <2>1. UNCHANGED <<loop, pcOpen>>
    BY <1>3 DEF OfferRejected, SocketCloses, IdleCloses, loops
  <2>2. PICK v \in {"open", "closing"} : WsGoto(c, v)
    BY <1>2, <1>3
  <2>3. v \in Alive /\ v \in MayBeActive /\ active' = active
    BY <1>2, <1>3, AlivePhases
  <2>4. QED BY <2>1, <2>2, <2>3, GoesOnGate
<1>4. ASSUME NEW c \in Conns, OfferAccepted(c) PROVE GateInv'
  <2>. DEFINE l == <<c, offers[c] + 1>>
  <2>1. /\ \A m \in Loops : m # l => loop'[m] = loop[m] /\ pcOpen'[m] = pcOpen[m]
        /\ l \in Loops => loop'[l] = "poll" /\ pcOpen'[l] = TRUE
        /\ ws'[c] = "open" /\ \A d \in Conns : d # c => ws'[d] = ws[d]
        /\ active' = active
    BY <1>4, Typed DEF IInv, OfferAccepted, LoopGoto, WsGoto
  <2>2. Attached'
    <3> SUFFICES ASSUME NEW m \in Loops
                 PROVE  /\ loop'[m] \in InFlight => pcOpen'[m]
                        /\ pcOpen'[m] => ws'[Owner(m)] \in Alive
      BY DEF Attached
    <3>1. Owner(m) \in Conns /\ Owner(l) = c
      BY Owned DEF Owner
    <3>2. CASE m = l
      BY <2>1, <3>1, <3>2, AlivePhases DEF InFlight
    <3>3. CASE m # l
      BY <2>1, <3>1, <3>3, AlivePhases DEF GateInv, Attached
    <3>4. QED BY <3>2, <3>3
  <2>3. ActiveIsAlive'
    <3>1. active # None => ws'[active] \in MayBeActive
      BY <2>1, AlivePhases
    <3>2. QED BY <2>1, <3>1 DEF ActiveIsAlive, MayBeActive
  <2>4. QED BY <2>2, <2>3 DEF GateInv
<1>5. ASSUME NEW c \in Conns, OfferArrives(c) PROVE GateInv'
  <2>1. /\ WsGoto(c, "offer") /\ UNCHANGED <<active, loop>> /\ CloseSession(c)
        /\ "offer" \in Alive /\ "offer" \in MayBeActive
    BY <1>5, AlivePhases DEF OfferArrives
  <2>2. \A m \in Loops : /\ pcOpen'[m] => pcOpen[m]
                         /\ pcOpen[m] /\ loop[m] \in InFlight => pcOpen'[m]
    BY <2>1, ClosesClean
  <2>3. QED BY <2>1, <2>2, GoesOnGate
<1>6. ASSUME NEW c \in Conns, EndSession(c) PROVE GateInv'
  <2>1. /\ WsGoto(c, "release") /\ UNCHANGED <<active, loop>> /\ CloseSession(c)
        /\ "release" \in MayBeActive
    BY <1>6, AlivePhases DEF EndSession
  <2>2. \A m \in Loops : /\ pcOpen'[m] => pcOpen[m] /\ Owner(m) # c
                         /\ pcOpen[m] /\ loop[m] \in InFlight => pcOpen'[m]
    BY <2>1, ClosesClean
  <2>3. QED BY <2>1, <2>2, GoesOnGate
<1>7. ASSUME NEW c \in Conns, Release(c) PROVE GateInv'
  <2>1. /\ \A d \in Conns : d # c => ws'[d] = ws[d]
        /\ ws[c] = "release" /\ UNCHANGED <<loop, pcOpen>>
        /\ (active' = active /\ active # c) \/ active' = None
    BY <1>7, Typed DEF IInv, Release, WsGoto, At, loops
  <2>2. Attached'
    BY <2>1, Owned, AlivePhases DEF GateInv, Attached
  <2>3. active' # None => ws'[active'] \in MayBeActive
    BY <2>1
  <2>4. QED BY <2>2, <2>3 DEF GateInv, ActiveIsAlive, MayBeActive
<1>8. ASSUME NEW c \in Conns, PcmBlock(c) \/ IdleStays(c) PROVE GateInv'
  <2>1. /\ UNCHANGED <<ws, loop, pcOpen>>
        /\ active' = active \/ ws[active'] = "open"
    BY <1>8 DEF PcmBlock, IdleStays, TakeOver, Allowed, At, loops
  <2>2. QED BY <2>1, TakesGate, AlivePhases
<1>9. ASSUME NEW l \in Loops, PacketPolled(l) \/ LoopStep(l) \/ StateChanges(l)
      PROVE  /\ UNCHANGED <<ws, pcOpen>>
             /\ \A m \in Loops : loop'[m] \in InFlight => loop[m] \in InFlight \/ pcOpen[m]
             /\ active' = active \/ (active' = Owner(l) /\ loop[l] \in InFlight)
  <2>. loop \in [Loops -> LoopPhases]
    BY Typed DEF IInv
  <2>1. CASE PacketPolled(l) \/ StateChanges(l) \/ LoopEnds(l)
    BY <2>1 DEF PacketPolled, StateChanges, LoopEnds, LoopGoto, InFlight, sockets, loops
  <2>2. CASE LoopClaims(l) \/ ResetStats(l) \/ LoopAllowed(l)
    BY <2>2 DEF LoopClaims, ResetStats, LoopAllowed, LoopGoto, TakeOver, Allowed, InFlight,
                sockets, loops
  <2>3. CASE LoopSuperseded(l) \/ LoopPlays(l)
    BY <2>3 DEF LoopSuperseded, LoopPlays, LoopGoto, InFlight, sockets, loops
  <2>4. QED BY <1>9, <2>1, <2>2, <2>3 DEF LoopStep
<1>10. ASSUME NEW l \in Loops, PacketPolled(l) \/ LoopStep(l) \/ StateChanges(l) PROVE GateInv'
  <2>1. loop[l] \in InFlight => ws[Owner(l)] \in MayBeActive
    BY AlivePhases DEF GateInv, Attached
  <2>2. QED BY <1>9, <1>10, <2>1, TakesGate
<1>11. ASSUME UNCHANGED vars PROVE GateInv'
  BY <1>11, TakesGate DEF vars, sockets, loops
<1>12. QED
  BY <1>1, <1>3, <1>4, <1>5, <1>6, <1>7, <1>8, <1>10, <1>11 DEF Next, Upgrade, Message, End

\* The gate is never held by a connection that is gone, as long as no session is closed while its
\* loop works on a packet (app.rs:17-18).
THEOREM ActiveAlwaysAlive == ~LateLoops => (Spec => []ActiveIsAlive)
<1> SUFFICES ASSUME ~LateLoops PROVE Spec => []ActiveIsAlive
  OBVIOUS
<1>1. Init => GateInv
  BY DEF Init, GateInv, Attached, ActiveIsAlive, InFlight
<1>2. IInv /\ GateInv /\ [Next]_vars => GateInv'
  BY GateNextInv
<1>3. GateInv => ActiveIsAlive
  BY DEF GateInv
<1>4. QED BY <1>1, <1>2, <1>3, Inductive, PTL DEF Spec
=============================================================================
