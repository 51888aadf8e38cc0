-------------------------- MODULE AutoBufferProofs --------------------------
(***************************************************************************)
(* Proofs about AutoBuffer, for every value of its constants: the type     *)
(* invariant and the sampler's consistency (SamplerConsistent).  Neither   *)
(* is inductive alone: the type of the minimum buffer the sampler writes   *)
(* needs the list to hold exactly three samples when it is full, which is  *)
(* SamplerConsistent; so the two are proved together as IInv.              *)
(***************************************************************************)
EXTENDS AutoBuffer, TLAPS

IInv == TypeOK /\ SamplerConsistent

\* Every route the server may return is a NetRoute between connected players
\* or the server.
LEMMA RouteType ==
  ASSUME TypeOK
  PROVE  FindLongestRoute \subseteq Route
<1>1. NoRoute \in Route
  BY DEF NoRoute, Route
<1>2. \A p \in peers : [from |-> p, to |-> Null, ping |-> rtt[p]] \in Route
  BY PingsAssumption DEF TypeOK, Route
<1>3. PairRoutes \subseteq Route
  <2> SUFFICES ASSUME NEW pq \in PeerPairs
               PROVE  [from |-> pq[1], to |-> pq[2],
                       ping |-> rtt[pq[1]] + rtt[pq[2]]] \in Route
    BY DEF PairRoutes
  <2>1. pq[1] \in Peers /\ pq[2] \in Peers
    BY DEF PeerPairs, TypeOK
  <2>2. rtt[pq[1]] \in Nat /\ rtt[pq[2]] \in Nat
    BY <2>1, PingsAssumption DEF TypeOK
  <2>3. QED
    BY <2>1, <2>2 DEF Route
<1>4. QED
  BY <1>1, <1>2, <1>3 DEF FindLongestRoute

\* The conversion of an average ping yields buffer sizes that are naturals.
LEMMA SizesNat ==
  ASSUME NEW avg \in Nat
  PROVE  AutoBufferSizes(avg) \subseteq Nat
BY DEF AutoBufferSizes

\* The history record of a run is well typed.
LEMMA HistoryType ==
  ASSUME NEW p \in Seq(Nat), NEW b \in BOOLEAN
  PROVE  [pings |-> p, accepted |-> b] \in [pings : Seq(Nat), accepted : BOOLEAN]
OBVIOUS

\* The auto button's enabled state is a Boolean for every title.
LEMMA MeetsBool ==
  ASSUME NEW g
  PROVE  MeetsAutoBufferConditions(g) \in BOOLEAN
BY BasePollAssumption
   DEF MeetsAutoBufferConditions, GameFound, GetPollOnSIRead

\* Either exit of the sampler leaves it idle and its widgets Boolean.
LEMMA StopSamplingIdle ==
  ASSUME StopSampling
  PROVE  /\ autoEnabled' \in BOOLEAN
         /\ minBoxEnabled' \in BOOLEAN
         /\ samples' \in Seq(Route)
         /\ timerActive' \in BOOLEAN
         /\ SamplerConsistent'
<1>1. autoEnabled' \in BOOLEAN
  BY MeetsBool DEF StopSampling
<1>2. samples' = << >> /\ timerActive' = FALSE /\ minBoxEnabled' = TRUE
  BY DEF StopSampling
<1>3. samples' \in Seq(Route)
  BY <1>2
<1>4. SamplerConsistent'
  BY <1>2 DEF SamplerConsistent, SampleAmount
<1>5. QED
  BY <1>1, <1>2, <1>3, <1>4

\* One call of SampleAutoBuffer, whatever the callers leave the widgets at,
\* preserves IInv.
LEMMA SampleStep ==
  ASSUME IInv,
         NEW busyAuto \in BOOLEAN, NEW busyBox \in BOOLEAN,
         SampleAutoBuffer(busyAuto, busyBox),
         UNCHANGED <<hosting, peers, rtt, game, hia>>
  PROVE  IInv'
<1> USE DEF IInv, TypeOK, SamplerConsistent
<1>1. PICK r \in FindLongestRoute :
        LET s == Append(samples, r) IN
        \/ /\ r.from = Null \/ r.to = Null
           /\ StopSampling
           /\ UNCHANGED <<minBuffer, lastAuto, autoApplied>>
        \/ /\ r.from # Null /\ r.to # Null
           /\ Len(s) >= SampleAmount
           /\ CalculateBufferFromSamples(s)
           /\ StopSampling
        \/ /\ r.from # Null /\ r.to # Null
           /\ Len(s) < SampleAmount
           /\ samples' = s
           /\ timerActive' = TRUE
           /\ autoEnabled' = busyAuto
           /\ minBoxEnabled' = busyBox
           /\ UNCHANGED <<minBuffer, lastAuto, autoApplied>>
  BY DEF SampleAutoBuffer
<1>2. r \in Route
  BY RouteType
<1> DEFINE s == Append(samples, r)
<1>3. s \in Seq(Route) /\ Len(s) = Len(samples) + 1
  BY <1>2
<1>4. CASE /\ r.from = Null \/ r.to = Null
           /\ StopSampling
           /\ UNCHANGED <<minBuffer, lastAuto, autoApplied>>
  BY <1>4, StopSamplingIdle
<1>5. CASE /\ r.from # Null /\ r.to # Null
           /\ Len(s) >= SampleAmount
           /\ CalculateBufferFromSamples(s)
           /\ StopSampling
  <2>1. Len(s) = 3
    BY <1>3, <1>5 DEF SampleAmount
  <2>2. s[1] \in Route /\ s[2] \in Route /\ s[3] \in Route
    BY <1>3, <2>1
  <2>3. AveragePing(s) \in Nat
    BY <2>1, <2>2 DEF AveragePing, PingSum, Route
  <2>4. SamplePings(s) \in Seq(Nat)
    BY <2>1, <2>2 DEF SamplePings, Route
  <2>5. minBuffer' \in Nat /\ autoApplied' \in BOOLEAN
    BY <1>5, <2>3, SizesNat DEF CalculateBufferFromSamples, OnMinimumPadBufferChanged
  <2>6. lastAuto' \in [pings : Seq(Nat), accepted : BOOLEAN]
    <3>1. lastAuto' = [pings |-> SamplePings(s), accepted |-> TRUE]
          \/ lastAuto' = [pings |-> SamplePings(s), accepted |-> FALSE]
      BY <1>5 DEF CalculateBufferFromSamples
    <3>2. QED
      BY <2>4, <3>1, HistoryType
  <2>7. QED
    BY <1>5, <2>5, <2>6, StopSamplingIdle
<1>6. CASE /\ r.from # Null /\ r.to # Null
           /\ Len(s) < SampleAmount
           /\ samples' = s
           /\ timerActive' = TRUE
           /\ autoEnabled' = busyAuto
           /\ minBoxEnabled' = busyBox
           /\ UNCHANGED <<minBuffer, lastAuto, autoApplied>>
  <2>1. \A i \in 1..Len(s) : s[i].from # Null /\ s[i].to # Null
    BY <1>3, <1>6
  <2>2. s # << >>
    <3>1. Len(s) > 0
      BY <1>3
    <3>2. QED
      BY <3>1
  <2>3. QED
    BY <1>3, <1>6, <2>1, <2>2 DEF SampleAmount
<1>7. QED
  BY <1>1, <1>4, <1>5, <1>6

\* IInv holds initially and is preserved by every step.
THEOREM IInvInductive == Spec => []IInv
<1>1. Init => IInv
  <2> SUFFICES ASSUME Init PROVE IInv
    OBVIOUS
  <2>1. rtt \in [Peers -> Pings]
    BY PingsAssumption DEF Init
  <2>2. lastAuto \in [pings : Seq(Nat), accepted : BOOLEAN]
    <3>1. << >> \in Seq(Nat)
      OBVIOUS
    <3>2. QED
      BY <3>1, HistoryType DEF Init
  <2>3. minBuffer \in Nat
    BY ManualBuffersAssumption DEF Init
  <2>4. autoEnabled \in BOOLEAN
    BY MeetsBool DEF Init
  <2>5. samples \in Seq(Route) /\ game \in Games \cup {NoGame}
    BY DEF Init
  <2>6. TypeOK
    BY <2>1, <2>2, <2>3, <2>4, <2>5 DEF Init, TypeOK
  <2>7. SamplerConsistent
    BY DEF Init, SamplerConsistent, SampleAmount
  <2>8. QED
    BY <2>6, <2>7 DEF IInv
<1>2. IInv /\ [Next]_vars => IInv'
  <2> SUFFICES ASSUME IInv, [Next]_vars PROVE IInv'
    OBVIOUS
  <2>1. CASE ClickAutoBuffer
    BY <2>1, SampleStep DEF ClickAutoBuffer
  <2>2. CASE TimerTick
    BY <2>2, SampleStep DEF TimerTick, IInv, TypeOK
  <2>3. ASSUME NEW v \in ManualBuffers, AdjustMinimumBuffer(v) PROVE IInv'
    BY <2>3, ManualBuffersAssumption
       DEF AdjustMinimumBuffer, OnMinimumPadBufferChanged, IInv, TypeOK, SamplerConsistent
  <2>4. ASSUME NEW g \in Games, OnMsgChangeGame(g) PROVE IInv'
    BY <2>4, MeetsBool
       DEF OnMsgChangeGame, OnMinimumPadBufferChanged, IInv, TypeOK, SamplerConsistent
  <2>5. ASSUME NEW b \in BOOLEAN, OnHostInputAuthorityChanged(b) PROVE IInv'
    BY <2>5, MeetsBool
       DEF OnHostInputAuthorityChanged, IInv, TypeOK, SamplerConsistent
  <2>6. ASSUME NEW p \in Peers, NEW v \in Pings, PeerJoin(p, v) PROVE IInv'
    BY <2>6 DEF PeerJoin, IInv, TypeOK, SamplerConsistent
  <2>7. ASSUME NEW p \in Peers, NEW v \in Pings, PingChange(p, v) PROVE IInv'
    BY <2>7 DEF PingChange, IInv, TypeOK, SamplerConsistent
  <2>8. ASSUME NEW p \in Peers, PeerLeave(p) PROVE IInv'
    BY <2>8 DEF PeerLeave, IInv, TypeOK, SamplerConsistent
  <2>9. CASE UNCHANGED vars
    BY <2>9 DEF vars, IInv, TypeOK, SamplerConsistent
  <2>10. QED
    BY <2>1, <2>2, <2>3, <2>4, <2>5, <2>6, <2>7, <2>8, <2>9 DEF Next
<1>3. QED
  BY <1>1, <1>2, PTL DEF Spec

\* The type invariant the runs check holds in every reachable state.
THEOREM TypeCorrect == Spec => []TypeOK
BY IInvInductive, PTL DEF IInv

\* The sampler's timer runs exactly while a run of fewer than three two-player
\* samples is in progress, in every reachable state.
THEOREM SamplerConsistency == Spec => []SamplerConsistent
BY IInvInductive, PTL DEF IInv

=============================================================================
