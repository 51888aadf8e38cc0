------------------------- MODULE GameLifecycleProofs -------------------------
(***************************************************************************)
(* Type correctness of the game lifecycle for every bound on the number of *)
(* games and for both the host's dialog and a player's.  TypeOK is         *)
(* inductive as it stands: every game id a message or an event carries is  *)
(* the one the server just started (kept below MaxGames by the guards of   *)
(* OnStart and RemoteStart), the running session, or one read from the     *)
(* head of a well-typed queue.                                             *)
(***************************************************************************)
EXTENDS GameLifecycle, TLAPS

\* A UI event built from well-typed parts is an Event.
LEMMA EvType ==
  ASSUME NEW k \in {"start", "boot", "stop", "state", "options"},
         NEW b \in BOOLEAN, NEW n \in 0..MaxGames
  PROVE  Ev(k, b, n) \in Event
BY DEF Ev, Event

\* Queue operations keep a queue of S a queue of S.
LEMMA AppendType ==
  ASSUME NEW S, NEW q \in Seq(S), NEW e \in S
  PROVE  Append(q, e) \in Seq(S)
OBVIOUS

LEMMA HeadType ==
  ASSUME NEW S, NEW q \in Seq(S), q # << >>
  PROVE  Head(q) \in S /\ Tail(q) \in Seq(S)
OBVIOUS

\* Both server operations keep the session, the count and the inbox typed.
LEMMA ServerStartType ==
  ASSUME TypeOK, started < MaxGames, ServerStartGame
  PROVE  /\ session' \in 0..MaxGames /\ started' \in 0..MaxGames
         /\ inbox' \in Seq(Message)
<1>1. started + 1 \in GameId
  BY MaxGamesAssumption DEF TypeOK, GameId
<1>2. [type |-> "start", game |-> started + 1] \in Message
  BY <1>1 DEF Message
<1>3. QED
  BY <1>1, <1>2, AppendType DEF TypeOK, ServerStartGame, GameId

LEMMA ServerStopType ==
  ASSUME TypeOK, ServerStopGame
  PROVE  session' \in 0..MaxGames /\ inbox' \in Seq(Message)
<1>1. CASE session # 0
  <2>1. [type |-> "stop", game |-> session] \in Message
    BY <1>1 DEF TypeOK, Message, GameId
  <2>2. session' = 0 /\ inbox' = Append(inbox, [type |-> "stop", game |-> session])
    BY <1>1 DEF ServerStopGame
  <2>3. QED
    BY <2>1, <2>2, AppendType, MaxGamesAssumption DEF TypeOK
<1>2. CASE session = 0
  BY <1>2 DEF TypeOK, ServerStopGame
<1>3. QED
  BY <1>1, <1>2

\* TypeOK is preserved by every step.
LEMMA TypeStep == TypeOK /\ [Next]_vars => TypeOK'
<1> SUFFICES ASSUME TypeOK, [Next]_vars PROVE TypeOK'
  OBVIOUS
<1> USE DEF TypeOK
<1>0. hosting' \in BOOLEAN
  BY DEF Next, vars, dialogVars
<1> USE <1>0
<1>1. CASE NetStartGame
  <2>0. inbox # << >>
    BY <1>1 DEF NetStartGame
  <2>1. Head(inbox) \in Message /\ Tail(inbox) \in Seq(Message)
    BY <2>0, HeadType
  <2>2. Ev("start", FALSE, Head(inbox).game) \in Event
    <3>1. Head(inbox).game \in 0..MaxGames
      BY <2>1, MaxGamesAssumption DEF Message, GameId
    <3>2. QED
      BY <3>1, EvType
  <2>4. uiQueue' = Append(uiQueue, Ev("start", FALSE, Head(inbox).game))
    BY <1>1 DEF NetStartGame
  <2>5. uiQueue' \in Seq(Event)
    BY <2>4, <2>1, <2>2, AppendType
  <2>6. QED
    BY <1>1, <2>1, <2>5 DEF NetStartGame
<1>2. CASE StopGame
  <2>0. inbox # << >>
    BY <1>2 DEF StopGame
  <2>1. Tail(inbox) \in Seq(Message)
    BY <2>0, HeadType
  <2>2. Ev("stop", FALSE, 0) \in Event
    <3>1. 0 \in 0..MaxGames
      BY MaxGamesAssumption
    <3>2. QED
      BY <3>1, EvType
  <2>3. CASE gotStopRequest
    BY <1>2, <2>1, <2>3 DEF StopGame
  <2>4. CASE ~gotStopRequest
    <3>1. uiQueue' = Append(uiQueue, Ev("stop", FALSE, 0))
      BY <1>2, <2>4 DEF StopGame
    <3>2. uiQueue' \in Seq(Event)
      BY <3>1, <2>2, AppendType
    <3>3. QED
      BY <1>2, <2>1, <2>4, <3>2 DEF StopGame
  <2>5. QED
    BY <2>3, <2>4
<1>3. CASE BootGame
  <2>0. uiQueue # << >>
    BY <1>3 DEF BootGame, UIHead
  <2>1. Head(uiQueue) \in Event /\ Tail(uiQueue) \in Seq(Event)
    BY <2>0, HeadType
  <2>2. Ev("boot", FALSE, Head(uiQueue).game) \in Event
    <3>1. Head(uiQueue).game \in 0..MaxGames
      BY <2>1 DEF Event
    <3>2. QED
      BY <3>1, EvType
  <2>4. uiQueue' = Append(Tail(uiQueue), Ev("boot", FALSE, Head(uiQueue).game))
    BY <1>3 DEF BootGame
  <2>5. uiQueue' \in Seq(Event)
    BY <2>4, <2>1, <2>2, AppendType
  <2>6. QED
    BY <1>3, <2>1, <2>5 DEF BootGame
<1>4. CASE BootSignal
  <2>0. uiQueue # << >>
    BY <1>4 DEF BootSignal, UIHead
  <2>1. Head(uiQueue) \in Event /\ Tail(uiQueue) \in Seq(Event)
    BY <2>0, HeadType
  <2>2. Ev("state", TRUE, Head(uiQueue).game) \in Event
    <3>1. Head(uiQueue).game \in 0..MaxGames
      BY <2>1 DEF Event
    <3>2. QED
      BY <3>1, EvType
  <2>3. [state |-> "running", game |-> Head(uiQueue).game] \in CoreState
    BY <2>1 DEF Event, CoreState
  <2>4. CASE core.state = "idle"
    <3>1. core' = [state |-> "running", game |-> Head(uiQueue).game]
      BY <1>4, <2>4 DEF BootSignal
    <3>2. uiQueue' = Append(Tail(uiQueue), Ev("state", TRUE, Head(uiQueue).game))
      BY <1>4, <2>4, <3>1 DEF BootSignal
    <3>3. uiQueue' \in Seq(Event)
      BY <3>2, <2>1, <2>2, AppendType
    <3>4. QED
      BY <1>4, <2>3, <3>1, <3>3 DEF BootSignal
  <2>5. CASE core.state # "idle"
    BY <1>4, <2>1, <2>5 DEF BootSignal
  <2>6. QED
    BY <2>4, <2>5
<1>5. CASE StopSignal
  <2>0. uiQueue # << >>
    BY <1>5 DEF StopSignal, UIHead
  <2>1. Tail(uiQueue) \in Seq(Event)
    BY <2>0, HeadType
  <2>2. core' \in CoreState
    BY <1>5 DEF StopSignal, CoreState
  <2>3. QED
    BY <1>5, <2>1, <2>2 DEF StopSignal
<1>6. CASE OnEmulationStateChanged
  <2>0. uiQueue # << >>
    BY <1>6 DEF OnEmulationStateChanged, UIHead
  <2>1. Head(uiQueue) \in Event /\ Tail(uiQueue) \in Seq(Event)
    BY <2>0, HeadType
  <2>2. Ev("options", ~Head(uiQueue).arg, 0) \in Event
    <3>1. Head(uiQueue).arg \in BOOLEAN
      BY <2>1 DEF Event
    <3>2. 0 \in 0..MaxGames
      BY MaxGamesAssumption
    <3>3. QED
      BY <3>1, <3>2, EvType
  <2>3. session' \in 0..MaxGames /\ inbox' \in Seq(Message)
    BY <1>6, ServerStopType DEF OnEmulationStateChanged, GameStatusChanged
  <2>4. QED
    BY <1>6, <2>1, <2>2, <2>3, AppendType DEF OnEmulationStateChanged, GameStatusChanged
<1>7. CASE SetOptionsEnabled
  <2>0. uiQueue # << >>
    BY <1>7 DEF SetOptionsEnabled, UIHead
  <2>1. Head(uiQueue) \in Event /\ Tail(uiQueue) \in Seq(Event)
    BY <2>0, HeadType
  <2>2. QED
    BY <1>7, <2>1 DEF SetOptionsEnabled, Event
<1>8. CASE OnStart
  BY <1>8, ServerStartType DEF OnStart
<1>9. CASE RemoteStart
  BY <1>9, ServerStartType DEF RemoteStart
<1>10. CASE RemoteStop
  BY <1>10, ServerStopType DEF RemoteStop
<1>11. CASE CoreShutdown
  <2>0. core.game \in 0..MaxGames
    BY DEF CoreState
  <2>1. Ev("state", FALSE, core.game) \in Event
    BY <2>0, EvType
  <2>3. uiQueue' = Append(uiQueue, Ev("state", FALSE, core.game))
    BY <1>11 DEF CoreShutdown
  <2>4. uiQueue' \in Seq(Event)
    BY <2>3, <2>1, AppendType
  <2>5. core' \in CoreState
    BY <1>11, MaxGamesAssumption DEF CoreShutdown, CoreState
  <2>6. QED
    BY <1>11, <2>4, <2>5 DEF CoreShutdown
<1>12. CASE CoreHaltsUnexpectedly
  <2>0. core.game \in 0..MaxGames
    BY DEF CoreState
  <2>1. Ev("state", FALSE, core.game) \in Event
    BY <2>0, EvType
  <2>3. uiQueue' = Append(uiQueue, Ev("state", FALSE, core.game))
    BY <1>12 DEF CoreHaltsUnexpectedly
  <2>4. uiQueue' \in Seq(Event)
    BY <2>3, <2>1, AppendType
  <2>5. core' \in CoreState /\ halted' \in 0..MaxGames
    BY <1>12, <2>0, MaxGamesAssumption DEF CoreHaltsUnexpectedly, CoreState
  <2>6. QED
    BY <1>12, <2>4, <2>5 DEF CoreHaltsUnexpectedly
<1>13. CASE UNCHANGED vars
  BY <1>13 DEF vars, dialogVars
<1>14. QED
  BY <1>1, <1>2, <1>3, <1>4, <1>5, <1>6, <1>7, <1>8, <1>9, <1>10, <1>11,
     <1>12, <1>13 DEF Next, Dialog, Environment

\* TypeOK holds in every reachable state: every queue holds well-formed
\* events and messages, and every game number stays within 0..MaxGames.
THEOREM TypeInductive == Spec => []TypeOK
<1>1. Init => TypeOK
  BY MaxGamesAssumption DEF Init, TypeOK, CoreState
<1>2. TypeOK /\ [Next]_vars => TypeOK'
  BY TypeStep
<1>3. QED
  BY <1>1, <1>2, PTL DEF Spec
=============================================================================
