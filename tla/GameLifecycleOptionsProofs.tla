--------------------- MODULE GameLifecycleOptionsProofs ---------------------
(***************************************************************************)
(* The proof of OptionsFollowCore: once nothing is queued on either        *)
(* thread, the options SetOptionsEnabled last set say whether the core is  *)
(* idle.                                                                   *)
(*                                                                         *)
(* OptionsFollowCore says nothing while events are queued, so it is not    *)
(* inductive.  The strengthening OInv speaks of the value the options will *)
(* settle to once the UI queue is drained (FinalIs): the negation of the   *)
(* last "state" event's argument, since each one posts its own options     *)
(* lambda at the back of the queue; else the last posted options lambda;   *)
(* else the options as they are.  While the core runs or stops that value  *)
(* is FALSE; while it is idle and no start is on its way to it (Pending),  *)
(* it is TRUE.                                                             *)
(***************************************************************************)
EXTENDS GameLifecycleProofs

\* The options the UI thread ends at after handling every event of q, when
\* they are now o, is v.
FinalIs(q, o, v) ==
  \/ \E i \in 1..Len(q) :
       /\ q[i].kind = "state" /\ q[i].arg = ~v
       /\ \A j \in i + 1..Len(q) : q[j].kind # "state"
  \/ /\ \A i \in 1..Len(q) : q[i].kind # "state"
     /\ \E i \in 1..Len(q) :
          /\ q[i].kind = "options" /\ q[i].arg = v
          /\ \A j \in i + 1..Len(q) : q[j].kind # "options"
  \/ /\ \A i \in 1..Len(q) : q[i].kind \notin {"state", "options"}
     /\ o = v

\* A game start is on its way to the core: a StartGame message in the
\* inbox, or OnMsgStartGame's lambda or the Boot signal in the UI queue.
Pending(q, in) ==
  \/ \E i \in 1..Len(q) : q[i].kind \in {"start", "boot"}
  \/ \E i \in 1..Len(in) : in[i].type = "start"

\* The inductive strengthening of OptionsFollowCore.
OInv ==
  /\ core.state # "idle" => FinalIs(uiQueue, optionsEnabled, FALSE)
  /\ (core.state = "idle" /\ ~Pending(uiQueue, inbox))
       => FinalIs(uiQueue, optionsEnabled, TRUE)

-----------------------------------------------------------------------------
(* What the queue operations of the UI thread do to FinalIs.               *)

\* Posting an event that is neither a state change nor an options lambda
\* (Boot, Stop, OnMsgStartGame's lambda) leaves the final options alone.
LEMMA AppendOther ==
  ASSUME NEW q \in Seq(Event), NEW e \in Event,
         e.kind \notin {"state", "options"},
         NEW o \in BOOLEAN, NEW v \in BOOLEAN, FinalIs(q, o, v)
  PROVE  FinalIs(Append(q, e), o, v)
BY DEF FinalIs

\* Posting EmulationStateChanged(arg) makes the final options ~arg.
LEMMA AppendState ==
  ASSUME NEW q \in Seq(Event), NEW e \in Event, e.kind = "state",
         NEW o \in BOOLEAN
  PROVE  FinalIs(Append(q, e), o, ~e.arg)
<1>1. e.arg \in BOOLEAN
  BY DEF Event
<1>2. LET r == Append(q, e) IN
        /\ r[Len(q) + 1].kind = "state" /\ r[Len(q) + 1].arg = ~~e.arg
        /\ \A j \in Len(q) + 2..Len(r) : r[j].kind # "state"
  BY <1>1
<1>3. QED
  BY <1>2 DEF FinalIs
\* Handling an event that is neither a state change nor an options lambda
\* leaves the final options alone.
LEMMA TailOther ==
  ASSUME NEW q \in Seq(Event), q # << >>,
         Head(q).kind \notin {"state", "options"},
         NEW o \in BOOLEAN, NEW v \in BOOLEAN, FinalIs(q, o, v)
  PROVE  FinalIs(Tail(q), o, v)
<1>1. /\ Len(Tail(q)) = Len(q) - 1
      /\ \A i \in 1..Len(q) - 1 : Tail(q)[i] = q[i + 1]
      /\ q[1].kind \notin {"state", "options"}
  OBVIOUS
<1>2. CASE \E i \in 1..Len(q) :
             /\ q[i].kind = "state" /\ q[i].arg = ~v
             /\ \A j \in i + 1..Len(q) : q[j].kind # "state"
  <2>1. PICK i \in 1..Len(q) :
             /\ q[i].kind = "state" /\ q[i].arg = ~v
             /\ \A j \in i + 1..Len(q) : q[j].kind # "state"
    BY <1>2
  <2>2. /\ i - 1 \in 1..Len(Tail(q))
        /\ Tail(q)[i - 1].kind = "state" /\ Tail(q)[i - 1].arg = ~v
        /\ \A j \in (i - 1) + 1..Len(Tail(q)) : Tail(q)[j].kind # "state"
    BY <1>1, <2>1
  <2> QED
    BY <2>2 DEF FinalIs
<1>3. CASE /\ \A i \in 1..Len(q) : q[i].kind # "state"
           /\ \E i \in 1..Len(q) :
                /\ q[i].kind = "options" /\ q[i].arg = v
                /\ \A j \in i + 1..Len(q) : q[j].kind # "options"
  <2>1. PICK i \in 1..Len(q) :
             /\ q[i].kind = "options" /\ q[i].arg = v
             /\ \A j \in i + 1..Len(q) : q[j].kind # "options"
    BY <1>3
  <2>2. /\ i - 1 \in 1..Len(Tail(q))
        /\ Tail(q)[i - 1].kind = "options" /\ Tail(q)[i - 1].arg = v
        /\ \A j \in (i - 1) + 1..Len(Tail(q)) : Tail(q)[j].kind # "options"
        /\ \A k \in 1..Len(Tail(q)) : Tail(q)[k].kind # "state"
    BY <1>1, <1>3, <2>1
  <2> QED
    BY <2>2 DEF FinalIs
<1>4. CASE /\ \A i \in 1..Len(q) : q[i].kind \notin {"state", "options"}
           /\ o = v
  <2>1. \A k \in 1..Len(Tail(q)) : Tail(q)[k].kind \notin {"state", "options"}
    BY <1>1, <1>4
  <2> QED
    BY <1>4, <2>1 DEF FinalIs
<1> QED
  BY <1>2, <1>3, <1>4 DEF FinalIs

\* OnEmulationStateChanged (383-395, 844-850): the UI thread handles the
\* head state event with argument r and posts SetOptionsEnabled(!r) at the
\* back.  The
\* final options stay as they were: the posted lambda is now the last
\* options event, and a later state event still wins over it.
LEMMA ProcessState ==
  ASSUME NEW q \in Seq(Event), q # << >>, Head(q).kind = "state",
         NEW e \in Event, e.kind = "options", e.arg = ~Head(q).arg,
         NEW o \in BOOLEAN, NEW v \in BOOLEAN, FinalIs(q, o, v)
  PROVE  FinalIs(Append(Tail(q), e), o, v)
<1>1. /\ Len(Append(Tail(q), e)) = Len(q)
      /\ \A i \in 1..Len(q) - 1 : Append(Tail(q), e)[i] = q[i + 1]
      /\ Append(Tail(q), e)[Len(q)] = e
      /\ q[1].kind = "state" /\ q[1].arg \in BOOLEAN
  <2>1. q[1] \in Event
    OBVIOUS
  <2>2. q[1].arg \in BOOLEAN
    BY <2>1 DEF Event
  <2> QED
    BY <2>2
<1>2. CASE \E i \in 2..Len(q) :
             /\ q[i].kind = "state" /\ q[i].arg = ~v
             /\ \A j \in i + 1..Len(q) : q[j].kind # "state"
  <2>1. PICK i \in 2..Len(q) :
             /\ q[i].kind = "state" /\ q[i].arg = ~v
             /\ \A j \in i + 1..Len(q) : q[j].kind # "state"
    BY <1>2
  <2>2. /\ i - 1 \in 1..Len(Append(Tail(q), e))
        /\ Append(Tail(q), e)[i - 1].kind = "state"
        /\ Append(Tail(q), e)[i - 1].arg = ~v
        /\ \A j \in (i - 1) + 1..Len(Append(Tail(q), e)) :
             Append(Tail(q), e)[j].kind # "state"
    <3>1. \A j \in i..Len(q) - 1 : Append(Tail(q), e)[j].kind # "state"
      <4> SUFFICES ASSUME NEW j \in i..Len(q) - 1
                   PROVE  Append(Tail(q), e)[j].kind # "state"
        OBVIOUS
      <4>1. j \in 1..Len(q) - 1 /\ j + 1 \in i + 1..Len(q)
        OBVIOUS
      <4>2. Append(Tail(q), e)[j] = q[j + 1]
        BY <1>1, <4>1
      <4> QED
        BY <2>1, <4>1, <4>2
    <3>2. Append(Tail(q), e)[Len(q)].kind # "state"
      BY <1>1
    <3>3. \A j \in i..Len(q) : Append(Tail(q), e)[j].kind # "state"
      BY <3>1, <3>2
    <3>4. /\ Append(Tail(q), e)[i - 1] = q[i]
          /\ (i - 1) + 1 = i /\ i - 1 \in 1..Len(q)
      BY <1>1
    <3> QED
      BY <1>1, <2>1, <3>3, <3>4
  <2> QED
    BY <2>2 DEF FinalIs
<1>3. CASE ~\E i \in 2..Len(q) :
             /\ q[i].kind = "state" /\ q[i].arg = ~v
             /\ \A j \in i + 1..Len(q) : q[j].kind # "state"
  \* the head is a state event, so FinalIs holds by its first disjunct, and
  \* by <1>3 at the head
  <2>1. PICK i \in 1..Len(q) :
             /\ q[i].kind = "state" /\ q[i].arg = ~v
             /\ \A j \in i + 1..Len(q) : q[j].kind # "state"
    BY <1>1 DEF FinalIs
  <2>2. i = 1
    BY <1>3, <2>1
  <2>3. /\ Len(Append(Tail(q), e)) \in 1..Len(Append(Tail(q), e))
        /\ Append(Tail(q), e)[Len(Append(Tail(q), e))].kind = "options"
        /\ Append(Tail(q), e)[Len(Append(Tail(q), e))].arg = v
        /\ \A k \in 1..Len(Append(Tail(q), e)) :
             Append(Tail(q), e)[k].kind # "state"
    <3>1. \A k \in 1..Len(q) - 1 : Append(Tail(q), e)[k].kind # "state"
      <4> SUFFICES ASSUME NEW k \in 1..Len(q) - 1
                   PROVE  Append(Tail(q), e)[k].kind # "state"
        OBVIOUS
      <4>1. k + 1 \in i + 1..Len(q)
        BY <2>2
      <4>2. Append(Tail(q), e)[k] = q[k + 1]
        BY <1>1
      <4> QED
        BY <2>1, <4>1, <4>2
    <3>2. e.arg = v
      BY <1>1, <2>1, <2>2
    <3>3. \A k \in 1..Len(q) : Append(Tail(q), e)[k].kind # "state"
      BY <1>1, <3>1
    <3>4. /\ Len(Append(Tail(q), e)) = Len(q)
          /\ Len(q) \in 1..Len(q)
          /\ Append(Tail(q), e)[Len(q)] = e
      BY <1>1
    <3> QED
      BY <3>2, <3>3, <3>4
  <2> QED
    BY <2>3 DEF FinalIs
<1> QED
  BY <1>2, <1>3

\* SetOptionsEnabled's lambda (the one GameStatusChanged posts at 849):
\* handling the head options event with argument a sets the options to a,
\* and the final options stay as they were.
LEMMA ProcessOptions ==
  ASSUME NEW q \in Seq(Event), q # << >>, Head(q).kind = "options",
         NEW o \in BOOLEAN, NEW v \in BOOLEAN, FinalIs(q, o, v)
  PROVE  FinalIs(Tail(q), Head(q).arg, v)
<1>1. /\ Len(Tail(q)) = Len(q) - 1
      /\ \A i \in 1..Len(q) - 1 : Tail(q)[i] = q[i + 1]
      /\ q[1].kind = "options" /\ Head(q) = q[1]
  OBVIOUS
<1>2. CASE \E i \in 1..Len(q) :
             /\ q[i].kind = "state" /\ q[i].arg = ~v
             /\ \A j \in i + 1..Len(q) : q[j].kind # "state"
  <2>1. PICK i \in 1..Len(q) :
             /\ q[i].kind = "state" /\ q[i].arg = ~v
             /\ \A j \in i + 1..Len(q) : q[j].kind # "state"
    BY <1>2
  <2>2. /\ i - 1 \in 1..Len(Tail(q))
        /\ Tail(q)[i - 1].kind = "state" /\ Tail(q)[i - 1].arg = ~v
        /\ \A j \in (i - 1) + 1..Len(Tail(q)) : Tail(q)[j].kind # "state"
    BY <1>1, <2>1
  <2> QED
    BY <2>2 DEF FinalIs
<1>3. CASE /\ \A i \in 1..Len(q) : q[i].kind # "state"
           /\ \E i \in 1..Len(q) :
                /\ q[i].kind = "options" /\ q[i].arg = v
                /\ \A j \in i + 1..Len(q) : q[j].kind # "options"
  <2>1. PICK i \in 1..Len(q) :
             /\ q[i].kind = "options" /\ q[i].arg = v
             /\ \A j \in i + 1..Len(q) : q[j].kind # "options"
    BY <1>3
  <2>2. \A k \in 1..Len(Tail(q)) : Tail(q)[k].kind # "state"
    BY <1>1, <1>3
  <2>3. CASE i = 1
    <3>1. \A k \in 1..Len(Tail(q)) : Tail(q)[k].kind \notin {"state", "options"}
      BY <1>1, <2>1, <2>2, <2>3
    <3>2. Head(q).arg = v
      BY <1>1, <2>1, <2>3
    <3> QED
      BY <3>1, <3>2 DEF FinalIs
  <2>4. CASE i # 1
    <3>1. /\ i - 1 \in 1..Len(Tail(q))
          /\ Tail(q)[i - 1].kind = "options" /\ Tail(q)[i - 1].arg = v
          /\ \A j \in (i - 1) + 1..Len(Tail(q)) : Tail(q)[j].kind # "options"
      BY <1>1, <2>1, <2>4
    <3> QED
      BY <2>2, <3>1 DEF FinalIs
  <2> QED
    BY <2>3, <2>4
<1>4. CASE \A i \in 1..Len(q) : q[i].kind \notin {"state", "options"}
  BY <1>1, <1>4
<1> QED
  BY <1>2, <1>3, <1>4 DEF FinalIs

\* OnStart (509) disables the options while the core is not idle: setting
\* them to FALSE cannot change a final value of FALSE.
LEMMA OptionsOff ==
  ASSUME NEW q \in Seq(Event), NEW o \in BOOLEAN, FinalIs(q, o, FALSE)
  PROVE  FinalIs(q, FALSE, FALSE)
BY DEF FinalIs

-----------------------------------------------------------------------------
(* What the queue operations do to Pending.                                *)

\* Posting OnMsgStartGame's lambda or the Boot signal puts a start on its
\* way; so does the server's StartGame broadcast.
LEMMA PendingStarted ==
  ASSUME NEW q \in Seq(Event), NEW in \in Seq(Message)
  PROVE  /\ \A e \in Event : e.kind \in {"start", "boot"} =>
                               Pending(Append(q, e), in)
         /\ \A m \in Message : m.type = "start" => Pending(q, Append(in, m))
BY DEF Pending

\* Appending to either queue keeps a start on its way.
LEMMA PendingAppend ==
  ASSUME NEW q \in Seq(Event), NEW in \in Seq(Message), Pending(q, in)
  PROVE  /\ \A e \in Event : Pending(Append(q, e), in)
         /\ \A m \in Message : Pending(q, Append(in, m))
<1>1. CASE \E i \in 1..Len(q) : q[i].kind \in {"start", "boot"}
  BY <1>1 DEF Pending
<1>2. CASE \E i \in 1..Len(in) : in[i].type = "start"
  BY <1>2 DEF Pending
<1> QED
  BY <1>1, <1>2 DEF Pending

\* Handling a UI event that is no start and no boot, or a network message
\* that is no StartGame, keeps a start on its way.
LEMMA PendingTail ==
  ASSUME NEW q \in Seq(Event), NEW in \in Seq(Message), Pending(q, in)
  PROVE  /\ q # << >> /\ Head(q).kind \notin {"start", "boot"}
              => Pending(Tail(q), in)
         /\ in # << >> /\ Head(in).type # "start"
              => Pending(q, Tail(in))
<1>1. ASSUME q # << >>, Head(q).kind \notin {"start", "boot"}
      PROVE  Pending(Tail(q), in)
  <2>1. CASE \E i \in 1..Len(q) : q[i].kind \in {"start", "boot"}
    <3>1. PICK i \in 1..Len(q) : q[i].kind \in {"start", "boot"}
      BY <2>1
    <3>2. i # 1 /\ i - 1 \in 1..Len(Tail(q)) /\ Tail(q)[i - 1] = q[i]
      BY <1>1, <3>1
    <3> QED
      BY <3>1, <3>2 DEF Pending
  <2>2. CASE \E i \in 1..Len(in) : in[i].type = "start"
    BY <2>2 DEF Pending
  <2> QED
    BY <2>1, <2>2 DEF Pending
<1>2. ASSUME in # << >>, Head(in).type # "start"
      PROVE  Pending(q, Tail(in))
  <2>1. CASE \E i \in 1..Len(q) : q[i].kind \in {"start", "boot"}
    BY <2>1 DEF Pending
  <2>2. CASE \E i \in 1..Len(in) : in[i].type = "start"
    <3>1. PICK i \in 1..Len(in) : in[i].type = "start"
      BY <2>2
    <3>2. i # 1 /\ i - 1 \in 1..Len(Tail(in)) /\ Tail(in)[i - 1] = in[i]
      BY <1>2, <3>1
    <3> QED
      BY <3>1, <3>2 DEF Pending
  <2> QED
    BY <2>1, <2>2 DEF Pending
<1> QED
  BY <1>1, <1>2

-----------------------------------------------------------------------------
(* OInv is inductive.                                                      *)

\* Every step of the dialog, the server and the core preserves OInv.
LEMMA OInvStep == TypeOK /\ OInv /\ [Next]_vars => OInv'
<1> SUFFICES ASSUME TypeOK, OInv, [Next]_vars PROVE OInv'
  OBVIOUS
<1>0. /\ uiQueue \in Seq(Event) /\ inbox \in Seq(Message)
      /\ optionsEnabled \in BOOLEAN /\ 0 \in 0..MaxGames
  BY MaxGamesAssumption DEF TypeOK
<1>1. CASE NetStartGame
  <2>0. inbox # << >>
    BY <1>1 DEF NetStartGame
  <2>1. /\ inbox # << >> /\ Head(inbox) \in Message
        /\ Head(inbox).game \in 0..MaxGames
    <3>1. Head(inbox) \in Message
      BY <1>0, <2>0, HeadType
    <3>2. Head(inbox).game \in 0..MaxGames
      BY <3>1, MaxGamesAssumption DEF Message, GameId
    <3> QED
      BY <2>0, <3>1, <3>2
  <2>2. Ev("start", FALSE, Head(inbox).game) \in Event
    BY <2>1, EvType
  <2>3. /\ uiQueue' = Append(uiQueue, Ev("start", FALSE, Head(inbox).game))
        /\ inbox' = Tail(inbox) /\ Tail(inbox) \in Seq(Message)
        /\ UNCHANGED <<core, optionsEnabled>>
    BY <1>0, <1>1, <2>1 DEF NetStartGame
  <2>4. core'.state # "idle" => FinalIs(uiQueue', optionsEnabled', FALSE)
    BY <1>0, <2>2, <2>3, AppendOther DEF OInv, Ev
  <2>5. Pending(uiQueue', inbox')
    BY <1>0, <2>2, <2>3, PendingStarted DEF Ev
  <2> QED
    BY <2>4, <2>5 DEF OInv
<1>2. CASE StopGame
  <2>1. /\ inbox # << >> /\ Head(inbox).type = "stop"
        /\ inbox' = Tail(inbox)
        /\ UNCHANGED <<core, optionsEnabled>>
    BY <1>2 DEF StopGame
  <2>0. inbox' \in Seq(Message)
    BY <1>0, <2>1, HeadType
  <2>2. Ev("stop", FALSE, 0) \in Event
    BY <1>0, EvType
  <2>3. \/ uiQueue' = uiQueue
        \/ uiQueue' = Append(uiQueue, Ev("stop", FALSE, 0))
    BY <1>2 DEF StopGame
  <2>4. \A o, v \in BOOLEAN :
          FinalIs(uiQueue, o, v) => FinalIs(uiQueue', o, v)
    BY <1>0, <2>2, <2>3, AppendOther DEF Ev
  <2>5. Pending(uiQueue, inbox) => Pending(uiQueue', inbox')
    <3>1. Pending(uiQueue, inbox) => Pending(uiQueue, inbox')
      BY <1>0, <2>1, PendingTail
    <3>2. Pending(uiQueue, inbox') => Pending(uiQueue', inbox')
      BY <1>0, <2>0, <2>2, <2>3, PendingAppend
    <3> QED
      BY <3>1, <3>2
  <2> QED
    BY <1>0, <2>1, <2>4, <2>5 DEF OInv
<1>3. CASE BootGame
  <2>1. /\ uiQueue # << >> /\ Head(uiQueue) \in Event
        /\ Head(uiQueue).kind = "start"
        /\ Tail(uiQueue) \in Seq(Event)
    BY <1>0, <1>3, HeadType DEF BootGame, UIHead
  <2>2. Ev("boot", FALSE, Head(uiQueue).game) \in Event
    BY <2>1, EvType DEF Event
  <2>3. /\ uiQueue' = Append(Tail(uiQueue), Ev("boot", FALSE, Head(uiQueue).game))
        /\ UNCHANGED <<core, optionsEnabled, inbox>>
    BY <1>3 DEF BootGame
  <2>4. core'.state # "idle" => FinalIs(uiQueue', optionsEnabled', FALSE)
    BY <1>0, <2>1, <2>2, <2>3, TailOther, AppendOther DEF OInv, Ev
  <2>5. Pending(uiQueue', inbox')
    BY <1>0, <2>1, <2>2, <2>3, PendingStarted DEF Ev
  <2> QED
    BY <2>4, <2>5 DEF OInv
<1>4. CASE BootSignal
  <2>1. /\ uiQueue # << >> /\ Head(uiQueue) \in Event
        /\ Head(uiQueue).kind = "boot"
        /\ Tail(uiQueue) \in Seq(Event)
    BY <1>0, <1>4, HeadType DEF BootSignal, UIHead
  <2>2. UNCHANGED <<optionsEnabled, inbox>>
    BY <1>4 DEF BootSignal
  <2>3. CASE core.state = "idle"
    <3>0. core' = [state |-> "running", game |-> Head(uiQueue).game]
      BY <1>4, <2>3 DEF BootSignal
    <3>1. /\ core'.state = "running"
          /\ uiQueue' = Append(Tail(uiQueue),
                               Ev("state", TRUE, Head(uiQueue).game))
      BY <1>4, <2>3, <3>0 DEF BootSignal
    <3>2. Ev("state", TRUE, Head(uiQueue).game) \in Event
      BY <2>1, EvType DEF Event
    <3>3. FinalIs(uiQueue', optionsEnabled', FALSE)
      <4>1. FinalIs(uiQueue', optionsEnabled', ~TRUE)
        BY <1>0, <2>1, <2>2, <3>1, <3>2, AppendState DEF Ev
      <4> QED
        BY <4>1
    <3> QED
      BY <3>1, <3>3 DEF OInv
  <2>4. CASE core.state # "idle"
    <3>1. uiQueue' = Tail(uiQueue) /\ core' = core
      BY <1>4, <2>4 DEF BootSignal
    <3> QED
      BY <1>0, <2>1, <2>2, <2>4, <3>1, TailOther DEF OInv
  <2> QED
    BY <2>3, <2>4
<1>5. CASE StopSignal
  <2>1. /\ uiQueue # << >> /\ Head(uiQueue).kind = "stop"
        /\ uiQueue' = Tail(uiQueue)
        /\ (core'.state = "idle") = (core.state = "idle")
        /\ UNCHANGED <<optionsEnabled, inbox>>
    BY <1>5 DEF StopSignal, UIHead
  <2>2. \A o, v \in BOOLEAN :
          FinalIs(uiQueue, o, v) => FinalIs(uiQueue', o, v)
    BY <1>0, <2>1, TailOther
  <2>3. Pending(uiQueue, inbox) => Pending(uiQueue', inbox')
    BY <1>0, <2>1, PendingTail
  <2> QED
    BY <1>0, <2>1, <2>2, <2>3 DEF OInv
<1>6. CASE OnEmulationStateChanged
  <2>1. /\ uiQueue # << >> /\ Head(uiQueue) \in Event
        /\ Head(uiQueue).kind = "state"
        /\ Tail(uiQueue) \in Seq(Event)
    BY <1>0, <1>6, HeadType DEF OnEmulationStateChanged, UIHead
  <2>2. /\ Ev("options", ~Head(uiQueue).arg, 0) \in Event
        /\ Ev("options", ~Head(uiQueue).arg, 0).kind = "options"
        /\ Ev("options", ~Head(uiQueue).arg, 0).arg = ~Head(uiQueue).arg
    BY <1>0, <2>1, EvType DEF Event, Ev
  <2>3. /\ uiQueue' = Append(Tail(uiQueue), Ev("options", ~Head(uiQueue).arg, 0))
        /\ UNCHANGED <<core, optionsEnabled>>
    BY <1>6 DEF OnEmulationStateChanged, GameStatusChanged
  <2>4. \/ inbox' = inbox
        \/ \E m \in Message : inbox' = Append(inbox, m)
    \* the stop broadcast of ServerStopGame, when the halt was unasked
    <3>1. CASE session # 0 /\ ~Head(uiQueue).arg /\ ~gotStopRequest
      <4>1. [type |-> "stop", game |-> session] \in Message
        BY <3>1 DEF TypeOK, Message, GameId
      <4> QED
        BY <1>6, <3>1, <4>1 DEF OnEmulationStateChanged, GameStatusChanged,
                                ServerStopGame
    <3>2. CASE ~(session # 0 /\ ~Head(uiQueue).arg /\ ~gotStopRequest)
      BY <1>6, <3>2 DEF OnEmulationStateChanged, GameStatusChanged,
                        ServerStopGame
    <3> QED
      BY <3>1, <3>2
  <2>5. \A o, v \in BOOLEAN :
          FinalIs(uiQueue, o, v) => FinalIs(uiQueue', o, v)
    BY <1>0, <2>1, <2>2, <2>3, ProcessState
  <2>6. Pending(uiQueue, inbox) => Pending(uiQueue', inbox')
    <3>1. Pending(uiQueue, inbox) => Pending(Tail(uiQueue), inbox)
      BY <1>0, <2>1, PendingTail
    <3>2. Pending(Tail(uiQueue), inbox) => Pending(uiQueue', inbox)
      BY <1>0, <2>1, <2>2, <2>3, PendingAppend
    <3>3. Pending(uiQueue', inbox) => Pending(uiQueue', inbox')
      <4>1. uiQueue' \in Seq(Event)
        BY <2>1, <2>2, <2>3
      <4> QED
        BY <1>0, <2>4, <4>1, PendingAppend
    <3> QED
      BY <3>1, <3>2, <3>3
  <2> QED
    BY <1>0, <2>3, <2>5, <2>6 DEF OInv
<1>7. CASE SetOptionsEnabled
  <2>1. /\ uiQueue # << >> /\ Head(uiQueue).kind = "options"
        /\ uiQueue' = Tail(uiQueue)
        /\ optionsEnabled' = Head(uiQueue).arg
        /\ UNCHANGED <<core, inbox>>
    BY <1>7 DEF SetOptionsEnabled, UIHead
  <2>2. \A o, v \in BOOLEAN :
          FinalIs(uiQueue, o, v) => FinalIs(uiQueue', optionsEnabled', v)
    BY <1>0, <2>1, ProcessOptions
  <2>3. Pending(uiQueue, inbox) => Pending(uiQueue', inbox')
    BY <1>0, <2>1, PendingTail
  <2> QED
    BY <1>0, <2>1, <2>2, <2>3 DEF OInv
<1>8. CASE OnStart
  <2>1. /\ optionsEnabled' = FALSE
        /\ UNCHANGED <<core, uiQueue>>
        /\ inbox' = Append(inbox, [type |-> "start", game |-> started + 1])
    BY <1>8 DEF OnStart, ServerStartGame
  <2>2. [type |-> "start", game |-> started + 1] \in Message
    BY <1>8, MaxGamesAssumption DEF OnStart, TypeOK, Message, GameId
  <2>3. core'.state # "idle" => FinalIs(uiQueue', optionsEnabled', FALSE)
    BY <1>0, <2>1, OptionsOff DEF OInv
  <2>4. Pending(uiQueue', inbox')
    BY <1>0, <2>1, <2>2, PendingStarted
  <2> QED
    BY <2>3, <2>4 DEF OInv
<1>9. CASE RemoteStart
  <2>1. /\ UNCHANGED <<core, uiQueue, optionsEnabled>>
        /\ inbox' = Append(inbox, [type |-> "start", game |-> started + 1])
    BY <1>9 DEF RemoteStart, ServerStartGame
  <2>2. [type |-> "start", game |-> started + 1] \in Message
    BY <1>9, MaxGamesAssumption DEF RemoteStart, TypeOK, Message, GameId
  <2>3. Pending(uiQueue', inbox')
    BY <1>0, <2>1, <2>2, PendingStarted
  <2> QED
    BY <2>1, <2>3 DEF OInv
<1>10. CASE RemoteStop
  <2>1. /\ UNCHANGED <<core, uiQueue, optionsEnabled>>
        /\ inbox' = Append(inbox, [type |-> "stop", game |-> session])
    BY <1>10 DEF RemoteStop, ServerStopGame
  <2>2. [type |-> "stop", game |-> session] \in Message
    BY <1>10 DEF RemoteStop, TypeOK, Message, GameId
  <2>3. Pending(uiQueue, inbox) => Pending(uiQueue', inbox')
    BY <1>0, <2>1, <2>2, PendingAppend
  <2> QED
    BY <2>1, <2>3 DEF OInv
<1>11. ASSUME NEW g \in 0..MaxGames,
              core' = [state |-> "idle", game |-> 0],
              uiQueue' = Append(uiQueue, Ev("state", FALSE, g)),
              UNCHANGED optionsEnabled
       PROVE  OInv'
  \* the core halts or shuts down: EmulationStateChanged(Uninitialized) is
  \* posted, and the final options become TRUE
  <2>1. /\ Ev("state", FALSE, g) \in Event
        /\ Ev("state", FALSE, g).kind = "state"
        /\ Ev("state", FALSE, g).arg = FALSE
    BY EvType DEF Ev
  <2>2. FinalIs(uiQueue', optionsEnabled', ~FALSE)
    BY <1>0, <1>11, <2>1, AppendState
  <2> QED
    BY <1>11, <2>2 DEF OInv
<1>12. CASE CoreShutdown
  <2>1. core.game \in 0..MaxGames
    BY DEF TypeOK, CoreState
  <2> QED
    BY <1>12, <1>11, <2>1 DEF CoreShutdown
<1>13. CASE CoreHaltsUnexpectedly
  <2>1. core.game \in 0..MaxGames
    BY DEF TypeOK, CoreState
  <2> QED
    BY <1>13, <1>11, <2>1 DEF CoreHaltsUnexpectedly
<1>14. CASE UNCHANGED vars
  BY <1>14 DEF vars, dialogVars, OInv, FinalIs, Pending
<1> QED
  BY <1>1, <1>2, <1>3, <1>4, <1>5, <1>6, <1>7, <1>8, <1>9, <1>10, <1>12,
     <1>13, <1>14 DEF Next, Dialog, Environment

\* OptionsFollowCore holds in every reachable state, for every bound on the
\* number of games and for both the host's dialog and a player's: whenever
\* neither the network thread nor the Qt event loop has anything queued,
\* the options are enabled exactly when the emulation core is idle, however
\* the posted SetOptionsEnabled lambdas, OnStart's direct call and the
\* core's state changes interleaved.
THEOREM OptionsFollowCoreHolds == Spec => []OptionsFollowCore
<1>1. Init => TypeOK /\ OInv
  <2> SUFFICES ASSUME Init PROVE TypeOK /\ OInv
    OBVIOUS
  <2>1. TypeOK
    BY MaxGamesAssumption DEF Init, TypeOK, CoreState
  <2>2. FinalIs(uiQueue, optionsEnabled, TRUE)
    BY DEF Init, FinalIs
  <2> QED
    BY <2>1, <2>2 DEF Init, OInv
<1>2. TypeOK /\ OInv /\ [Next]_vars => TypeOK' /\ OInv'
  BY TypeStep, OInvStep
<1>3. TypeOK /\ OInv => OptionsFollowCore
  <2> SUFFICES ASSUME TypeOK, OInv, inbox = << >>, uiQueue = << >>
               PROVE  optionsEnabled <=> core.state = "idle"
    BY DEF OptionsFollowCore
  <2>1. ~Pending(uiQueue, inbox)
    BY DEF Pending
  <2>2. \A v \in BOOLEAN : FinalIs(uiQueue, optionsEnabled, v)
                             => optionsEnabled = v
    BY DEF FinalIs
  <2>3. optionsEnabled \in BOOLEAN
    BY DEF TypeOK
  <2> QED
    BY <2>1, <2>2, <2>3 DEF OInv
<1> QED
  BY <1>1, <1>2, <1>3, PTL DEF Spec

====
