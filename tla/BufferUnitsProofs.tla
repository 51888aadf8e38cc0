------------------------- MODULE BufferUnitsProofs -------------------------
(***************************************************************************)
(* Type correctness of the buffer boxes, for every set of typed values,    *)
(* remote minimums and queue bound the assumption allows.                  *)
(*                                                                         *)
(* TypeOK alone is not inductive: it lets a buffer be negative, and the    *)
(* setValue lambda of a negative buffer would put a negative value in a    *)
(* box.  The strengthening says that every buffer, and every buffer a      *)
(* message or a lambda carries, is a natural number: the typed values and  *)
(* the remote minimums are, the conversion (int)(value * 100) of a box     *)
(* value is (a Lossy value is not a multiple of 100, so it is at least 1), *)
(* and rounding a box value to whole frames keeps it natural.              *)
(***************************************************************************)
EXTENDS BufferUnits, TLAPS

\* A message or lambda whose buffer is a natural number.
NatMessage == [k : {"min", "local"}, n : Nat] \cup [k : {"hia", "game"}, on : BOOLEAN]

\* The writes a handler threads through: natural buffers, queues of
\* natural messages.
BufferState == [buf : [Boxes -> Nat], inbox : Seq(NatMessage), ui : Seq(NatMessage)]

\* The inductive strengthening of TypeOK.
IInv == TypeOK /\ Current \in BufferState

-----------------------------------------------------------------------------
(* The conversions keep buffers and box values natural.                    *)

\* QDoubleSpinBox's rounding of a natural value is natural.
LEMMA RoundedNat ==
  ASSUME NEW v \in Nat, NEW d \in {0, 2}
  PROVE  Rounded(v, d) \subseteq Nat
<1>1. v % 100 = 50 => v - 50 \in Nat
  OBVIOUS
<1> QED
  BY <1>1 DEF Rounded

\* (int)(value * 100) and (int)value of a natural box value are natural.
LEMMA ToBufferNat ==
  ASSUME NEW v \in Nat, NEW p \in BOOLEAN
  PROVE  ToBuffer(v, p) \in Nat
<1>1. v \in Lossy => v - 1 \in Nat
  <2>1. v \in Lossy => v % 100 # 0
    BY BufferUnitsAssumption
  <2> QED
    BY <2>1
<1> QED
  BY <1>1 DEF ToBuffer

\* The rounded values of both boxes form a natural box function.
LEMMA RoundingsNat ==
  ASSUME NEW d \in {0, 2}, box \in [Boxes -> Nat]
  PROVE  Roundings(d) \subseteq [Boxes -> Nat]
<1>1. Rounded(box["min"], d) \subseteq Nat /\ Rounded(box["local"], d) \subseteq Nat
  BY RoundedNat DEF Boxes
<1> QED
  BY <1>1 DEF Roundings, Boxes

-----------------------------------------------------------------------------
(* The handlers' writes stay within BufferState.                          *)

\* The server's broadcast of a natural minimum keeps the writes natural.
LEMMA ServerAdjustMinimumType ==
  ASSUME NEW x \in Nat, NEW s \in BufferState
  PROVE  ServerAdjustMinimum(x, s) \in BufferState
<1>1. [k |-> "min", n |-> x] \in NatMessage
  BY DEF NatMessage
<1>2. Append(s.inbox, [k |-> "min", n |-> x]) \in Seq(NatMessage)
  BY <1>1 DEF BufferState
<1> QED
  BY <1>2 DEF ServerAdjustMinimum, BufferState

\* OnLocalPadBufferChanged with a natural buffer keeps the writes natural.
LEMMA OnLocalPadBufferChangedType ==
  ASSUME NEW x \in Nat, NEW s \in BufferState
  PROVE  OnLocalPadBufferChanged(x, s) \in BufferState
<1>1. [k |-> "local", n |-> x] \in NatMessage
  BY DEF NatMessage
<1>2. [s.buf EXCEPT !["local"] = x] \in [Boxes -> Nat]
  BY DEF BufferState, Boxes
<1>3. Append(s.ui, [k |-> "local", n |-> x]) \in Seq(NatMessage)
  BY <1>1 DEF BufferState
<1> QED
  BY <1>2, <1>3 DEF OnLocalPadBufferChanged, BufferState

\* A valueChanged lambda for a natural box value keeps the writes natural.
LEMMA ValueChangedType ==
  ASSUME NEW b \in Boxes, NEW v \in Nat, NEW p \in BOOLEAN,
         NEW s \in BufferState
  PROVE  ValueChanged(b, v, p, s) \in BufferState
<1>1. ToBuffer(v, p) \in Nat
  BY ToBufferNat
<1> QED
  BY <1>1, ServerAdjustMinimumType, OnLocalPadBufferChangedType
  DEF ValueChanged

\* setDecimals, which may run both boxes' valueChanged lambdas, keeps the
\* writes natural.
LEMMA DecimalsChangedType ==
  ASSUME NEW r \in [Boxes -> Nat], NEW p \in BOOLEAN, NEW s \in BufferState
  PROVE  DecimalsChanged(r, p, s) \in BufferState
<1>1. r["min"] \in Nat /\ r["local"] \in Nat /\ "min" \in Boxes /\ "local" \in Boxes
  BY DEF Boxes
<1>2. (IF r["min"] # box["min"] THEN ValueChanged("min", r["min"], p, s) ELSE s)
        \in BufferState
  BY <1>1, ValueChangedType
<1> QED
  BY <1>1, <1>2, ValueChangedType DEF DecimalsChanged
\* The state the handlers write is a BufferState exactly when the buffers
\* are natural and both queues carry natural buffers.
LEMMA CurrentType ==
  /\ Current \in BufferState <=>
       /\ size \in [Boxes -> Nat]
       /\ netInbox \in Seq(NatMessage) /\ uiQueue \in Seq(NatMessage)
  /\ Current' \in BufferState <=>
       /\ size' \in [Boxes -> Nat]
       /\ netInbox' \in Seq(NatMessage) /\ uiQueue' \in Seq(NatMessage)
BY DEF Current, BufferState

\* A natural message is a message.
LEMMA NatMessageType ==
  /\ NatMessage \subseteq Message
  /\ Seq(NatMessage) \subseteq Seq(Message)
<1>1. NatMessage \subseteq Message
  BY DEF NatMessage, Message
<1> QED
  BY <1>1

\* Committing a BufferState writes natural buffers and natural queues.
LEMMA CommitType ==
  ASSUME NEW s \in BufferState, Commit(s)
  PROVE  /\ Current' \in BufferState
         /\ size' \in [Boxes -> Int]
         /\ netInbox' \in Seq(Message) /\ uiQueue' \in Seq(Message)
<1>1. /\ size' \in [Boxes -> Nat]
      /\ netInbox' \in Seq(NatMessage) /\ uiQueue' \in Seq(NatMessage)
  BY DEF Commit, BufferState
<1> QED
  BY <1>1, CurrentType, NatMessageType

\* The head of a queue of natural messages: a buffer message carries a
\* natural buffer, a flag message a Boolean.
LEMMA HeadNat ==
  ASSUME NEW q \in Seq(NatMessage), q # << >>
  PROVE  /\ Head(q) \in NatMessage /\ Tail(q) \in Seq(NatMessage)
         /\ Head(q).k \in Boxes => Head(q).n \in Nat
         /\ Head(q).k \in {"hia", "game"} => Head(q).on \in BOOLEAN
<1>1. Head(q) \in NatMessage /\ Tail(q) \in Seq(NatMessage)
  OBVIOUS
<1> QED
  BY <1>1 DEF NatMessage, Boxes

\* IInv of the next state, from the type of each primed variable.
LEMMA IInvPrime ==
  ASSUME Current' \in BufferState, box' \in [Boxes -> Nat],
         decimals' \in {0, 2}, hia' \in BOOLEAN, poll' \in BOOLEAN,
         warningHidden' \in BOOLEAN, enabled' \in BOOLEAN,
         requested' \in [Boxes -> Int], hosting' \in BOOLEAN
  PROVE  IInv'
<1>1. /\ size' \in [Boxes -> Int]
      /\ netInbox' \in Seq(Message) /\ uiQueue' \in Seq(Message)
  BY CurrentType, NatMessageType
<1> QED
  BY <1>1 DEF IInv, TypeOK

-----------------------------------------------------------------------------
(* IInv is inductive.                                                      *)

\* Every step of the UI thread, the network thread and the server keeps
\* the variables typed and every buffer natural.
LEMMA IInvStep == IInv /\ [Next]_vars => IInv'
<1> SUFFICES ASSUME IInv, [Next]_vars PROVE IInv'
  OBVIOUS
<1>0. /\ TypeOK /\ Current \in BufferState
      /\ size \in [Boxes -> Nat]
      /\ netInbox \in Seq(NatMessage) /\ uiQueue \in Seq(NatMessage)
      /\ hosting' = hosting /\ hosting \in BOOLEAN
  BY CurrentType DEF IInv, Next, vars, TypeOK
<1>1. ASSUME NEW b \in Boxes, NEW v \in TypedValues, UserEdit(b, v)
      PROVE  IInv'
  <2>1. v \in Nat
    BY BufferUnitsAssumption
  <2>2. Current' \in BufferState
    BY <1>0, <1>1, <2>1, ValueChangedType, CommitType DEF UserEdit, TypeOK
  <2>3. /\ box' \in [Boxes -> Nat]
        /\ requested' \in [Boxes -> Int]
    BY <1>0, <1>1, <2>1 DEF UserEdit, TypeOK, SpecBuffer
  <2> QED
    BY <1>0, <1>1, <2>2, <2>3, IInvPrime DEF UserEdit, TypeOK, Hidden
<1>2. CASE ClickWarning
  <2>1. size["min"] \in Nat
    BY <1>0 DEF Boxes
  <2>2. Current' \in BufferState
    BY <1>0, <1>2, <2>1, OnLocalPadBufferChangedType, CommitType DEF ClickWarning
  <2>3. requested' \in [Boxes -> Int]
    BY <1>0, <1>2, <2>1 DEF ClickWarning, TypeOK, Boxes
  <2> QED
    BY <1>0, <1>2, <2>2, <2>3, IInvPrime DEF ClickWarning, TypeOK, Hidden
<1>3. CASE ApplySetValue
  <2>1. /\ uiQueue # << >> /\ Head(uiQueue).k \in Boxes
        /\ Head(uiQueue).n \in Nat
        /\ Tail(uiQueue) \in Seq(NatMessage)
    BY <1>0, <1>3, HeadNat DEF ApplySetValue
  <2>2. Rounded(ToBox(Head(uiQueue).n, poll), decimals) \subseteq Nat
    <3>1. ToBox(Head(uiQueue).n, poll) \in Nat
      BY <2>1 DEF ToBox
    <3> QED
      BY <1>0, <3>1, RoundedNat DEF TypeOK
  <2>3. box' \in [Boxes -> Nat]
    BY <1>0, <1>3, <2>1, <2>2 DEF ApplySetValue, TypeOK
  <2>4. Current' \in BufferState
    BY <1>0, <1>3, <2>1, CurrentType DEF ApplySetValue
  <2> QED
    BY <1>0, <1>3, <2>3, <2>4, IInvPrime DEF ApplySetValue, TypeOK
<1>4. CASE ApplyAuthority
  <2>1. Current' \in BufferState
    BY <1>0, <1>4, HeadNat, CurrentType DEF ApplyAuthority
  <2> QED
    BY <1>0, <1>4, <2>1, IInvPrime DEF ApplyAuthority, TypeOK
<1>5. CASE ApplyChangeGame
  <2> DEFINE p == Head(uiQueue).on
             d == Decimals(p, hia)
             s0 == [Current EXCEPT !.ui = Tail(@)]
  <2>1. /\ uiQueue # << >> /\ Head(uiQueue).k = "game"
        /\ p \in BOOLEAN /\ Tail(uiQueue) \in Seq(NatMessage)
    BY <1>0, <1>5, HeadNat DEF ApplyChangeGame
  <2>2. s0 \in BufferState
    BY <1>0, <2>1 DEF Current, BufferState
  <2>3. d \in {0, 2}
    BY DEF Decimals
  <2>4. PICK r \in Roundings(d) :
          LET s1 == DecimalsChanged(r, p, s0)
              s2 == OnLocalPadBufferChanged(IF p THEN 150 ELSE 6, s1)
          IN  /\ poll' = p
              /\ decimals' = d
              /\ box' = r
              /\ Commit(IF hosting THEN ServerAdjustMinimum(0, s2) ELSE s2)
    BY <1>5 DEF ApplyChangeGame
  <2>5. r \in [Boxes -> Nat]
    BY <1>0, <2>3, RoundingsNat DEF TypeOK
  <2>6. DecimalsChanged(r, p, s0) \in BufferState
    BY <2>1, <2>2, <2>5, DecimalsChangedType
  <2>7. OnLocalPadBufferChanged(IF p THEN 150 ELSE 6, DecimalsChanged(r, p, s0))
          \in BufferState
    BY <2>6, OnLocalPadBufferChangedType
  <2>8. Current' \in BufferState
    BY <2>4, <2>7, ServerAdjustMinimumType, CommitType
  <2>9. requested' \in [Boxes -> Int]
    BY <1>5 DEF ApplyChangeGame, NoRequest
  <2> QED
    BY <1>0, <1>5, <2>1, <2>3, <2>4, <2>5, <2>8, <2>9, IInvPrime
    DEF ApplyChangeGame, TypeOK, Hidden
<1>6. CASE NetMinimumChanged
  <2>1. /\ netInbox # << >> /\ Head(netInbox).k = "min"
        /\ Head(netInbox).n \in Nat
        /\ Tail(netInbox) \in Seq(NatMessage)
    BY <1>0, <1>6, HeadNat DEF NetMinimumChanged, Boxes
  <2>2. [k |-> "min", n |-> Head(netInbox).n] \in NatMessage
    BY <2>1 DEF NatMessage
  <2>3. /\ size' \in [Boxes -> Nat]
        /\ netInbox' \in Seq(NatMessage) /\ uiQueue' \in Seq(NatMessage)
    BY <1>0, <1>6, <2>1, <2>2 DEF NetMinimumChanged, Boxes
  <2> QED
    BY <1>0, <1>6, <2>3, CurrentType, IInvPrime
    DEF NetMinimumChanged, TypeOK, Hidden
<1>7. CASE NetAuthorityChanged
  <2> DEFINE a == Head(netInbox).on
             d == Decimals(poll, a)
             s0 == [Current EXCEPT !.inbox = Tail(@),
                                   !.ui = Append(@, [k |-> "hia", on |-> a])]
  <2>1. /\ netInbox # << >> /\ Head(netInbox).k = "hia"
        /\ a \in BOOLEAN /\ Tail(netInbox) \in Seq(NatMessage)
    BY <1>0, <1>7, HeadNat DEF NetAuthorityChanged
  <2>2. [k |-> "hia", on |-> a] \in NatMessage
    BY <2>1 DEF NatMessage
  <2>3. s0 \in BufferState
    <3>1. Append(uiQueue, [k |-> "hia", on |-> a]) \in Seq(NatMessage)
      BY <1>0, <2>2
    <3> QED
      BY <1>0, <2>1, <3>1 DEF Current, BufferState
  <2>4. d \in {0, 2}
    BY DEF Decimals
  <2>5. PICK r \in Roundings(d) :
          /\ box' = r
          /\ Commit(DecimalsChanged(r, poll, s0))
    BY <1>7 DEF NetAuthorityChanged
  <2>6. r \in [Boxes -> Nat]
    BY <1>0, <2>4, RoundingsNat DEF TypeOK
  <2>7. Current' \in BufferState
    BY <1>0, <2>3, <2>5, <2>6, DecimalsChangedType, CommitType DEF TypeOK
  <2> QED
    BY <1>0, <1>7, <2>1, <2>4, <2>5, <2>6, <2>7, IInvPrime
    DEF NetAuthorityChanged, TypeOK, Hidden
<1>8. CASE NetChangeGame
  <2>1. /\ netInbox # << >>
        /\ Head(netInbox) \in NatMessage /\ Tail(netInbox) \in Seq(NatMessage)
    BY <1>0, <1>8, HeadNat DEF NetChangeGame
  <2>2. Current' \in BufferState
    BY <1>0, <1>8, <2>1, CurrentType DEF NetChangeGame
  <2> QED
    BY <1>0, <1>8, <2>2, IInvPrime DEF NetChangeGame, TypeOK
<1>9. ASSUME NEW m \in NatMessage,
             netInbox' = Append(netInbox, m),
             UNCHANGED <<box, decimals, size, hia, poll, warningHidden, enabled,
                         uiQueue, requested>>
      PROVE  IInv'
  \* the server sends a message
  <2>1. Current' \in BufferState
    BY <1>0, <1>9, CurrentType
  <2> QED
    BY <1>0, <1>9, <2>1, IInvPrime DEF TypeOK
<1>10. ASSUME NEW p \in BOOLEAN, ChangeGame(p) PROVE IInv'
  <2>1. [k |-> "game", on |-> p] \in NatMessage
    BY DEF NatMessage
  <2> QED
    BY <1>9, <1>10, <2>1 DEF ChangeGame
<1>11. ASSUME NEW a \in Authority, SetHostInputAuthority(a) PROVE IInv'
  <2>1. [k |-> "hia", on |-> a] \in NatMessage
    BY BufferUnitsAssumption DEF NatMessage
  <2> QED
    BY <1>9, <1>11, <2>1 DEF SetHostInputAuthority
<1>12. ASSUME NEW n \in RemoteValues, RemoteMinimumChanged(n) PROVE IInv'
  <2>1. [k |-> "min", n |-> n] \in NatMessage
    BY BufferUnitsAssumption DEF NatMessage
  <2> QED
    BY <1>9, <1>12, <2>1 DEF RemoteMinimumChanged
<1>13. CASE UNCHANGED vars
  BY <1>0, <1>13 DEF vars, IInv, TypeOK, Current
<1> QED
  BY <1>1, <1>2, <1>3, <1>4, <1>5, <1>6, <1>7, <1>8, <1>10, <1>11, <1>12,
     <1>13 DEF Next

\* The dialog starts with natural buffers and empty queues.
LEMMA InitIInv == Init => IInv
<1> SUFFICES ASSUME Init PROVE IInv
  OBVIOUS
<1>1. TypeOK
  <2>1. /\ box \in [Boxes -> Nat] /\ size \in [Boxes -> Int]
        /\ requested \in [Boxes -> Int]
    BY DEF Init, NoRequest
  <2>2. decimals \in {0, 2}
    BY DEF Init, Decimals
  <2>3. netInbox \in Seq(Message) /\ uiQueue \in Seq(Message)
    BY DEF Init
  <2> QED
    BY <2>1, <2>2, <2>3 DEF Init, TypeOK
<1>2. Current \in BufferState
  BY DEF Init, Current, BufferState, Boxes
<1> QED
  BY <1>1, <1>2 DEF IInv

\* The buffer boxes keep their types in every reachable state, for every
\* choice of typed values, remote minimums and queue bound: each box shows
\* a natural value, each buffer is an integer (a natural one, by IInv), and
\* every message and lambda in flight is well formed, however the UI
\* thread's edits, the network thread's handlers and the server interleave.
THEOREM TypeCorrect == Spec => []TypeOK
<1>1. Init => IInv
  BY InitIInv
<1>2. IInv /\ [Next]_vars => IInv'
  BY IInvStep
<1>3. IInv => TypeOK
  BY DEF IInv
<1> QED
  BY <1>1, <1>2, <1>3, PTL DEF Spec

====
