------------------------ MODULE BufferUnitsEchoProofs ------------------------
(***************************************************************************)
(* EchoesBufferWrites, for every value of the constants, host input        *)
(* authority on or off.                                                    *)
(*                                                                         *)
(* A handler threads its writes through a record s (Current, Commit).  The *)
(* argument follows the record: EchoKept(s0, s) says that every buffer s   *)
(* has changed since s0 is the one the last lambda s queued for its box    *)
(* carries.  It holds for s = s0, and each call a handler makes keeps it:  *)
(* OnLocalPadBufferChanged writes the local buffer and appends its         *)
(* lambda, the server's broadcast writes no buffer, and a valueChanged     *)
(* lambda, or setDecimals running two of them, is made of these calls.     *)
(* Each action starts its record from the current buffers, so the buffers  *)
(* it commits that differ from the old ones are echoed last.               *)
(***************************************************************************)
EXTENDS BufferUnitsDisplayProofs

\* Every buffer of s that differs from s0's is the last one s.ui queues
\* for its box.
EchoKept(s0, s) ==
  \A b \in Boxes : s.buf[b] # s0.buf[b] => LastIs(s.ui, b, s.buf[b])

\* The step relation EchoesBufferWrites constrains.
Echoed == \A b \in Boxes : size'[b] # size[b] => LastIs(uiQueue', b, size'[b])

-----------------------------------------------------------------------------
(* The calls a handler makes keep EchoKept.                                *)

\* OnLocalPadBufferChanged echoes the buffer it writes, and appends
\* nothing for the minimum box.
LEMMA KeptOnLocal ==
  ASSUME NEW s0, NEW s \in BufferState, NEW x, EchoKept(s0, s)
  PROVE  EchoKept(s0, OnLocalPadBufferChanged(x, s))
<1> DEFINE t == OnLocalPadBufferChanged(x, s)
<1>1. /\ t.ui = Append(s.ui, [k |-> "local", n |-> x])
      /\ t.buf["local"] = x /\ t.buf["min"] = s.buf["min"]
  BY OnLocalFields
<1>2. s.ui \in Seq(NatMessage)
  BY DEF BufferState
<1>3. LastIs(t.ui, "local", t.buf["local"])
  BY <1>1, <1>2, AppendSame
<1>4. t.buf["min"] # s0.buf["min"] => LastIs(t.ui, "min", t.buf["min"])
  <2>1. LastIs(t.ui, "min", s.buf["min"]) <=> LastIs(s.ui, "min", s.buf["min"])
    BY <1>1, <1>2, AppendOther
  <2> QED
    BY <1>1, <2>1 DEF EchoKept, Boxes
<1> QED
  BY <1>3, <1>4 DEF EchoKept, Boxes

\* The server's broadcast touches neither the buffers nor the UI queue.
LEMMA KeptServer ==
  ASSUME NEW s0, NEW s \in BufferState, NEW x, EchoKept(s0, s)
  PROVE  EchoKept(s0, ServerAdjustMinimum(x, s))
<1>1. ServerAdjustMinimum(x, s).ui = s.ui /\ ServerAdjustMinimum(x, s).buf = s.buf
  BY ServerFields
<1> QED
  BY <1>1 DEF EchoKept

\* A valueChanged lambda is one of the two calls, or nothing.
LEMMA KeptValueChanged ==
  ASSUME NEW s0, NEW b \in Boxes, NEW v, NEW p, NEW s \in BufferState,
         EchoKept(s0, s)
  PROVE  EchoKept(s0, ValueChanged(b, v, p, s))
<1>1. EchoKept(s0, OnLocalPadBufferChanged(ToBuffer(v, p), s))
  BY KeptOnLocal
<1>2. EchoKept(s0, ServerAdjustMinimum(ToBuffer(v, p), s))
  BY KeptServer
<1> QED
  BY <1>1, <1>2 DEF ValueChanged

\* setDecimals runs at most two valueChanged lambdas, one after the other.
LEMMA KeptDecimals ==
  ASSUME NEW s0, NEW r \in [Boxes -> Nat], NEW p \in BOOLEAN,
         NEW s \in BufferState, EchoKept(s0, s)
  PROVE  EchoKept(s0, DecimalsChanged(r, p, s))
<1>1. r["min"] \in Nat /\ "min" \in Boxes /\ "local" \in Boxes
  BY DEF Boxes
<1> DEFINE s1 == IF r["min"] # box["min"] THEN ValueChanged("min", r["min"], p, s) ELSE s
<1>2. s1 \in BufferState /\ EchoKept(s0, s1)
  BY <1>1, ValueChangedType, KeptValueChanged
<1> QED
  BY <1>1, <1>2, KeptValueChanged DEF DecimalsChanged

\* A record that starts from the current buffers and is committed leaves
\* every changed buffer echoed last.
LEMMA KeptCommit ==
  ASSUME NEW s0, s0.buf = size, NEW s, EchoKept(s0, s), Commit(s)
  PROVE  Echoed
BY DEF EchoKept, Commit, Echoed

\* A record has changed nothing since itself.
LEMMA KeptSelf ==
  ASSUME NEW s
  PROVE  EchoKept(s, s)
BY DEF EchoKept

-----------------------------------------------------------------------------
(* Each action echoes the buffers it writes.                               *)

\* The actions that write no buffer.
LEMMA SizeKeptStep ==
  ASSUME size' = size
  PROVE  Echoed
BY DEF Echoed

\* A user's edit runs one valueChanged lambda; the warning button calls
\* OnLocalPadBufferChanged.
LEMMA UIEchoStep ==
  ASSUME IInv,
         \/ \E b \in Boxes, v \in TypedValues : UserEdit(b, v)
         \/ ClickWarning
  PROVE  Echoed
<1>1. Current \in BufferState /\ Current.buf = size /\ EchoKept(Current, Current)
  BY KeptSelf DEF IInv, Current
<1>2. CASE \E b \in Boxes, v \in TypedValues : UserEdit(b, v)
  <2>1. PICK b \in Boxes, v \in TypedValues : UserEdit(b, v)
    BY <1>2
  <2>2. EchoKept(Current, ValueChanged(b, v, poll, Current))
    BY <1>1, KeptValueChanged
  <2> QED
    BY <1>1, <2>1, <2>2, KeptCommit DEF UserEdit
<1>3. CASE ClickWarning
  <2>1. EchoKept(Current, OnLocalPadBufferChanged(size["min"], Current))
    BY <1>1, KeptOnLocal
  <2> QED
    BY <1>1, <1>3, <2>1, KeptCommit DEF ClickWarning
<1> QED
  BY <1>2, <1>3

\* OnMinimumPadBufferChanged writes the minimum and posts its lambda.
LEMMA NetMinimumEchoStep ==
  ASSUME IInv, NetMinimumChanged
  PROVE  Echoed
<1>1. /\ size \in [Boxes -> Nat] /\ netInbox \in Seq(NatMessage)
      /\ uiQueue \in Seq(NatMessage)
  BY DEF IInv, Current, BufferState
<1> DEFINE n == Head(netInbox).n
<1>2. /\ uiQueue' = Append(uiQueue, [k |-> "min", n |-> n])
      /\ size' = [size EXCEPT !["min"] = n]
  BY DEF NetMinimumChanged
<1>3. size'["local"] = size["local"] /\ size'["min"] = n
  BY <1>1, <1>2 DEF Boxes
<1>4. LastIs(uiQueue', "min", n)
  BY <1>1, <1>2, AppendSame
<1> QED
  BY <1>3, <1>4 DEF Echoed, Boxes

\* OnHostInputAuthorityChanged posts the enable lambda, then setDecimals
\* runs the valueChanged lambdas of the boxes it rounds.
LEMMA NetAuthorityEchoStep ==
  ASSUME IInv, NetAuthorityChanged
  PROVE  Echoed
<1>1. /\ box \in [Boxes -> Nat] /\ poll \in BOOLEAN /\ Current \in BufferState
      /\ size \in [Boxes -> Nat]
      /\ netInbox \in Seq(NatMessage) /\ uiQueue \in Seq(NatMessage)
  BY DEF IInv, TypeOK, Current, BufferState
<1> DEFINE a == Head(netInbox).on
           s0 == [Current EXCEPT !.inbox = Tail(@),
                                 !.ui = Append(@, [k |-> "hia", on |-> a])]
<1>2. netInbox # << >> /\ Head(netInbox).k = "hia"
  BY DEF NetAuthorityChanged
<1>3. a \in BOOLEAN /\ Tail(netInbox) \in Seq(NatMessage)
  BY <1>1, <1>2, HeadNat
<1>4. s0 \in BufferState /\ s0.buf = size
  <2>1. [k |-> "hia", on |-> a] \in NatMessage
    BY <1>3 DEF NatMessage
  <2>2. Append(uiQueue, [k |-> "hia", on |-> a]) \in Seq(NatMessage)
    BY <1>1, <2>1
  <2>3. size \in [Boxes -> Nat] /\ Tail(netInbox) \in Seq(NatMessage)
    BY <1>1, <1>3
  <2> QED
    BY <2>2, <2>3, Zenon DEF Current, BufferState
<1>5. PICK r \in Roundings(Decimals(poll, a)) : Commit(DecimalsChanged(r, poll, s0))
  BY DEF NetAuthorityChanged
<1>6. r \in [Boxes -> Nat]
  BY <1>1, <1>3, RoundingsNat DEF Decimals
<1>7. EchoKept(s0, DecimalsChanged(r, poll, s0))
  BY <1>1, <1>4, <1>6, KeptSelf, KeptDecimals
<1> QED
  BY <1>4, <1>5, <1>7, KeptCommit

\* OnMsgChangeGame's lambda runs setDecimals, then OnLocalPadBufferChanged
\* with the default buffer, then, on a host, the server's broadcast.
LEMMA ApplyChangeGameEchoStep ==
  ASSUME IInv, ApplyChangeGame
  PROVE  Echoed
<1>1. /\ box \in [Boxes -> Nat] /\ Current \in BufferState
      /\ uiQueue \in Seq(NatMessage)
  BY DEF IInv, TypeOK, Current, BufferState
<1> DEFINE p == Head(uiQueue).on
           d == Decimals(p, hia)
           s0 == [Current EXCEPT !.ui = Tail(@)]
<1>2. /\ uiQueue # << >> /\ p \in BOOLEAN
      /\ Tail(uiQueue) \in Seq(NatMessage)
  BY <1>1, HeadNat DEF ApplyChangeGame
<1>3. s0 \in BufferState /\ s0.buf = size
  BY <1>1, <1>2 DEF Current, BufferState
<1>4. PICK r \in Roundings(d) :
        LET s1 == DecimalsChanged(r, p, s0)
            s2 == OnLocalPadBufferChanged(IF p THEN 150 ELSE 6, s1)
        IN  Commit(IF hosting THEN ServerAdjustMinimum(0, s2) ELSE s2)
  BY DEF ApplyChangeGame
<1> DEFINE s1 == DecimalsChanged(r, p, s0)
           x == IF p THEN 150 ELSE 6
           s2 == OnLocalPadBufferChanged(x, s1)
<1>5. r \in [Boxes -> Nat]
  <2>1. d \in {0, 2}
    BY DEF Decimals
  <2> QED
    BY <1>1, <2>1, RoundingsNat
<1>6. s1 \in BufferState /\ EchoKept(s0, s1)
  BY <1>2, <1>3, <1>5, KeptSelf, KeptDecimals, DecimalsChangedType
<1>7. s2 \in BufferState /\ EchoKept(s0, s2)
  <2>1. x \in Nat
    OBVIOUS
  <2> QED
    BY <1>6, <2>1, KeptOnLocal, OnLocalPadBufferChangedType
<1>8. EchoKept(s0, IF hosting THEN ServerAdjustMinimum(0, s2) ELSE s2)
  BY <1>7, KeptServer
<1> QED
  BY <1>3, <1>4, <1>8, KeptCommit

\* Every step of the UI thread, the network thread and the server echoes
\* the buffers it writes.
LEMMA EchoStep == IInv /\ [Next]_vars => Echoed
<1> SUFFICES ASSUME IInv, [Next]_vars PROVE Echoed
  OBVIOUS
<1>1. CASE UNCHANGED vars
  BY <1>1, SizeKeptStep DEF vars
<1>2. CASE \/ \E b \in Boxes, v \in TypedValues : UserEdit(b, v)
           \/ ClickWarning
  BY <1>2, UIEchoStep
<1>3. CASE \/ ApplySetValue \/ ApplyAuthority \/ NetChangeGame
           \/ \E p \in BOOLEAN : ChangeGame(p)
           \/ \E a \in Authority : SetHostInputAuthority(a)
           \/ \E n \in RemoteValues : RemoteMinimumChanged(n)
  <2>1. size' = size
    BY <1>3 DEF ApplySetValue, ApplyAuthority, NetChangeGame, ChangeGame,
       SetHostInputAuthority, RemoteMinimumChanged
  <2> QED
    BY <2>1, SizeKeptStep
<1>4. CASE ApplyChangeGame
  BY <1>4, ApplyChangeGameEchoStep
<1>5. CASE NetMinimumChanged
  BY <1>5, NetMinimumEchoStep
<1>6. CASE NetAuthorityChanged
  BY <1>6, NetAuthorityEchoStep
<1> QED
  BY <1>1, <1>2, <1>3, <1>4, <1>5, <1>6 DEF Next

-----------------------------------------------------------------------------
(* The theorem.                                                            *)

\* For every value of the constants, host input authority on or off, each
\* step that writes m_minimum_buffer_size or m_local_buffer_size leaves the
\* setValue lambda with the new buffer as the last one queued for that box
\* (OnLocalPadBufferChanged, OnMinimumPadBufferChanged and every path that
\* calls them).
THEOREM EchoesBufferWritesHolds == Spec => EchoesBufferWrites
<1>1. Init => IInv
  BY InitIInv
<1>2. IInv /\ [Next]_vars => IInv'
  BY IInvStep
<1>3. IInv /\ [Next]_vars => [Echoed]_vars
  BY EchoStep
<1> QED
  BY <1>1, <1>2, <1>3, PTL DEF Spec, EchoesBufferWrites, Echoed

====
