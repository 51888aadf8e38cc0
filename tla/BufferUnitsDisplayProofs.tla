---------------------- MODULE BufferUnitsDisplayProofs ----------------------
(***************************************************************************)
(* BoxShowsBuffer, for every set of typed values, remote minimums and      *)
(* queue bound, with host input authority off (Authority \subseteq         *)
(* {FALSE}, as in the run bu_session; with authority on a box at 0         *)
(* decimals cannot show a buffer in hundredths, and the property is        *)
(* false).                                                                 *)
(*                                                                         *)
(* BoxShowsBuffer speaks only of quiescent states.  The strengthening      *)
(* BInv says where each box is headed in every state.  Every write of a    *)
(* buffer posts, in the same handler, a setValue lambda with that buffer   *)
(* (OnMinimumPadBufferChanged 886-908, OnLocalPadBufferChanged 911-935),   *)
(* so while a lambda for a box is queued, the last one carries the         *)
(* current buffer; once none is queued, the box shows the buffer.  On a    *)
(* host a minimum still in the network inbox leaves the minimum box        *)
(* unconstrained until it is handled.  ChangeGame, the only step that      *)
(* changes the units, always posts a new local buffer and, on a host,      *)
(* sends a new minimum, so no box is left showing a buffer in old units.   *)
(***************************************************************************)
EXTENDS BufferUnitsProofs

\* Some message or lambda of q is for key b.
HasKey(q, b) == \E i \in 1..Len(q) : q[i].k = b

\* Every authority message of q turns authority off.
AllOff(q) == \A i \in 1..Len(q) : q[i].k = "hia" => q[i].on = FALSE

\* Box b shows its buffer in the title's units, up to the truncation.
Settled(b) ==
  \/ box[b] = ToBox(size[b], poll)
  \/ poll /\ box[b] \in Lossy /\ size[b] = box[b] - 1

\* Where box b is headed: the last setValue lambda queued for it carries
\* its buffer, and with none queued it shows its buffer.
Heading(b) ==
  IF HasKey(uiQueue, b) THEN LastIs(uiQueue, b, size[b]) ELSE Settled(b)

\* The inductive strengthening of BoxShowsBuffer.
BInv ==
  /\ IInv
  /\ hia = FALSE
  /\ AllOff(netInbox)
  /\ decimals = Decimals(poll, FALSE)
  /\ \A b \in Boxes : box[b] \in Rounded(box[b], decimals)
  /\ Heading("local")
  /\ (hosting /\ ~HasKey(netInbox, "min")) => Heading("min")

-----------------------------------------------------------------------------
(* The queues.                                                             *)

\* Appending a lambda for box b makes it the last one for b.
LEMMA AppendSame ==
  ASSUME NEW q \in Seq(NatMessage), NEW b, NEW x
  PROVE  LET q2 == Append(q, [k |-> b, n |-> x])
         IN  HasKey(q2, b) /\ LastIs(q2, b, x)
<1>1. Len(Append(q, [k |-> b, n |-> x])) = Len(q) + 1
  OBVIOUS
<1>2. Append(q, [k |-> b, n |-> x])[Len(q) + 1] = [k |-> b, n |-> x]
  OBVIOUS
<1>3. \A j \in (Len(q) + 1) + 1..Len(q) + 1 : FALSE
  OBVIOUS
<1> QED
  BY <1>1, <1>2, <1>3 DEF HasKey, LastIs

\* Appending a message for another key changes neither predicate.
LEMMA AppendOther ==
  ASSUME NEW q \in Seq(NatMessage), NEW e, NEW b, NEW x, e.k # b
  PROVE  /\ HasKey(Append(q, e), b) <=> HasKey(q, b)
         /\ LastIs(Append(q, e), b, x) <=> LastIs(q, b, x)
<1>1. /\ Len(Append(q, e)) = Len(q) + 1
      /\ \A i \in 1..Len(q) : Append(q, e)[i] = q[i]
      /\ Append(q, e)[Len(q) + 1] = e
  OBVIOUS
<1>2. HasKey(Append(q, e), b) <=> HasKey(q, b)
  BY <1>1 DEF HasKey
<1>3. LastIs(Append(q, e), b, x) => LastIs(q, b, x)
  <2> SUFFICES ASSUME NEW i \in 1..Len(q) + 1,
                      Append(q, e)[i].k = b, Append(q, e)[i].n = x,
                      \A j \in i + 1..Len(q) + 1 : Append(q, e)[j].k # b
               PROVE  LastIs(q, b, x)
    BY <1>1 DEF LastIs
  <2>1. i \in 1..Len(q)
    BY <1>1
  <2>2. \A j \in i + 1..Len(q) : q[j].k # b
    BY <1>1, <2>1
  <2> QED
    BY <1>1, <2>1, <2>2 DEF LastIs
<1>4. LastIs(q, b, x) => LastIs(Append(q, e), b, x)
  <2> SUFFICES ASSUME NEW i \in 1..Len(q), q[i].k = b, q[i].n = x,
                      \A j \in i + 1..Len(q) : q[j].k # b
               PROVE  LastIs(Append(q, e), b, x)
    BY DEF LastIs
  <2>1. \A j \in i + 1..Len(q) + 1 : Append(q, e)[j].k # b
    BY <1>1
  <2> QED
    BY <1>1, <2>1 DEF LastIs
<1> QED
  BY <1>2, <1>3, <1>4

\* Removing the head of q, when it is for another key, changes neither
\* predicate.
LEMMA TailOther ==
  ASSUME NEW q \in Seq(NatMessage), q # << >>, NEW b, NEW x, Head(q).k # b
  PROVE  /\ HasKey(Tail(q), b) <=> HasKey(q, b)
         /\ LastIs(Tail(q), b, x) <=> LastIs(q, b, x)
<1>1. /\ Len(Tail(q)) = Len(q) - 1
      /\ \A i \in 1..Len(q) - 1 : Tail(q)[i] = q[i + 1]
      /\ Head(q) = q[1] /\ Len(q) >= 1
  OBVIOUS
<1>2. HasKey(Tail(q), b) => HasKey(q, b)
  BY <1>1 DEF HasKey
<1>3. HasKey(q, b) => HasKey(Tail(q), b)
  <2> SUFFICES ASSUME NEW i \in 1..Len(q), q[i].k = b PROVE HasKey(Tail(q), b)
    BY DEF HasKey
  <2>1. i # 1 /\ i - 1 \in 1..Len(q) - 1
    BY <1>1
  <2> QED
    BY <1>1, <2>1 DEF HasKey
<1>4. LastIs(Tail(q), b, x) => LastIs(q, b, x)
  <2> SUFFICES ASSUME NEW i \in 1..Len(q) - 1,
                      Tail(q)[i].k = b, Tail(q)[i].n = x,
                      \A j \in i + 1..Len(q) - 1 : Tail(q)[j].k # b
               PROVE  LastIs(q, b, x)
    BY <1>1 DEF LastIs
  <2>1. i + 1 \in 1..Len(q) /\ q[i + 1].k = b /\ q[i + 1].n = x
    BY <1>1
  <2>2. \A j \in (i + 1) + 1..Len(q) : q[j].k # b
    <3> SUFFICES ASSUME NEW j \in (i + 1) + 1..Len(q) PROVE q[j].k # b
      OBVIOUS
    <3>1. j - 1 \in i + 1..Len(q) - 1 /\ Tail(q)[j - 1] = q[j]
      BY <1>1
    <3> QED
      BY <3>1
  <2> QED
    BY <2>1, <2>2 DEF LastIs
<1>5. LastIs(q, b, x) => LastIs(Tail(q), b, x)
  <2> SUFFICES ASSUME NEW i \in 1..Len(q), q[i].k = b, q[i].n = x,
                      \A j \in i + 1..Len(q) : q[j].k # b
               PROVE  LastIs(Tail(q), b, x)
    BY DEF LastIs
  <2>1. i # 1 /\ i - 1 \in 1..Len(q) - 1
    BY <1>1
  <2>2. Tail(q)[i - 1].k = b /\ Tail(q)[i - 1].n = x
    BY <1>1, <2>1
  <2>3. \A j \in (i - 1) + 1..Len(q) - 1 : Tail(q)[j].k # b
    <3> SUFFICES ASSUME NEW j \in (i - 1) + 1..Len(q) - 1 PROVE Tail(q)[j].k # b
      OBVIOUS
    <3>1. j + 1 \in i + 1..Len(q) /\ Tail(q)[j] = q[j + 1]
      BY <1>1
    <3> QED
      BY <3>1
  <2> QED
    BY <1>1, <2>1, <2>2, <2>3 DEF LastIs
<1> QED
  BY <1>2, <1>3, <1>4, <1>5

\* Removing the head of q, a lambda for box b: either a later one is still
\* the last for b, or the head was the last one.
LEMMA TailSame ==
  ASSUME NEW q \in Seq(NatMessage), q # << >>, NEW b, NEW x,
         Head(q).k = b, LastIs(q, b, x)
  PROVE  /\ HasKey(Tail(q), b) => LastIs(Tail(q), b, x)
         /\ ~HasKey(Tail(q), b) => Head(q).n = x
<1>1. /\ Len(Tail(q)) = Len(q) - 1
      /\ \A i \in 1..Len(q) - 1 : Tail(q)[i] = q[i + 1]
      /\ Head(q) = q[1] /\ Len(q) >= 1
  OBVIOUS
<1>2. PICK i \in 1..Len(q) : /\ q[i].k = b /\ q[i].n = x
                             /\ \A j \in i + 1..Len(q) : q[j].k # b
  BY DEF LastIs
<1>3. CASE i = 1
  <2>1. ~HasKey(Tail(q), b)
    <3> SUFFICES ASSUME NEW j \in 1..Len(q) - 1, Tail(q)[j].k = b PROVE FALSE
      BY <1>1 DEF HasKey
    <3>1. j + 1 \in i + 1..Len(q) /\ Tail(q)[j] = q[j + 1]
      BY <1>1, <1>3
    <3> QED
      BY <1>2, <3>1
  <2> QED
    BY <1>1, <1>2, <1>3, <2>1
<1>4. CASE i # 1
  <2>1. i - 1 \in 1..Len(q) - 1 /\ Tail(q)[i - 1] = q[i]
    BY <1>1, <1>4
  <2>2. HasKey(Tail(q), b)
    BY <1>2, <2>1 DEF HasKey
  <2>3. \A j \in (i - 1) + 1..Len(q) - 1 : Tail(q)[j].k # b
    <3> SUFFICES ASSUME NEW j \in (i - 1) + 1..Len(q) - 1 PROVE Tail(q)[j].k # b
      OBVIOUS
    <3>1. j + 1 \in i + 1..Len(q) /\ Tail(q)[j] = q[j + 1]
      BY <1>1
    <3> QED
      BY <1>2, <3>1
  <2>4. LastIs(Tail(q), b, x)
    BY <1>1, <1>2, <2>1, <2>3 DEF LastIs
  <2> QED
    BY <2>2, <2>4
<1> QED
  BY <1>3, <1>4

\* The authority messages of a queue stay off through Append and Tail.
LEMMA AllOffAppend ==
  ASSUME NEW q \in Seq(NatMessage), NEW e, AllOff(q),
         e.k = "hia" => e.on = FALSE
  PROVE  AllOff(Append(q, e))
BY DEF AllOff

LEMMA AllOffTail ==
  ASSUME NEW q \in Seq(NatMessage), q # << >>, AllOff(q)
  PROVE  /\ AllOff(Tail(q))
         /\ Head(q).k = "hia" => Head(q).on = FALSE
<1>1. /\ \A i \in 1..Len(q) - 1 : Tail(q)[i] = q[i + 1] /\ i + 1 \in 1..Len(q)
      /\ Len(Tail(q)) = Len(q) - 1 /\ Head(q) = q[1] /\ 1 \in 1..Len(q)
  OBVIOUS
<1> QED
  BY <1>1 DEF AllOff

-----------------------------------------------------------------------------
(* The roundings and the conversions.                                      *)

\* A value QDoubleSpinBox shows at 0 decimals is a whole number of frames.
LEMMA RoundedWhole ==
  ASSUME NEW v \in Nat, NEW x \in Rounded(v, 0)
  PROVE  x % 100 = 0
BY DEF Rounded

\* A whole number of frames is left alone by the rounding to 0 decimals.
LEMMA WholeFixed ==
  ASSUME NEW x \in Nat, x % 100 = 0
  PROVE  Rounded(x, 0) = {x}
<1>1. ((x + 50) \div 100) * 100 = x
  OBVIOUS
<1> QED
  BY <1>1 DEF Rounded

\* A rounded value is left alone by a second rounding.
LEMMA RoundedIdem ==
  ASSUME NEW v \in Nat, NEW d \in {0, 2}, NEW x \in Rounded(v, d)
  PROVE  x \in Rounded(x, d)
<1>1. CASE d = 2
  BY <1>1 DEF Rounded
<1>2. CASE d = 0
  <2>1. x \in Nat /\ x % 100 = 0
    BY <1>2, RoundedNat, RoundedWhole
  <2> QED
    BY <1>2, <2>1, WholeFixed
<1> QED
  BY <1>1, <1>2

\* A value the rounding leaves alone is the only one it rounds to.
LEMMA RoundedFixed ==
  ASSUME NEW v \in Nat, NEW d \in {0, 2}, v \in Rounded(v, d)
  PROVE  Rounded(v, d) = {v}
<1>1. CASE d = 2
  BY <1>1 DEF Rounded
<1>2. CASE d = 0
  BY <1>2, RoundedWhole, WholeFixed
<1> QED
  BY <1>1, <1>2

\* setValue of a buffer in the title's units, at the title's decimals with
\* authority off, shows exactly that value.
LEMMA ToBoxRounded ==
  ASSUME NEW n \in Nat, NEW p \in BOOLEAN
  PROVE  Rounded(ToBox(n, p), Decimals(p, FALSE)) = {ToBox(n, p)}
<1>1. CASE p
  BY <1>1 DEF ToBox, Decimals, Rounded
<1>2. CASE ~p
  <2>1. ToBox(n, p) = n * 100 /\ Decimals(p, FALSE) = 0
    BY <1>2 DEF ToBox, Decimals
  <2>2. (n * 100) % 100 = 0 /\ n * 100 \in Nat
    OBVIOUS
  <2> QED
    BY <2>1, <2>2, WholeFixed
<1> QED
  BY <1>1, <1>2

\* A box value at the title's decimals converts to a buffer that shows it
\* again, but for the truncation of a Lossy value.
LEMMA ConvertBack ==
  ASSUME NEW v \in Nat, NEW p \in BOOLEAN, v \in Rounded(v, Decimals(p, FALSE))
  PROVE  \/ v = ToBox(ToBuffer(v, p), p)
         \/ p /\ v \in Lossy /\ ToBuffer(v, p) = v - 1
<1>1. CASE p
  BY <1>1 DEF ToBuffer, ToBox
<1>2. CASE ~p
  <2>1. v % 100 = 0
    BY <1>2, RoundedWhole DEF Decimals
  <2>2. (v \div 100) * 100 = v
    BY <2>1
  <2> QED
    BY <1>2, <2>2 DEF ToBuffer, ToBox
<1> QED
  BY <1>1, <1>2

-----------------------------------------------------------------------------
(* What the handlers write to the buffers and the queues.                  *)

\* OnLocalPadBufferChanged posts the lambda last and writes the local
\* buffer only.
LEMMA OnLocalFields ==
  ASSUME NEW x, NEW s \in BufferState
  PROVE  LET t == OnLocalPadBufferChanged(x, s)
         IN  /\ t.ui = Append(s.ui, [k |-> "local", n |-> x])
             /\ t.inbox = s.inbox
             /\ t.buf["local"] = x /\ t.buf["min"] = s.buf["min"]
BY DEF OnLocalPadBufferChanged, BufferState, Boxes

\* The server's broadcast appends a minimum to the inbox and nothing else.
LEMMA ServerFields ==
  ASSUME NEW x, NEW s \in BufferState
  PROVE  LET t == ServerAdjustMinimum(x, s)
         IN  /\ t.inbox = Append(s.inbox, [k |-> "min", n |-> x])
             /\ t.ui = s.ui /\ t.buf = s.buf
BY DEF ServerAdjustMinimum, BufferState

\* A valueChanged lambda sends no authority message.
LEMMA ValueChangedOff ==
  ASSUME NEW b \in Boxes, NEW v \in Nat, NEW p \in BOOLEAN,
         NEW s \in BufferState, AllOff(s.inbox)
  PROVE  AllOff(ValueChanged(b, v, p, s).inbox)
<1>1. AllOff(OnLocalPadBufferChanged(ToBuffer(v, p), s).inbox)
  BY OnLocalFields
<1>2. AllOff(ServerAdjustMinimum(ToBuffer(v, p), s).inbox)
  <2>1. s.inbox \in Seq(NatMessage)
    BY DEF BufferState
  <2> QED
    BY <2>1, ServerFields, AllOffAppend
<1> QED
  BY <1>1, <1>2 DEF ValueChanged

\* Nor does setDecimals, whichever lambdas it runs.
LEMMA DecimalsChangedOff ==
  ASSUME NEW r \in [Boxes -> Nat], NEW p \in BOOLEAN, NEW s \in BufferState,
         AllOff(s.inbox)
  PROVE  AllOff(DecimalsChanged(r, p, s).inbox)
<1>1. r["min"] \in Nat /\ r["local"] \in Nat /\ "min" \in Boxes /\ "local" \in Boxes
  BY DEF Boxes
<1> DEFINE s1 == IF r["min"] # box["min"] THEN ValueChanged("min", r["min"], p, s) ELSE s
<1>2. s1 \in BufferState /\ AllOff(s1.inbox)
  BY <1>1, ValueChangedType, ValueChangedOff
<1> QED
  BY <1>1, <1>2, ValueChangedOff DEF DecimalsChanged

-----------------------------------------------------------------------------
(* BInv is inductive.                                                      *)

\* A step that leaves box b, its buffer, the units and what the UI queue
\* says of b alone keeps where b is headed.
LEMMA HeadingFrame ==
  ASSUME NEW b, box'[b] = box[b], size'[b] = size[b], poll' = poll,
         HasKey(uiQueue', b) <=> HasKey(uiQueue, b),
         LastIs(uiQueue', b, size[b]) <=> LastIs(uiQueue, b, size[b]),
         Heading(b)
  PROVE  Heading(b)'
BY DEF Heading, Settled

\* The facts every case uses: the types from IInv, and authority off.
LEMMA BInvFacts ==
  ASSUME BInv
  PROVE  /\ box \in [Boxes -> Nat] /\ size \in [Boxes -> Nat]
         /\ netInbox \in Seq(NatMessage) /\ uiQueue \in Seq(NatMessage)
         /\ poll \in BOOLEAN /\ hosting \in BOOLEAN
         /\ decimals = Decimals(poll, FALSE) /\ hia = FALSE
         /\ Current \in BufferState
BY CurrentType DEF BInv, IInv, TypeOK

\* The setValue lambda at the head of the UI queue: the box it is for is
\* left showing the buffer if it was the last lambda for that box.
LEMMA SetValueHeading ==
  ASSUME BInv, ApplySetValue, NEW b \in Boxes, Heading(b)
  PROVE  Heading(b)'
<1>1. /\ box \in [Boxes -> Nat] /\ size \in [Boxes -> Nat]
      /\ uiQueue \in Seq(NatMessage) /\ poll \in BOOLEAN
      /\ decimals = Decimals(poll, FALSE)
  BY BInvFacts
<1> DEFINE m == Head(uiQueue)
<1>2. /\ uiQueue # << >> /\ m.k \in Boxes /\ m.n \in Nat
      /\ uiQueue' = Tail(uiQueue) /\ size' = size /\ poll' = poll
  BY <1>1, HeadNat DEF ApplySetValue
<1>3. PICK x \in Rounded(ToBox(m.n, poll), decimals) : box' = [box EXCEPT ![m.k] = x]
  BY DEF ApplySetValue
<1>4. x = ToBox(m.n, poll)
  BY <1>1, <1>2, <1>3, ToBoxRounded
<1>5. CASE b # m.k
  <2>1. box'[b] = box[b]
    BY <1>1, <1>3, <1>5
  <2> QED
    BY <1>1, <1>2, <1>5, <2>1, TailOther, HeadingFrame
<1>6. CASE b = m.k
  <2>1. HasKey(uiQueue, b)
    <3>1. 1 \in 1..Len(uiQueue) /\ uiQueue[1] = m
      BY <1>2
    <3> QED
      BY <1>6, <3>1 DEF HasKey
  <2>2. LastIs(uiQueue, b, size[b])
    BY <2>1 DEF Heading
  <2>3. /\ HasKey(Tail(uiQueue), b) => LastIs(Tail(uiQueue), b, size[b])
        /\ ~HasKey(Tail(uiQueue), b) => m.n = size[b]
    BY <1>1, <1>2, <1>6, <2>2, TailSame
  <2>4. box'[b] = x
    BY <1>1, <1>3, <1>6
  <2> QED
    BY <1>2, <1>4, <2>3, <2>4 DEF Heading, Settled
<1> QED
  BY <1>5, <1>6

\* BInv of the next state, conjunct by conjunct.
LEMMA BInvPrime ==
  ASSUME IInv', hia' = FALSE, AllOff(netInbox'),
         decimals' = Decimals(poll', FALSE),
         \A b \in Boxes : box'[b] \in Rounded(box'[b], decimals'),
         Heading("local")',
         (hosting' /\ ~HasKey(netInbox', "min")) => Heading("min")'
  PROVE  BInv'
BY DEF BInv

\* The setValue lambda of OnMinimumPadBufferChanged or
\* OnLocalPadBufferChanged.
LEMMA ApplySetValueStep ==
  ASSUME BInv, IInv', hosting' = hosting, ApplySetValue
  PROVE  BInv'
<1>1. /\ box \in [Boxes -> Nat] /\ uiQueue \in Seq(NatMessage)
      /\ poll \in BOOLEAN /\ decimals = Decimals(poll, FALSE) /\ hia = FALSE
  BY BInvFacts
<1> DEFINE m == Head(uiQueue)
<1>2. /\ uiQueue # << >> /\ m.k \in Boxes /\ m.n \in Nat
      /\ UNCHANGED <<decimals, size, hia, poll, netInbox>>
  BY <1>1, HeadNat DEF ApplySetValue
<1>3. PICK x \in Rounded(ToBox(m.n, poll), decimals) : box' = [box EXCEPT ![m.k] = x]
  BY DEF ApplySetValue
<1>4. x \in Rounded(x, decimals)
  BY <1>1, <1>2, <1>3, ToBoxRounded
<1>5. \A b \in Boxes : box'[b] \in Rounded(box'[b], decimals')
  BY <1>1, <1>2, <1>3, <1>4 DEF BInv
<1>6. Heading("local")'
  BY SetValueHeading DEF BInv, Boxes
<1>7. (hosting' /\ ~HasKey(netInbox', "min")) => Heading("min")'
  BY <1>2, SetValueHeading DEF BInv, Boxes
<1> QED
  BY <1>2, <1>5, <1>6, <1>7, BInvPrime DEF BInv

\* A lambda or a message for no box passes through the queues: the
\* enable lambda of OnHostInputAuthorityChanged, and OnMsgChangeGame's
\* hand-over to the UI thread.
LEMMA PassThroughStep ==
  ASSUME BInv, IInv', hosting' = hosting, ApplyAuthority \/ NetChangeGame
  PROVE  BInv'
<1>1. /\ size \in [Boxes -> Nat]
      /\ netInbox \in Seq(NatMessage) /\ uiQueue \in Seq(NatMessage)
  BY BInvFacts
<1>2. /\ UNCHANGED <<box, decimals, size, hia, poll>>
      /\ \A b \in Boxes :
           /\ HasKey(uiQueue', b) <=> HasKey(uiQueue, b)
           /\ LastIs(uiQueue', b, size[b]) <=> LastIs(uiQueue, b, size[b])
      /\ HasKey(netInbox', "min") <=> HasKey(netInbox, "min")
      /\ AllOff(netInbox')
  <2>1. CASE ApplyAuthority
    <3>1. uiQueue # << >> /\ Head(uiQueue).k = "hia" /\ uiQueue' = Tail(uiQueue)
          /\ UNCHANGED <<box, decimals, size, hia, poll, netInbox>>
      BY <2>1 DEF ApplyAuthority
    <3> QED
      BY <1>1, <3>1, TailOther DEF BInv, Boxes
  <2>2. CASE NetChangeGame
    <3>1. /\ netInbox # << >> /\ Head(netInbox).k = "game"
          /\ uiQueue' = Append(uiQueue, Head(netInbox))
          /\ netInbox' = Tail(netInbox)
          /\ UNCHANGED <<box, decimals, size, hia, poll>>
      BY <2>2 DEF NetChangeGame
    <3>2. AllOff(netInbox')
      BY <1>1, <3>1, AllOffTail DEF BInv
    <3> QED
      BY <1>1, <3>1, <3>2, AppendOther, TailOther DEF Boxes
  <2> QED
    BY <2>1, <2>2
<1>3. Heading("local")'
  BY <1>2, HeadingFrame DEF BInv, Boxes
<1>4. (hosting' /\ ~HasKey(netInbox', "min")) => Heading("min")'
  BY <1>2, HeadingFrame DEF BInv, Boxes
<1> QED
  BY <1>2, <1>3, <1>4, BInvPrime DEF BInv

\* OnMinimumPadBufferChanged: the minimum and its lambda are written
\* together, so the lambda is the last one for the minimum box.
LEMMA NetMinimumStep ==
  ASSUME BInv, IInv', hosting' = hosting, NetMinimumChanged
  PROVE  BInv'
<1>1. /\ size \in [Boxes -> Nat]
      /\ netInbox \in Seq(NatMessage) /\ uiQueue \in Seq(NatMessage)
  BY BInvFacts
<1> DEFINE n == Head(netInbox).n
<1>2. /\ netInbox # << >> /\ Head(netInbox).k = "min"
      /\ uiQueue' = Append(uiQueue, [k |-> "min", n |-> n])
      /\ size' = [size EXCEPT !["min"] = n]
      /\ netInbox' = Tail(netInbox)
      /\ UNCHANGED <<box, decimals, hia, poll>>
  BY DEF NetMinimumChanged
<1>3. AllOff(netInbox')
  BY <1>1, <1>2, AllOffTail DEF BInv
<1>4. Heading("local")'
  <2>1. size'["local"] = size["local"]
    BY <1>1, <1>2 DEF Boxes
  <2> QED
    BY <1>1, <1>2, <2>1, AppendOther, HeadingFrame DEF BInv
<1>5. Heading("min")'
  <2>1. size'["min"] = n
    BY <1>1, <1>2 DEF Boxes
  <2> QED
    BY <1>1, <1>2, <2>1, AppendSame DEF Heading
<1> QED
  BY <1>2, <1>3, <1>4, <1>5, BInvPrime DEF BInv

\* The server sends a title, an authority setting (off) or a remote
\* minimum.
LEMMA ServerStep ==
  ASSUME BInv, IInv', hosting' = hosting, Authority \subseteq {FALSE},
         \/ \E p \in BOOLEAN : ChangeGame(p)
         \/ \E a \in Authority : SetHostInputAuthority(a)
         \/ \E x \in RemoteValues : RemoteMinimumChanged(x)
  PROVE  BInv'
<1>1. netInbox \in Seq(NatMessage) /\ hosting \in BOOLEAN
  BY BInvFacts
<1>2. PICK e : /\ netInbox' = Append(netInbox, e)
               /\ e.k = "hia" => e.on = FALSE
               /\ e.k = "min" => ~hosting
               /\ UNCHANGED <<box, decimals, size, hia, poll, uiQueue>>
  BY DEF ChangeGame, SetHostInputAuthority, RemoteMinimumChanged
<1>3. AllOff(netInbox')
  BY <1>1, <1>2, AllOffAppend DEF BInv
<1>4. (hosting' /\ ~HasKey(netInbox', "min")) => Heading("min")'
  <2>1. CASE e.k = "min"
    BY <1>2, <2>1
  <2>2. CASE e.k # "min"
    BY <1>1, <1>2, <2>2, AppendOther DEF BInv, Heading, Settled
  <2> QED
    BY <2>1, <2>2
<1>5. Heading("local")'
  BY <1>2 DEF BInv, Heading, Settled
<1> QED
  BY <1>2, <1>3, <1>4, <1>5, BInvPrime DEF BInv

\* A user's edit of box b0 to v.  The valueChanged lambda either drops v
\* (it converts to the buffer already set, and then the box shows that
\* buffer or its truncation), or posts the new local buffer with its
\* lambda, or on a host sends the new minimum to the server.
LEMMA UserEditStep ==
  ASSUME BInv, IInv', hosting' = hosting, NEW b0 \in Boxes,
         NEW v \in TypedValues, UserEdit(b0, v)
  PROVE  BInv'
<1>1. /\ box \in [Boxes -> Nat] /\ size \in [Boxes -> Nat]
      /\ netInbox \in Seq(NatMessage) /\ uiQueue \in Seq(NatMessage)
      /\ poll \in BOOLEAN /\ hosting \in BOOLEAN
      /\ decimals = Decimals(poll, FALSE) /\ Current \in BufferState
  BY BInvFacts
<1>2. v \in Nat
  BY BufferUnitsAssumption
<1>3. /\ box' = [box EXCEPT ![b0] = v]
      /\ v \in Rounded(v, decimals)
      /\ UNCHANGED <<decimals, hia, poll>>
      /\ Commit(ValueChanged(b0, v, poll, Current))
  BY DEF UserEdit
<1>4. \A b \in Boxes : box'[b] \in Rounded(box'[b], decimals')
  BY <1>1, <1>3 DEF BInv
<1>5. \A b \in Boxes : b # b0 => box'[b] = box[b]
  BY <1>1, <1>3
<1> DEFINE n == ToBuffer(v, poll)
<1>6. CASE n = size[b0] \/ (b0 = "min" /\ ~hosting)
  <2>1. ValueChanged(b0, v, poll, Current) = Current
    BY <1>6 DEF ValueChanged, Current
  <2>2. size' = size /\ netInbox' = netInbox /\ uiQueue' = uiQueue
    BY <1>3, <2>1 DEF Commit, Current
  <2>3. \A b \in Boxes : Heading(b) /\ (b = b0 => n = size[b0]) => Heading(b)'
    <3> SUFFICES ASSUME NEW b \in Boxes, Heading(b), b = b0 => n = size[b0]
                 PROVE  Heading(b)'
      OBVIOUS
    <3>1. CASE b # b0
      BY <1>3, <1>5, <2>2, <3>1, HeadingFrame
    <3>2. CASE b = b0
      <4>1. \/ v = ToBox(n, poll)
            \/ poll /\ v \in Lossy /\ n = v - 1
        BY <1>1, <1>2, <1>3, ConvertBack
      <4>2. box'[b] = v
        BY <1>1, <1>3, <3>2
      <4> QED
        BY <1>3, <2>2, <3>2, <4>1, <4>2 DEF Heading, Settled
    <3> QED
      BY <3>1, <3>2
  <2>4. AllOff(netInbox')
    BY <2>2 DEF BInv
  <2> QED
    BY <1>3, <1>4, <1>6, <2>2, <2>3, <2>4, BInvPrime DEF BInv, Boxes
<1>7. CASE n # size[b0] /\ b0 = "local"
  <2>1. ValueChanged(b0, v, poll, Current) = OnLocalPadBufferChanged(n, Current)
    BY <1>7 DEF ValueChanged, Current
  <2>2. /\ uiQueue' = Append(uiQueue, [k |-> "local", n |-> n])
        /\ netInbox' = netInbox
        /\ size'["local"] = n /\ size'["min"] = size["min"]
    BY <1>1, <1>3, <2>1, OnLocalFields DEF Commit, Current
  <2>3. Heading("local")'
    BY <1>1, <2>2, AppendSame DEF Heading
  <2>4. (hosting' /\ ~HasKey(netInbox', "min")) => Heading("min")'
    <3>1. box'["min"] = box["min"]
      BY <1>5, <1>7 DEF Boxes
    <3>2. /\ HasKey(uiQueue', "min") <=> HasKey(uiQueue, "min")
          /\ LastIs(uiQueue', "min", size["min"]) <=> LastIs(uiQueue, "min", size["min"])
      BY <1>1, <2>2, AppendOther
    <3>3. Heading("min") => Heading("min")'
      BY <1>3, <2>2, <3>1, <3>2, HeadingFrame
    <3> QED
      BY <1>3, <2>2, <3>3 DEF BInv
  <2> QED
    BY <1>3, <1>4, <2>2, <2>3, <2>4, BInvPrime DEF BInv
<1>8. CASE n # size[b0] /\ b0 = "min" /\ hosting
  <2>1. ValueChanged(b0, v, poll, Current) = ServerAdjustMinimum(n, Current)
    BY <1>8 DEF ValueChanged, Current
  <2>2. /\ netInbox' = Append(netInbox, [k |-> "min", n |-> n])
        /\ uiQueue' = uiQueue /\ size' = size
    BY <1>1, <1>3, <2>1, ServerFields DEF Commit, Current
  <2>3. HasKey(netInbox', "min") /\ AllOff(netInbox')
    BY <1>1, <2>2, AppendSame, AllOffAppend DEF BInv
  <2>4. Heading("local")'
    <3>1. box'["local"] = box["local"]
      BY <1>5, <1>8 DEF Boxes
    <3> QED
      BY <1>3, <2>2, <3>1, HeadingFrame DEF BInv
  <2> QED
    BY <1>3, <1>4, <2>3, <2>4, BInvPrime DEF BInv
<1> QED
  BY <1>6, <1>7, <1>8 DEF Boxes

\* The warning button posts the minimum as the local buffer, with its
\* lambda.
LEMMA ClickWarningStep ==
  ASSUME BInv, IInv', hosting' = hosting, ClickWarning
  PROVE  BInv'
<1>1. /\ size \in [Boxes -> Nat]
      /\ netInbox \in Seq(NatMessage) /\ uiQueue \in Seq(NatMessage)
      /\ Current \in BufferState
  BY BInvFacts
<1>2. /\ Commit(OnLocalPadBufferChanged(size["min"], Current))
      /\ UNCHANGED <<box, decimals, hia, poll>>
  BY DEF ClickWarning
<1>3. /\ uiQueue' = Append(uiQueue, [k |-> "local", n |-> size["min"]])
      /\ netInbox' = netInbox
      /\ size'["local"] = size["min"] /\ size'["min"] = size["min"]
  BY <1>1, <1>2, OnLocalFields DEF Commit, Current
<1>4. Heading("local")'
  BY <1>1, <1>3, AppendSame DEF Heading
<1>5. (hosting' /\ ~HasKey(netInbox', "min")) => Heading("min")'
  <2>1. /\ HasKey(uiQueue', "min") <=> HasKey(uiQueue, "min")
        /\ LastIs(uiQueue', "min", size["min"]) <=> LastIs(uiQueue, "min", size["min"])
    BY <1>1, <1>3, AppendOther
  <2>2. Heading("min") => Heading("min")'
    BY <1>2, <1>3, <2>1, HeadingFrame
  <2> QED
    BY <1>3, <2>2 DEF BInv
<1> QED
  BY <1>2, <1>3, <1>4, <1>5, BInvPrime DEF BInv

\* OnHostInputAuthorityChanged with authority off: the decimals it sets
\* are the ones the boxes already have, so setDecimals rounds nothing and
\* runs no valueChanged lambda; only the enable lambda is posted.
LEMMA NetAuthorityStep ==
  ASSUME BInv, IInv', hosting' = hosting, NetAuthorityChanged
  PROVE  BInv'
<1>1. /\ box \in [Boxes -> Nat] /\ size \in [Boxes -> Nat]
      /\ netInbox \in Seq(NatMessage) /\ uiQueue \in Seq(NatMessage)
      /\ poll \in BOOLEAN /\ decimals = Decimals(poll, FALSE)
  BY BInvFacts
<1> DEFINE a == Head(netInbox).on
           s0 == [Current EXCEPT !.inbox = Tail(@),
                                 !.ui = Append(@, [k |-> "hia", on |-> a])]
<1>2. /\ netInbox # << >> /\ Head(netInbox).k = "hia"
      /\ hia' = a /\ decimals' = Decimals(poll, a) /\ UNCHANGED poll
  BY DEF NetAuthorityChanged
<1>3. a = FALSE /\ AllOff(Tail(netInbox))
  BY <1>1, <1>2, AllOffTail DEF BInv
<1>4. PICK r \in Roundings(decimals) :
        /\ box' = r
        /\ Commit(DecimalsChanged(r, poll, s0))
  BY <1>1, <1>2, <1>3 DEF NetAuthorityChanged
<1>5. r = box
  <2>1. decimals \in {0, 2}
    BY <1>1 DEF Decimals
  <2>2. /\ Rounded(box["min"], decimals) = {box["min"]}
        /\ Rounded(box["local"], decimals) = {box["local"]}
    BY <1>1, <2>1, RoundedFixed DEF BInv, Boxes
  <2>3. r = [min |-> box["min"], local |-> box["local"]]
    BY <1>4, <2>2 DEF Roundings
  <2>4. box = [min |-> box["min"], local |-> box["local"]]
    BY <1>1 DEF Boxes
  <2> QED
    BY <2>3, <2>4
<1>6. DecimalsChanged(r, poll, s0) = s0
  BY <1>5 DEF DecimalsChanged
<1>7. /\ size' = size /\ netInbox' = Tail(netInbox)
      /\ uiQueue' = Append(uiQueue, [k |-> "hia", on |-> a])
  BY <1>4, <1>6 DEF Commit, Current
<1>8. \A b \in Boxes : Heading(b) => Heading(b)'
  <2> SUFFICES ASSUME NEW b \in Boxes, Heading(b) PROVE Heading(b)'
    OBVIOUS
  <2>1. /\ HasKey(uiQueue', b) <=> HasKey(uiQueue, b)
        /\ LastIs(uiQueue', b, size[b]) <=> LastIs(uiQueue, b, size[b])
    BY <1>1, <1>7, AppendOther DEF Boxes
  <2> QED
    BY <1>2, <1>4, <1>5, <1>7, <2>1, HeadingFrame
<1>9. HasKey(netInbox', "min") <=> HasKey(netInbox, "min")
  BY <1>1, <1>2, <1>7, TailOther
<1> QED
  BY <1>2, <1>3, <1>4, <1>5, <1>7, <1>8, <1>9, BInvPrime DEF BInv, Boxes

\* OnMsgChangeGame's lambda: the title, hence the units, change, and the
\* lambda posts the default local buffer last and, on a host, sends a new
\* minimum, whatever setDecimals ran before them.
LEMMA ApplyChangeGameStep ==
  ASSUME BInv, IInv', hosting' = hosting, ApplyChangeGame
  PROVE  BInv'
<1>1. /\ box \in [Boxes -> Nat]
      /\ netInbox \in Seq(NatMessage) /\ uiQueue \in Seq(NatMessage)
      /\ hia = FALSE /\ hosting \in BOOLEAN /\ Current \in BufferState
  BY BInvFacts
<1> DEFINE p == Head(uiQueue).on
           d == Decimals(p, hia)
           s0 == [Current EXCEPT !.ui = Tail(@)]
<1>2. /\ uiQueue # << >> /\ Head(uiQueue).k = "game" /\ p \in BOOLEAN
      /\ Tail(uiQueue) \in Seq(NatMessage)
  BY <1>1, HeadNat DEF ApplyChangeGame
<1>3. s0 \in BufferState /\ s0.inbox = netInbox
  BY <1>1, <1>2 DEF Current, BufferState
<1>4. d \in {0, 2} /\ d = Decimals(p, FALSE)
  BY <1>1 DEF Decimals
<1>5. PICK r \in Roundings(d) :
        LET s1 == DecimalsChanged(r, p, s0)
            s2 == OnLocalPadBufferChanged(IF p THEN 150 ELSE 6, s1)
        IN  /\ poll' = p
            /\ decimals' = d
            /\ box' = r
            /\ Commit(IF hosting THEN ServerAdjustMinimum(0, s2) ELSE s2)
  BY DEF ApplyChangeGame
<1> DEFINE s1 == DecimalsChanged(r, p, s0)
           x == IF p THEN 150 ELSE 6
           s2 == OnLocalPadBufferChanged(x, s1)
<1>6. r \in [Boxes -> Nat]
  BY <1>1, <1>4, RoundingsNat
<1>7. s1 \in BufferState /\ AllOff(s1.inbox)
  BY <1>2, <1>3, <1>6, DecimalsChangedType, DecimalsChangedOff DEF BInv
<1>8. /\ s2 \in BufferState
      /\ s2.ui = Append(s1.ui, [k |-> "local", n |-> x])
      /\ s2.inbox = s1.inbox /\ s2.buf["local"] = x
  <2>1. x \in Nat
    OBVIOUS
  <2>2. s2 \in BufferState
    BY <1>7, <2>1, OnLocalPadBufferChangedType
  <2> QED
    BY <1>7, <2>2 DEF OnLocalPadBufferChanged, BufferState, Boxes
<1>9. /\ uiQueue' = Append(s1.ui, [k |-> "local", n |-> x])
      /\ size'["local"] = x
      /\ AllOff(netInbox')
      /\ hosting => HasKey(netInbox', "min")
  <2>1. s1.ui \in Seq(NatMessage) /\ s1.inbox \in Seq(NatMessage)
    BY <1>7 DEF BufferState
  <2>2. CASE hosting
    <3>0. Commit(ServerAdjustMinimum(0, s2))
      BY <1>5, <2>2
    <3>1. /\ netInbox' = Append(s2.inbox, [k |-> "min", n |-> 0])
          /\ uiQueue' = s2.ui /\ size' = s2.buf
      BY <1>8, <3>0 DEF Commit, ServerAdjustMinimum, BufferState
    <3> QED
      BY <1>7, <1>8, <2>1, <3>1, AppendSame, AllOffAppend
  <2>3. CASE ~hosting
    <3>1. netInbox' = s2.inbox /\ uiQueue' = s2.ui /\ size' = s2.buf
      BY <1>5, <2>3 DEF Commit
    <3> QED
      BY <1>7, <1>8, <2>3, <3>1
  <2> QED
    BY <2>2, <2>3
<1>10. Heading("local")'
  <2>1. s1.ui \in Seq(NatMessage)
    BY <1>7 DEF BufferState
  <2> QED
    BY <1>9, <2>1, AppendSame DEF Heading
<1>11. \A b \in Boxes : box'[b] \in Rounded(box'[b], decimals')
  <2>1. r["min"] \in Rounded(box["min"], d) /\ r["local"] \in Rounded(box["local"], d)
    BY <1>5 DEF Roundings
  <2>2. r["min"] \in Rounded(r["min"], d) /\ r["local"] \in Rounded(r["local"], d)
    BY <1>1, <1>4, <2>1, RoundedIdem DEF Boxes
  <2> QED
    BY <1>5, <2>2 DEF Boxes
<1> QED
  BY <1>1, <1>4, <1>5, <1>9, <1>10, <1>11, BInvPrime DEF ApplyChangeGame

-----------------------------------------------------------------------------
(* The theorem.                                                            *)

\* With authority off, every step of the UI thread, the network thread and
\* the server keeps BInv.
LEMMA BInvStep ==
  ASSUME Authority \subseteq {FALSE}
  PROVE  BInv /\ [Next]_vars => BInv'
<1> SUFFICES ASSUME BInv, [Next]_vars PROVE BInv'
  OBVIOUS
<1>1. IInv'
  BY IInvStep DEF BInv
<1>2. CASE UNCHANGED vars
  BY <1>2 DEF vars, BInv, IInv, TypeOK, Current, AllOff, Heading, Settled,
     HasKey, LastIs
<1>3. CASE Next
  <2>1. hosting' = hosting
    BY <1>3 DEF Next
  <2>2. CASE \E b \in Boxes, v \in TypedValues : UserEdit(b, v)
    BY <1>1, <2>1, <2>2, UserEditStep
  <2>3. CASE ClickWarning
    BY <1>1, <2>1, <2>3, ClickWarningStep
  <2>4. CASE ApplySetValue
    BY <1>1, <2>1, <2>4, ApplySetValueStep
  <2>5. CASE ApplyAuthority \/ NetChangeGame
    BY <1>1, <2>1, <2>5, PassThroughStep
  <2>6. CASE ApplyChangeGame
    BY <1>1, <2>1, <2>6, ApplyChangeGameStep
  <2>7. CASE NetMinimumChanged
    BY <1>1, <2>1, <2>7, NetMinimumStep
  <2>8. CASE NetAuthorityChanged
    BY <1>1, <2>1, <2>8, NetAuthorityStep
  <2>9. CASE \/ \E p \in BOOLEAN : ChangeGame(p)
             \/ \E a \in Authority : SetHostInputAuthority(a)
             \/ \E n \in RemoteValues : RemoteMinimumChanged(n)
    BY <1>1, <2>1, <2>9, ServerStep
  <2> QED
    BY <1>3, <2>2, <2>3, <2>4, <2>5, <2>6, <2>7, <2>8, <2>9 DEF Next
<1> QED
  BY <1>2, <1>3

\* The dialog starts with both boxes showing their buffers of 0 and
\* nothing in flight.
LEMMA InitBInv == Init => BInv
<1> SUFFICES ASSUME Init PROVE BInv
  OBVIOUS
<1>1. IInv
  BY InitIInv
<1>2. \A b \in Boxes : box[b] \in Rounded(box[b], decimals)
  BY DEF Init, Rounded, Decimals
<1>3. ~HasKey(uiQueue, "local") /\ ~HasKey(uiQueue, "min")
  BY DEF Init, HasKey
<1>4. Settled("local") /\ Settled("min")
  BY DEF Init, Settled, ToBox, Boxes
<1>5. hia = FALSE /\ AllOff(netInbox) /\ decimals = Decimals(poll, FALSE)
  BY DEF Init, AllOff
<1>6. Heading("local") /\ Heading("min")
  BY <1>3, <1>4 DEF Heading
<1> QED
  BY <1>1, <1>2, <1>5, <1>6 DEF BInv

\* With nothing in flight, where each box is headed is where it is.
LEMMA BInvShows == BInv => BoxShowsBuffer
<1> SUFFICES ASSUME BInv, Quiescent PROVE \A b \in Shown : Settled(b)
  BY DEF BoxShowsBuffer, Settled
<1>1. ~HasKey(uiQueue, "local") /\ ~HasKey(uiQueue, "min") /\ ~HasKey(netInbox, "min")
  BY DEF Quiescent, HasKey
<1>2. Settled("local") /\ (hosting => Settled("min"))
  BY <1>1 DEF BInv, Heading
<1> QED
  BY <1>2 DEF Shown, Boxes

\* For every set of typed values, remote minimums and queue bound, with host
\* input authority off: whenever no message is in the network inbox and no
\* lambda on the UI queue, each box the dialog shows displays the buffer
\* behind it in the title's units (up to the truncation of (int)(value *
\* 100)), however the user's edits, the warning button, the server's
\* echoes, remote minimums and game changes interleave.
THEOREM BoxShowsBufferHolds ==
  ASSUME Authority \subseteq {FALSE}
  PROVE  Spec => []BoxShowsBuffer
<1>1. Init => BInv
  BY InitBInv
<1>2. BInv /\ [Next]_vars => BInv'
  BY BInvStep
<1>3. BInv => BoxShowsBuffer
  BY BInvShows
<1> QED
  BY <1>1, <1>2, <1>3, PTL DEF Spec

====
