---------------------------- MODULE BufferUnits ----------------------------
(***************************************************************************)
(* The two buffer spin boxes of NetPlayDialog and the two integers behind  *)
(* them, m_minimum_buffer_size and m_local_buffer_size.                    *)
(*                                                                         *)
(* A buffer is an integer in hundredths of a frame when the selected title *)
(* polls on SI read and in whole frames otherwise.  The boxes show it as a *)
(* double, with 2 decimals when the title polls and host input authority   *)
(* is off, with 0 decimals otherwise.  A box value is kept here multiplied *)
(* by 100 (3.25 frames is 325, 4 frames is 400).                           *)
(*                                                                         *)
(* Three contexts take part:                                               *)
(*  - the UI thread: the user's edits, the warning button, and the lambdas *)
(*    QueueOnObject posted (uiQueue);                                      *)
(*  - the client's network thread: OnMinimumPadBufferChanged,              *)
(*    OnHostInputAuthorityChanged and OnMsgChangeGame, run for each        *)
(*    message of netInbox in order;                                        *)
(*  - the server, which turns a host's requests into messages to everyone. *)
(* NetPlayClient::AdjustLocalPadBufferSize is local: it calls              *)
(* OnLocalPadBufferChanged at once, on the calling thread.                 *)
(***************************************************************************)
EXTENDS Integers, Sequences

CONSTANTS
  TypedValues,    \* box values (x 100) a user may type or step to
  Lossy,          \* the typed v with (int)(v / 100.0 * 100) = v - 1 in IEEE doubles
  RemoteValues,   \* minimum buffers a remote host's server may announce
  Authority,      \* host input authority values the host may select
  MaxQueue        \* bound on the messages and lambdas in flight

ASSUME BufferUnitsAssumption ==
  /\ \A v \in TypedValues : v \in Nat /\ v <= 1000000   \* setRange(0, 10000), x 100
  /\ Lossy \subseteq {v \in TypedValues : v % 100 # 0}
  /\ RemoteValues \subseteq Nat
  /\ Authority \subseteq BOOLEAN
  /\ MaxQueue \in Nat

VARIABLES
  box,            \* [Boxes -> Nat]: each QDoubleSpinBox's value x 100
  decimals,       \* the decimals both boxes were last set to (0 or 2)
  size,           \* [Boxes -> Int]: m_minimum_buffer_size, m_local_buffer_size
  hia,            \* m_host_input_authority
  poll,           \* MAIN_POLL_ON_SIREAD of m_current_game
  warningHidden,  \* m_local_under_minimum_warning->isHidden()
  enabled,        \* the boxes' enabled state (the host's toggles it)
  netInbox,       \* messages to the client's network thread, in order
  uiQueue,        \* lambdas posted to the UI thread, in order
  requested,      \* history: the buffer the user last asked for in each box
  hosting         \* IsHosting(): this dialog's process runs the server

vars == <<box, decimals, size, hia, poll, warningHidden, enabled, netInbox,
          uiQueue, requested, hosting>>

Boxes == {"min", "local"}

\* show() hides the minimum buffer box on a dialog that is not hosting.
Shown == IF hosting THEN Boxes ELSE {"local"}

\* No request of the user stands for a box.
NoRequest == -1

\* The units the spec gives a buffer: hundredths of a frame only when the
\* title polls on SI read and host input authority is off.
SpecBuffer(v) == IF poll /\ ~hia THEN v ELSE v \div 100

(***************************************************************************)
(* Conversions.                                                            *)
(***************************************************************************)

\* QDoubleSpinBox rounds a value to its decimals; to 0 decimals it takes the
\* nearest whole frame, and a tie (x.5) may go either way.
Rounded(v, d) ==
  IF d = 2 THEN {v}
  ELSE IF v % 100 = 50 THEN {v - 50, v + 50}
  ELSE {((v + 50) \div 100) * 100}

\* Mutant: every hundredths value loses one, as if the product were always
\* just below the integer.
ToBufferAlwaysLossy(v, p) == IF p THEN v - 1 ELSE v \div 100

\* The ivalue of a box's valueChanged lambda: (int)(value * 100) when the
\* title polls, which loses one for the Lossy values, (int)value otherwise.
ToBuffer(v, p) ==
  IF p THEN (IF v \in Lossy THEN v - 1 ELSE v) ELSE v \div 100

\* setValue(buffer / 100.0) when the title polls, setValue(buffer) otherwise.
ToBox(n, p) == IF p THEN n ELSE n * 100

\* The decimals the code chooses for a title and an authority setting.
Decimals(p, a) == IF p /\ ~a THEN 2 ELSE 0

\* setHidden(m_local_buffer_size >= m_minimum_buffer_size || m_host_input_authority)
Hidden(s, a) == s["local"] >= s["min"] \/ a

(***************************************************************************)
(* The writes of a handler to size, netInbox and uiQueue, threaded through *)
(* a record so that the calls it makes happen in the code's order.         *)
(***************************************************************************)
Current == [buf |-> size, inbox |-> netInbox, ui |-> uiQueue]

Commit(s) ==
  /\ size' = s.buf
  /\ netInbox' = s.inbox
  /\ uiQueue' = s.ui

\* The server's AdjustMinimumPadBufferSize: a message to every client.
ServerAdjustMinimum(n, s) ==
  [s EXCEPT !.inbox = Append(@, [k |-> "min", n |-> n])]

\* Mutant: m_local_buffer_size is written but no setValue is posted.
OnLocalPadBufferChangedNoEcho(n, s) ==
  [s EXCEPT !.buf = [@ EXCEPT !["local"] = n]]

\* NetPlayClient::AdjustLocalPadBufferSize then OnLocalPadBufferChanged:
\* the setValue lambda is posted, m_local_buffer_size written.
OnLocalPadBufferChanged(n, s) ==
  [s EXCEPT !.ui = Append(@, [k |-> "local", n |-> n]),
            !.buf = [@ EXCEPT !["local"] = n]]

\* A box's valueChanged lambda for value v, with title polling p.
ValueChanged(b, v, p, s) ==
  LET n == ToBuffer(v, p) IN
  IF n = s.buf[b] THEN s
  ELSE IF b = "local" THEN OnLocalPadBufferChanged(n, s)
  ELSE IF hosting THEN ServerAdjustMinimum(n, s)
  ELSE s

\* setDecimals on the minimum box, then on the local box: a box whose value
\* the new decimals round to r[b] emits valueChanged (no blocker is held).
DecimalsChanged(r, p, s) ==
  LET s1 == IF r["min"] # box["min"] THEN ValueChanged("min", r["min"], p, s) ELSE s
  IN  IF r["local"] # box["local"] THEN ValueChanged("local", r["local"], p, s1) ELSE s1

\* The box values the new decimals d may round the boxes to.
Roundings(d) ==
  {[min |-> x, local |-> y] : x \in Rounded(box["min"], d), y \in Rounded(box["local"], d)}

InFlight == Len(netInbox) + Len(uiQueue) < MaxQueue

(***************************************************************************)
(* UI thread.                                                              *)
(***************************************************************************)

\* The user types or steps box b to v; its valueChanged lambda runs.
UserEdit(b, v) ==
  /\ b \in Shown
  /\ enabled
  /\ InFlight
  /\ v # box[b]
  /\ v \in Rounded(v, decimals)
  /\ box' = [box EXCEPT ![b] = v]
  /\ Commit(ValueChanged(b, v, poll, Current))
  /\ warningHidden' = Hidden(size', hia)
  /\ requested' = [requested EXCEPT ![b] = SpecBuffer(v)]
  /\ UNCHANGED <<decimals, hia, poll, enabled>>

\* The warning button sets the local buffer to m_minimum_buffer_size.
ClickWarning ==
  /\ ~warningHidden
  /\ InFlight
  /\ Commit(OnLocalPadBufferChanged(size["min"], Current))
  /\ warningHidden' = Hidden(size', hia)
  /\ requested' = [requested EXCEPT !["local"] = size["min"]]
  /\ UNCHANGED <<box, decimals, hia, poll, enabled>>

\* Mutant: the lambda always calls setValue(buffer), the frames branch.
ApplySetValueFrames ==
  /\ uiQueue # << >>
  /\ Head(uiQueue).k \in Boxes
  /\ LET m == Head(uiQueue) IN
       \E x \in Rounded(m.n * 100, decimals) :
         box' = [box EXCEPT ![m.k] = x]
  /\ uiQueue' = Tail(uiQueue)
  /\ UNCHANGED <<decimals, size, hia, poll, warningHidden, enabled, netInbox, requested>>

\* The lambda of OnMinimumPadBufferChanged or OnLocalPadBufferChanged: under
\* a QSignalBlocker, setValue of the buffer in the title's units.
ApplySetValue ==
  /\ uiQueue # << >>
  /\ Head(uiQueue).k \in Boxes
  /\ LET m == Head(uiQueue) IN
       \E x \in Rounded(ToBox(m.n, poll), decimals) :
         box' = [box EXCEPT ![m.k] = x]
  /\ uiQueue' = Tail(uiQueue)
  /\ UNCHANGED <<decimals, size, hia, poll, warningHidden, enabled, netInbox, requested>>

\* The lambda of OnHostInputAuthorityChanged: a host enables the boxes
\* exactly when authority is off.
ApplyAuthority ==
  /\ uiQueue # << >>
  /\ Head(uiQueue).k = "hia"
  /\ enabled' = IF hosting THEN hosting # Head(uiQueue).on ELSE enabled
  /\ uiQueue' = Tail(uiQueue)
  /\ UNCHANGED <<box, decimals, size, hia, poll, warningHidden, netInbox, requested>>

\* The lambda of OnMsgChangeGame: m_current_game, then the decimals, then
\* the default local buffer and, on a host, a minimum buffer of 0.
ApplyChangeGame ==
  /\ uiQueue # << >>
  /\ Head(uiQueue).k = "game"
  /\ LET p == Head(uiQueue).on
         d == Decimals(p, hia)
         s0 == [Current EXCEPT !.ui = Tail(@)]
     IN  \E r \in Roundings(d) :
           LET s1 == DecimalsChanged(r, p, s0)
               s2 == OnLocalPadBufferChanged(IF p THEN 150 ELSE 6, s1)
           IN  /\ poll' = p
               /\ decimals' = d
               /\ box' = r
               /\ Commit(IF hosting THEN ServerAdjustMinimum(0, s2) ELSE s2)
  /\ warningHidden' = Hidden(size', hia)
  /\ requested' = [b \in Boxes |-> NoRequest]
  /\ UNCHANGED <<hia, enabled>>

(***************************************************************************)
(* The client's network thread.                                            *)
(***************************************************************************)

\* OnMinimumPadBufferChanged: post setValue, write m_minimum_buffer_size.
NetMinimumChanged ==
  /\ netInbox # << >>
  /\ Head(netInbox).k = "min"
  /\ LET n == Head(netInbox).n IN
       /\ uiQueue' = Append(uiQueue, [k |-> "min", n |-> n])
       /\ size' = [size EXCEPT !["min"] = n]
  /\ netInbox' = Tail(netInbox)
  /\ warningHidden' = Hidden(size', hia)
  /\ UNCHANGED <<box, decimals, hia, poll, enabled, requested>>

\* OnHostInputAuthorityChanged: post the enable lambda, write the flag and
\* the warning, then set the decimals from this thread, which rounds the
\* boxes and runs their valueChanged lambdas here.
NetAuthorityChanged ==
  /\ netInbox # << >>
  /\ Head(netInbox).k = "hia"
  /\ LET a == Head(netInbox).on
         d == Decimals(poll, a)
         s0 == [Current EXCEPT !.inbox = Tail(@),
                               !.ui = Append(@, [k |-> "hia", on |-> a])]
     IN  /\ hia' = a
         /\ decimals' = d
         /\ \E r \in Roundings(d) :
              /\ box' = r
              /\ Commit(DecimalsChanged(r, poll, s0))
  /\ warningHidden' = Hidden(size', hia')
  /\ UNCHANGED <<poll, enabled, requested>>

\* OnMsgChangeGame posts its lambda.
NetChangeGame ==
  /\ netInbox # << >>
  /\ Head(netInbox).k = "game"
  /\ uiQueue' = Append(uiQueue, Head(netInbox))
  /\ netInbox' = Tail(netInbox)
  /\ UNCHANGED <<box, decimals, size, hia, poll, warningHidden, enabled, requested>>

(***************************************************************************)
(* The server: the host's game button and authority checkbox, or a remote *)
(* host's, and a remote host's minimum buffer.                             *)
(***************************************************************************)
ChangeGame(p) ==
  /\ InFlight
  /\ netInbox' = Append(netInbox, [k |-> "game", on |-> p])
  /\ UNCHANGED <<box, decimals, size, hia, poll, warningHidden, enabled, uiQueue, requested>>

SetHostInputAuthority(a) ==
  /\ InFlight
  /\ netInbox' = Append(netInbox, [k |-> "hia", on |-> a])
  /\ UNCHANGED <<box, decimals, size, hia, poll, warningHidden, enabled, uiQueue, requested>>

RemoteMinimumChanged(n) ==
  /\ ~hosting
  /\ InFlight
  /\ netInbox' = Append(netInbox, [k |-> "min", n |-> n])
  /\ UNCHANGED <<box, decimals, size, hia, poll, warningHidden, enabled, uiQueue, requested>>

(***************************************************************************)
(* The dialog is built with both buffers 0, authority off and the decimals *)
(* of the configured title.                                                *)
(***************************************************************************)
Init ==
  /\ poll \in BOOLEAN
  /\ hia = FALSE
  /\ decimals = Decimals(poll, FALSE)
  /\ box = [b \in Boxes |-> 0]
  /\ size = [b \in Boxes |-> 0]
  /\ warningHidden = TRUE
  /\ enabled = TRUE
  /\ netInbox = << >>
  /\ uiQueue = << >>
  /\ requested = [b \in Boxes |-> NoRequest]
  /\ hosting \in BOOLEAN

\* Whether the dialog hosts is fixed when it is shown.
Next ==
  /\ UNCHANGED hosting
  /\ \/ \E b \in Boxes, v \in TypedValues : UserEdit(b, v)
     \/ ClickWarning
     \/ ApplySetValue
     \/ ApplyAuthority
     \/ ApplyChangeGame
     \/ NetMinimumChanged
     \/ NetAuthorityChanged
     \/ NetChangeGame
     \/ \E p \in BOOLEAN : ChangeGame(p)
     \/ \E a \in Authority : SetHostInputAuthority(a)
     \/ \E n \in RemoteValues : RemoteMinimumChanged(n)

Spec == Init /\ [][Next]_vars

(***************************************************************************)
(* Properties.                                                             *)
(***************************************************************************)

\* A message or lambda: a buffer for a box, or an authority or title flag.
Message == [k : {"min", "local"}, n : Int] \cup [k : {"hia", "game"}, on : BOOLEAN]

\* Every variable holds a value of its type.
TypeOK ==
  /\ box \in [Boxes -> Nat]
  /\ decimals \in {0, 2}
  /\ size \in [Boxes -> Int]
  /\ hia \in BOOLEAN /\ poll \in BOOLEAN
  /\ warningHidden \in BOOLEAN /\ enabled \in BOOLEAN
  /\ netInbox \in Seq(Message) /\ uiQueue \in Seq(Message)
  /\ requested \in [Boxes -> Int]
  /\ hosting \in BOOLEAN

\* Nothing is in flight between the threads.
Quiescent == netInbox = << >> /\ uiQueue = << >>

\* Once the echoes of OnMinimumPadBufferChanged and OnLocalPadBufferChanged
\* have run, each box on screen shows the buffer behind it in the title's
\* units: the network thread's writes and the UI thread's setValue calls,
\* and the user's edits that the valueChanged lambdas drop, agree.  The one
\* gap allowed is the truncation of (int)(value * 100): a box showing a
\* value of Lossy over a buffer one hundredth below it (the retyped value
\* is dropped because it converts to the buffer already set).
BoxShowsBuffer ==
  Quiescent =>
    \A b \in Shown :
      \/ box[b] = ToBox(size[b], poll)
      \/ poll /\ box[b] \in Lossy /\ size[b] = box[b] - 1

\* The last message or lambda of q for box b carries buffer n.
LastIs(q, b, n) ==
  \E i \in 1..Len(q) :
    /\ q[i].k = b /\ q[i].n = n
    /\ \A j \in i + 1..Len(q) : q[j].k # b

\* Every write of m_minimum_buffer_size or m_local_buffer_size, by a
\* network message, a valueChanged lambda, the warning button or a game
\* change, posts in the same handler the setValue lambda that shows the
\* new buffer, and no echo of an older buffer for that box is queued
\* after it: the box is never left to end on a stale value.
EchoesBufferWrites ==
  [][\A b \in Boxes : size'[b] # size[b] => LastIs(uiQueue', b, size'[b])]_vars

\* Once nothing is in flight, the buffer behind a box is the value the user
\* last typed in it (or the minimum the warning button copied), in the units
\* the spec gives a buffer.
TypedValueApplied ==
  Quiescent =>
    \A b \in Boxes : requested[b] # NoRequest => size[b] = requested[b]

\* The buffer a box is headed for: the last minimum in flight, else the
\* current value.
Target(b) ==
  IF b = "min" /\ \E i \in 1..Len(netInbox) : netInbox[i].k = "min"
  THEN LET i == CHOOSE i \in 1..Len(netInbox) :
                  /\ netInbox[i].k = "min"
                  /\ \A j \in i + 1..Len(netInbox) : netInbox[j].k # "min"
       IN  netInbox[i].n
  ELSE size[b]

\* Turning host input authority on or off (OnHostInputAuthorityChanged)
\* never changes the buffer either box is headed for.
AuthorityToggleKeepsBuffers ==
  [][hia' # hia => \A b \in Boxes : Target(b)' = Target(b)]_vars

=============================================================================
