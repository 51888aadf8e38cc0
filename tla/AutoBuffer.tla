----------------------------- MODULE AutoBuffer -----------------------------
(***************************************************************************)
(* The host side of automatic buffer sizing in NetPlayDialog: the "Auto"   *)
(* button, the 1 Hz sample timer, SampleAutoBuffer and                     *)
(* CalculateBufferFromSamples, together with the handlers that run on the  *)
(* same UI thread and touch the same widgets or the same minimum buffer:   *)
(* a manual edit of the minimum buffer box, OnMsgChangeGame and            *)
(* OnHostInputAuthorityChanged.  The server's view of the players (who is  *)
(* connected, their ping) is the environment; FindLongestRoute is taken    *)
(* from its contract, the server being outside this repository.            *)
(***************************************************************************)
EXTENDS Integers, Sequences, FiniteSets

CONSTANTS
  Peers,        \* players connected to the host, other than the host
  Null,         \* the nullptr of NetRoute.from / NetRoute.to
  Pings,        \* the round-trip times (ms) the transport may report
  Games,        \* titles the host can pick in the game list
  NoGame,       \* m_current_game before any ChangeGame: not in the list
  PollGames,    \* titles whose game INI sets MAIN_POLL_ON_SIREAD
  PalGames,     \* titles whose region is PAL
  BasePoll,     \* MAIN_POLL_ON_SIREAD without a game layer
  ManualBuffers \* values the host can type into the minimum buffer box

ASSUME PeersAssumption == Null \notin Peers
ASSUME PingsAssumption == Pings \subseteq Nat /\ Pings # {}
ASSUME GamesAssumption == /\ NoGame \notin Games
                          /\ PollGames \subseteq Games
                          /\ PalGames \subseteq Games
ASSUME BasePollAssumption == BasePoll \in BOOLEAN
ASSUME ManualBuffersAssumption == ManualBuffers \subseteq Nat

VARIABLES
  hosting,       \* Settings::GetNetPlayServer() != nullptr
  peers,         \* connected players, as the server sees them
  rtt,           \* their last measured ping
  game,          \* m_current_game
  hia,           \* m_host_input_authority
  minBuffer,     \* the server's minimum pad buffer (hundredths or frames)
  samples,       \* m_auto_buffer_samples
  timerActive,   \* m_auto_buffer_sample_timer is running
  autoEnabled,   \* m_auto_buffer_button is enabled
  minBoxEnabled, \* m_minimum_buffer_size_box is enabled
  lastAuto,      \* history: the pings of the last finished run, accepted?
  autoApplied    \* history: minBuffer was last written by the sampler

vars == <<hosting, peers, rtt, game, hia, minBuffer, samples, timerActive,
          autoEnabled, minBoxEnabled, lastAuto, autoApplied>>

\* m_auto_buffer_sample_amount
SampleAmount == 3

Route == [from : Peers \cup {Null}, to : Peers \cup {Null}, ping : Nat]

NoRoute == [from |-> Null, to |-> Null, ping |-> 0]

-----------------------------------------------------------------------------
(* Reading the configuration with the selected game's layers.              *)

\* FindGameFile(m_current_game) != nullptr: every title the host picks comes
\* from its own game list.
GameFound(g) == g \in Games

\* GetConfigOptionWithSelectedGame(Config::MAIN_POLL_ON_SIREAD): the game
\* layers are pushed only when the game is found, otherwise the base value.
GetPollOnSIRead(g) == IF GameFound(g) THEN g \in PollGames ELSE BasePoll

MeetsAutoBufferConditions(g) ==
  /\ GameFound(g)
  /\ g \notin PalGames
  /\ GetPollOnSIRead(g)

-----------------------------------------------------------------------------
(* NetPlayServer::FindLongestRoute, from its contract: no peer, one peer   *)
(* towards the server, or the pair of peers whose two legs through the     *)
(* server add up to the most.  The set of routes the server may return:    *)
(* which of several longest ones it picks is not known here.               *)

PeerPairs == {pq \in peers \X peers : pq[1] # pq[2]}

PairRoutes ==
  {[from |-> pq[1], to |-> pq[2], ping |-> rtt[pq[1]] + rtt[pq[2]]] :
     pq \in PeerPairs}

FindLongestRoute ==
  IF peers = {} THEN {NoRoute}
  ELSE IF PeerPairs = {}
    THEN {[from |-> p, to |-> Null, ping |-> rtt[p]] : p \in peers}
  ELSE {r \in PairRoutes : \A q \in PairRoutes : q.ping <= r.ping}

-----------------------------------------------------------------------------
(* CalculateBufferFromSamples                                              *)

\* The sum the averaging loop computes.  SampleAutoBuffer calls
\* CalculateBufferFromSamples only on a full list of SampleAmount = 3 samples
\* (SamplerConsistent: the list holds fewer than 3 before the append), so
\* both loops run over these three samples.
PingSum(s) == s[1].ping + s[2].ping + s[3].ping

\* The pings of a list of samples, for the history.
SamplePings(s) == [i \in 1..Len(s) |-> s[i].ping]

AbsValue(n) == IF n < 0 THEN -n ELSE n

\* sample_difference: the first ping times the number of samples, minus the
\* pings of samples 1 .. size-1 (the loop starts at index 1).
SampleDifference(s) ==
  AbsValue(s[1].ping * Len(s) - (PingSum(s) - s[1].ping))

\* average_ping: integer division of the sum.
AveragePing(s) == PingSum(s) \div Len(s)

\* OnMinimumPadBufferChanged: the server has taken a new minimum buffer and
\* tells the host's client, which stores it in m_minimum_buffer_size (and
\* shows it in the box, in frames or hundredths).  Every write of the
\* minimum buffer in this module reaches the dialog through this callback.
OnMinimumPadBufferChanged(v) == minBuffer' = v

\* A fault to check the checks against: the conversion always one below.
AutoBufferSizesOneBelow(avg) == {(avg * 66) \div 10 - 1}

\* (int)(((average_ping * 1.1) / (1000.0 / 60.0)) * 100): exactly
\* average_ping * 6.6 truncated, except that when that product is a whole
\* number the double computation may land just below it and truncate to
\* one less (it does for 50, 60, 75, 80, ...).
AutoBufferSizes(avg) ==
  LET exact == (avg * 66) \div 10
  IN  IF avg > 0 /\ (avg * 66) % 10 = 0 THEN {exact, exact - 1} ELSE {exact}

\* The whole call on a full list: accept and set the server's minimum buffer,
\* or reject and leave it.
CalculateBufferFromSamples(s) ==
  IF SampleDifference(s) < 100
    THEN /\ \E v \in AutoBufferSizes(AveragePing(s)) : OnMinimumPadBufferChanged(v)
         /\ autoApplied' = TRUE
         /\ lastAuto' = [pings |-> SamplePings(s), accepted |-> TRUE]
    ELSE /\ lastAuto' = [pings |-> SamplePings(s), accepted |-> FALSE]
         /\ UNCHANGED <<minBuffer, autoApplied>>

-----------------------------------------------------------------------------
(* SampleAutoBuffer, called by the button and by every timer tick.  While  *)
(* sampling goes on the two widgets keep the values busyAuto and busyBox   *)
(* the caller gave them; both exits restore them, clear the list and stop  *)
(* the timer.                                                              *)

\* Faults to check the checks against: an exit that forgets to clear the
\* list, and one that forgets to re-enable the minimum buffer box.
StopSamplingKeepsSamples ==
  /\ autoEnabled' = MeetsAutoBufferConditions(game)
  /\ minBoxEnabled' = TRUE
  /\ UNCHANGED samples
  /\ timerActive' = FALSE

StopSamplingKeepsBoxDisabled ==
  /\ autoEnabled' = MeetsAutoBufferConditions(game)
  /\ UNCHANGED minBoxEnabled
  /\ samples' = << >>
  /\ timerActive' = FALSE

StopSampling ==
  /\ autoEnabled' = MeetsAutoBufferConditions(game)
  /\ minBoxEnabled' = TRUE
  /\ samples' = << >>
  /\ timerActive' = FALSE

SampleAutoBuffer(busyAuto, busyBox) ==
  \E r \in FindLongestRoute :
    LET s == Append(samples, r) IN
    \/ \* fewer than two players: abort
       /\ r.from = Null \/ r.to = Null
       /\ StopSampling
       /\ UNCHANGED <<minBuffer, lastAuto, autoApplied>>
    \/ /\ r.from # Null /\ r.to # Null
       /\ Len(s) >= SampleAmount
       /\ CalculateBufferFromSamples(s)
       /\ StopSampling
    \/ /\ r.from # Null /\ r.to # Null
       /\ Len(s) < SampleAmount
       /\ samples' = s
       /\ timerActive' = TRUE
       /\ autoEnabled' = busyAuto
       /\ minBoxEnabled' = busyBox
       /\ UNCHANGED <<minBuffer, lastAuto, autoApplied>>

-----------------------------------------------------------------------------
(* Actions                                                                 *)

Init ==
  /\ hosting = TRUE
  /\ peers = {}
  /\ rtt = [p \in Peers |-> CHOOSE v \in Pings : TRUE]
  /\ game = NoGame
  /\ hia = FALSE
  /\ minBuffer \in ManualBuffers
  /\ samples = << >>
  /\ timerActive = FALSE
  /\ autoEnabled = MeetsAutoBufferConditions(NoGame)
  /\ minBoxEnabled = TRUE
  /\ lastAuto = [pings |-> << >>, accepted |-> FALSE]
  /\ autoApplied = FALSE

\* The "Auto" button: disable both controls, start the timer, sample once.
ClickAutoBuffer ==
  /\ hosting
  /\ autoEnabled
  /\ SampleAutoBuffer(FALSE, FALSE)
  /\ UNCHANGED <<hosting, peers, rtt, game, hia>>

\* A timeout of the sample timer.  It dereferences the server, which exists
\* only while hosting (SamplerNeverOutlivesServer is about the other case).
TimerTick ==
  /\ timerActive
  /\ hosting
  /\ SampleAutoBuffer(autoEnabled, minBoxEnabled)
  /\ UNCHANGED <<hosting, peers, rtt, game, hia>>

\* valueChanged of the minimum buffer box: a new value goes to the server.
AdjustMinimumBuffer(v) ==
  /\ hosting
  /\ minBoxEnabled
  /\ v # minBuffer
  /\ OnMinimumPadBufferChanged(v)
  /\ autoApplied' = FALSE
  /\ UNCHANGED <<hosting, peers, rtt, game, hia, samples, timerActive,
                 autoEnabled, minBoxEnabled, lastAuto>>

\* OnMsgChangeGame's queued lambda on the host: record the title, re-derive
\* the auto button, reset the minimum buffer to 0.  The sampler is left alone.
OnMsgChangeGame(g) ==
  /\ hosting
  /\ game' = g
  /\ autoEnabled' = MeetsAutoBufferConditions(g)
  /\ OnMinimumPadBufferChanged(0)
  /\ autoApplied' = FALSE
  /\ UNCHANGED <<hosting, peers, rtt, hia, samples, timerActive,
                 minBoxEnabled, lastAuto>>

\* The host toggles the authority box; the server echoes the change to the
\* host's client, whose handler enables the buffer controls iff
\* is_hosting != enabled.
OnHostInputAuthorityChanged(b) ==
  /\ hosting
  /\ b # hia
  /\ hia' = b
  /\ minBoxEnabled' = ~b
  /\ autoEnabled' = (MeetsAutoBufferConditions(game) /\ ~b)
  /\ UNCHANGED <<hosting, peers, rtt, game, minBuffer, samples, timerActive,
                 lastAuto, autoApplied>>

\* The transport: players connect and leave, pings change.
PeerJoin(p, v) ==
  /\ hosting
  /\ p \notin peers
  /\ peers' = peers \cup {p}
  /\ rtt' = [rtt EXCEPT ![p] = v]
  /\ UNCHANGED <<hosting, game, hia, minBuffer, samples, timerActive,
                 autoEnabled, minBoxEnabled, lastAuto, autoApplied>>

PeerLeave(p) ==
  /\ p \in peers
  /\ peers' = peers \ {p}
  /\ UNCHANGED <<hosting, rtt, game, hia, minBuffer, samples, timerActive,
                 autoEnabled, minBoxEnabled, lastAuto, autoApplied>>

PingChange(p, v) ==
  /\ p \in peers
  /\ rtt[p] # v
  /\ rtt' = [rtt EXCEPT ![p] = v]
  /\ UNCHANGED <<hosting, peers, game, hia, minBuffer, samples, timerActive,
                 autoEnabled, minBoxEnabled, lastAuto, autoApplied>>

\* reject() confirmed: the dialog hides and its owner destroys the server.
\* Nothing stops the sample timer.
Quit ==
  /\ hosting
  /\ hosting' = FALSE
  /\ peers' = {}
  /\ UNCHANGED <<rtt, game, hia, minBuffer, samples, timerActive,
                 autoEnabled, minBoxEnabled, lastAuto, autoApplied>>

Next ==
  \/ ClickAutoBuffer
  \/ TimerTick
  \/ \E v \in ManualBuffers : AdjustMinimumBuffer(v)
  \/ \E g \in Games : OnMsgChangeGame(g)
  \/ \E b \in BOOLEAN : OnHostInputAuthorityChanged(b)
  \/ \E p \in Peers, v \in Pings : PeerJoin(p, v) \/ PingChange(p, v)
  \/ \E p \in Peers : PeerLeave(p)

\* The timer is a Qt timer on the UI thread: it keeps firing while it runs.
Spec == Init /\ [][Next]_vars /\ WF_vars(TimerTick)

\* The same session, ended by the host quitting.
NextWithQuit == Next \/ Quit

SpecWithQuit == Init /\ [][NextWithQuit]_vars /\ WF_vars(TimerTick)

-----------------------------------------------------------------------------
(* Properties                                                              *)

TypeOK ==
  /\ hosting \in BOOLEAN
  /\ peers \subseteq Peers
  /\ rtt \in [Peers -> Pings]
  /\ game \in Games \cup {NoGame}
  /\ hia \in BOOLEAN
  /\ minBuffer \in Nat
  /\ samples \in Seq(Route)
  /\ timerActive \in BOOLEAN
  /\ autoEnabled \in BOOLEAN
  /\ minBoxEnabled \in BOOLEAN
  /\ lastAuto \in [pings : Seq(Nat), accepted : BOOLEAN]
  /\ autoApplied \in BOOLEAN

\* Both exits of SampleAutoBuffer stop the timer and clear the list, so the
\* timer runs exactly while a run is in progress, the list never reaches the
\* sample amount between ticks, and it only holds routes between two players
\* (a one-player route aborts the run the moment it is taken).
SamplerConsistent ==
  /\ timerActive <=> samples # << >>
  /\ Len(samples) < SampleAmount
  /\ \A i \in 1..Len(samples) : samples[i].from # Null /\ samples[i].to # Null

\* Every sampling run ends with the manual minimum-buffer control enabled
\* again, whichever exit it takes.
ControlsRestored == timerActive ~> (~timerActive /\ minBoxEnabled)

\* spec 4.4 step 3: a run is rejected exactly when
\* |3 * sample[0] - sum of the samples| >= 100.  Three equal pings are
\* stable and must be accepted.
StableSamplesAccepted ==
  LET p == lastAuto.pings IN
  p # << >> => (AbsValue(3 * p[1] - (p[1] + p[2] + p[3])) < 100 => lastAuto.accepted)

\* spec 4.1 ChangeGame resets an in-flight sampling run: a minimum buffer
\* written by the sampler is in hundredths of a frame, so the current game
\* must be one whose buffer is counted in hundredths (poll on SI read;
\* whether the title is PAL does not change its units).  A buffer of 0 is
\* the same in both units.
AutoBufferInGameUnits == autoApplied /\ minBuffer # 0 => GetPollOnSIRead(game)

\* spec 4.4: the automatic (and shared) buffer controls are disabled while
\* host input authority is on.
BufferControlsFollowAuthority == hia => ~autoEnabled /\ ~minBoxEnabled

\* The sample timer never runs once the server it samples is gone.
SamplerNeverOutlivesServer == timerActive => hosting

=============================================================================
