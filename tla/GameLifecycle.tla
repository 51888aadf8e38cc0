---------------------------- MODULE GameLifecycle ----------------------------
(***************************************************************************)
(* Starting and stopping a NetPlay game, as one player's NetPlayDialog     *)
(* sees it.  Three contexts meet here:                                     *)
(*   - the network thread, where the client handles the server's StartGame *)
(*     and StopGame messages and calls OnMsgStartGame and StopGame;        *)
(*   - the UI thread, a FIFO of posted events: the lambdas QueueOnObject   *)
(*     posts, the queued Boot and Stop signals, and EmulationStateChanged; *)
(*   - the emulation core, which halts on a Stop or on its own.            *)
(* The server (starting a session, stopping it on a RequestStopGame or     *)
(* when another player halts) is the environment.  Game n is the n-th game *)
(* the server starts.                                                      *)
(***************************************************************************)
EXTENDS Naturals, Sequences

CONSTANT MaxGames \* games the server starts in one session (bound)

ASSUME MaxGamesAssumption == MaxGames \in Nat \ {0}

VARIABLES
  session,        \* the server: 0 = lobby, n = game n running
  started,        \* games the server has started
  inbox,          \* server -> client messages, in order
  uiQueue,        \* events posted to the UI thread, in order
  core,           \* the emulation core: its state and the game it runs
  gotStopRequest, \* m_got_stop_request
  optionsEnabled, \* the enabled state SetOptionsEnabled last set
  halted,         \* history: the game of the last unexpected halt (0: none)
  hosting         \* IsHosting(): the dialog is the host's, for its whole life

\* Everything but the fixed role.
dialogVars == <<session, started, inbox, uiQueue, core, gotStopRequest,
             optionsEnabled, halted>>

vars == <<dialogVars, hosting>>

GameId == 1..MaxGames

Message == [type : {"start", "stop"}, game : GameId]

\* A UI event: its kind, a Boolean argument (running, enabled) and a game.
Event == [kind : {"start", "boot", "stop", "state", "options"},
          arg : BOOLEAN, game : 0..MaxGames]

Ev(k, b, n) == [kind |-> k, arg |-> b, game |-> n]

CoreState == [state : {"idle", "running", "stopping"}, game : 0..MaxGames]

-----------------------------------------------------------------------------
(* The server, from its contract (NetPlayServer is not in this repository).*)

\* The server starts game n and tells every client.
ServerStartGame ==
  /\ session' = started + 1
  /\ started' = started + 1
  /\ inbox' = Append(inbox, [type |-> "start", game |-> started + 1])

\* A fault to check the checks against: the stop broadcast names the game
\* after the session has been reset.
ServerStopGameAfterReset ==
  IF session # 0
    THEN /\ session' = 0
         /\ inbox' = Append(inbox, [type |-> "stop", game |-> session'])
    ELSE UNCHANGED <<session, inbox>>

\* A stop request ends the running game, if any, and tells every client.
ServerStopGame ==
  IF session # 0
    THEN /\ session' = 0
         /\ inbox' = Append(inbox, [type |-> "stop", game |-> session])
    ELSE UNCHANGED <<session, inbox>>

-----------------------------------------------------------------------------
(* The network thread.                                                     *)

\* The client's StartGame message: OnMsgStartGame posts a lambda that calls
\* client->StartGame, which boots through the dialog's BootGame.
NetStartGame ==
  /\ inbox # << >> /\ Head(inbox).type = "start"
  /\ inbox' = Tail(inbox)
  /\ uiQueue' = Append(uiQueue, Ev("start", FALSE, Head(inbox).game))
  /\ UNCHANGED <<session, started, core, gotStopRequest, optionsEnabled,
                 halted>>

\* The client's StopGame message reaches the dialog's StopGame: the first
\* call since the last boot sets the flag and emits Stop, later ones return.
StopGame ==
  /\ inbox # << >> /\ Head(inbox).type = "stop"
  /\ inbox' = Tail(inbox)
  /\ IF gotStopRequest
       THEN UNCHANGED <<gotStopRequest, uiQueue>>
       ELSE /\ gotStopRequest' = TRUE
            /\ uiQueue' = Append(uiQueue, Ev("stop", FALSE, 0))
  /\ UNCHANGED <<session, started, core, optionsEnabled, halted>>

-----------------------------------------------------------------------------
(* The UI thread: one action per kind of event at the head of the queue.   *)

UIHead(k) == uiQueue # << >> /\ Head(uiQueue).kind = k

\* A fault to check the checks against: a boot that keeps the old flag.
BootGameKeepsStopFlag ==
  /\ UIHead("start")
  /\ UNCHANGED gotStopRequest
  /\ uiQueue' = Append(Tail(uiQueue), Ev("boot", FALSE, Head(uiQueue).game))
  /\ UNCHANGED <<session, started, inbox, core, optionsEnabled, halted>>

\* OnMsgStartGame's lambda: client->StartGame(FindGame(...)) calls BootGame,
\* which clears the stop flag and emits Boot.
BootGame ==
  /\ UIHead("start")
  /\ gotStopRequest' = FALSE
  /\ uiQueue' = Append(Tail(uiQueue), Ev("boot", FALSE, Head(uiQueue).game))
  /\ UNCHANGED <<session, started, inbox, core, optionsEnabled, halted>>

\* The Boot signal: the main window starts the game on an idle core.
BootSignal ==
  /\ UIHead("boot")
  /\ IF core.state = "idle"
       THEN /\ core' = [state |-> "running", game |-> Head(uiQueue).game]
            /\ uiQueue' = Append(Tail(uiQueue), Ev("state", TRUE, core'.game))
       ELSE /\ uiQueue' = Tail(uiQueue)
            /\ UNCHANGED core
  /\ UNCHANGED <<session, started, inbox, gotStopRequest, optionsEnabled,
                 halted>>

\* The Stop signal: the main window asks a running core to stop.
StopSignal ==
  /\ UIHead("stop")
  /\ uiQueue' = Tail(uiQueue)
  /\ core' = IF core.state = "running" THEN [core EXCEPT !.state = "stopping"]
                                       ELSE core
  /\ UNCHANGED <<session, started, inbox, gotStopRequest, optionsEnabled,
                 halted>>

\* A fault to check the checks against: the options follow `running`
\* instead of its negation.
GameStatusChangedPostsRunning(running) ==
  /\ uiQueue' = Append(Tail(uiQueue), Ev("options", running, 0))
  /\ IF ~running /\ ~gotStopRequest
       THEN ServerStopGame
       ELSE UNCHANGED <<session, inbox>>

\* GameStatusChanged(running), called with the event at the head of the
\* queue: a halt with no stop request asks the server to stop; either way
\* SetOptionsEnabled(!running) is posted.
GameStatusChanged(running) ==
  /\ uiQueue' = Append(Tail(uiQueue), Ev("options", ~running, 0))
  /\ IF ~running /\ ~gotStopRequest
       THEN ServerStopGame
       ELSE UNCHANGED <<session, inbox>>

\* The EmulationStateChanged connection: the dialog is open, so it calls
\* GameStatusChanged(state != Uninitialized).
OnEmulationStateChanged ==
  /\ UIHead("state")
  /\ GameStatusChanged(Head(uiQueue).arg)
  /\ UNCHANGED <<started, core, gotStopRequest, optionsEnabled, halted>>

\* The lambda GameStatusChanged posted.
SetOptionsEnabled ==
  /\ UIHead("options")
  /\ uiQueue' = Tail(uiQueue)
  /\ optionsEnabled' = Head(uiQueue).arg
  /\ UNCHANGED <<session, started, inbox, core, gotStopRequest, halted>>

\* The host clicks Start; RequestStartGame succeeds, and the options are
\* disabled at once (SetOptionsEnabled(false) is called, not posted).
OnStart ==
  /\ hosting
  /\ optionsEnabled
  /\ session = 0 /\ started < MaxGames
  /\ ServerStartGame
  /\ optionsEnabled' = FALSE
  /\ UNCHANGED <<uiQueue, core, gotStopRequest, halted>>

-----------------------------------------------------------------------------
(* The environment: other players and the emulation core.                  *)

\* Another player hosts and starts a game.
RemoteStart ==
  /\ ~hosting
  /\ session = 0 /\ started < MaxGames
  /\ ServerStartGame
  /\ UNCHANGED <<uiQueue, core, gotStopRequest, optionsEnabled, halted>>

\* Another player's emulation halts: the server stops the game.
RemoteStop ==
  /\ session # 0
  /\ ServerStopGame
  /\ UNCHANGED <<started, uiQueue, core, gotStopRequest, optionsEnabled,
                 halted>>

\* A stopping core reaches Uninitialized.
CoreShutdown ==
  /\ core.state = "stopping"
  /\ core' = [state |-> "idle", game |-> 0]
  /\ uiQueue' = Append(uiQueue, Ev("state", FALSE, core.game))
  /\ UNCHANGED <<session, started, inbox, gotStopRequest, optionsEnabled,
                 halted>>

\* The game ends on this machine without a Stop (the player closes it).
CoreHaltsUnexpectedly ==
  /\ core.state = "running"
  /\ core' = [state |-> "idle", game |-> 0]
  /\ uiQueue' = Append(uiQueue, Ev("state", FALSE, core.game))
  /\ halted' = core.game
  /\ UNCHANGED <<session, started, inbox, gotStopRequest, optionsEnabled>>

-----------------------------------------------------------------------------
(* The dialog opens with no game: m_got_stop_request starts true.          *)
Init ==
  /\ session = 0
  /\ started = 0
  /\ inbox = << >>
  /\ uiQueue = << >>
  /\ core = [state |-> "idle", game |-> 0]
  /\ gotStopRequest = TRUE
  /\ optionsEnabled = TRUE
  /\ halted = 0
  /\ hosting \in BOOLEAN

\* Handling one posted event or one message.
Dialog ==
  \/ NetStartGame \/ StopGame
  \/ BootGame \/ BootSignal \/ StopSignal \/ OnEmulationStateChanged
  \/ SetOptionsEnabled

Environment ==
  \/ OnStart \/ RemoteStart \/ RemoteStop
  \/ CoreShutdown \/ CoreHaltsUnexpectedly

\* Whether the dialog hosts is fixed when it is shown.
Next == (Dialog \/ Environment) /\ UNCHANGED hosting

\* The network thread and the Qt event loop keep handling what is queued,
\* and a core that was asked to stop does stop.  Players, the host and
\* the server's other clients owe nothing.
Spec ==
  /\ Init /\ [][Next]_vars
  /\ WF_dialogVars(NetStartGame) /\ WF_dialogVars(StopGame)
  /\ WF_dialogVars(BootGame) /\ WF_dialogVars(BootSignal) /\ WF_dialogVars(StopSignal)
  /\ WF_dialogVars(OnEmulationStateChanged) /\ WF_dialogVars(SetOptionsEnabled)
  /\ WF_dialogVars(CoreShutdown)

-----------------------------------------------------------------------------
(* Properties                                                              *)

TypeOK ==
  /\ session \in 0..MaxGames
  /\ started \in 0..MaxGames
  /\ inbox \in Seq(Message)
  /\ uiQueue \in Seq(Event)
  /\ core \in CoreState
  /\ gotStopRequest \in BOOLEAN
  /\ optionsEnabled \in BOOLEAN
  /\ halted \in 0..MaxGames
  /\ hosting \in BOOLEAN

\* When this player's game halts on its own while the session still runs
\* it, GameStatusChanged's RequestStopGame eventually ends that game for
\* everyone: the m_got_stop_request guard never swallows a real halt.
UnexpectedHaltEndsSession ==
  \A n \in GameId : (halted = n /\ session = n) ~> (session # n)

\* Once nothing is queued on either thread, the options SetOptionsEnabled
\* last set agree with the core: enabled exactly when no game runs.
OptionsFollowCore ==
  (inbox = << >> /\ uiQueue = << >>) =>
    (optionsEnabled <=> core.state = "idle")

\* The stop request GameStatusChanged sends ends the game whose halt it
\* reports, never a later one (spec 4.2: sent when local emulation halts).
StopRequestEndsOwnGame ==
  [][(UIHead("state") /\ uiQueue' # uiQueue /\ session # 0 /\ session' = 0)
       => Head(uiQueue).game = session]_vars

\* The core runs a game only while the session runs it or a stop for it is
\* still on its way to the core (spec 2: a stop reaches every peer).
CoreRunsOnlyLiveGames ==
  core.state = "running" =>
    \/ session = core.game
    \/ \E i \in 1..Len(inbox) : inbox[i].type = "stop"
    \/ \E i \in 1..Len(uiQueue) : uiQueue[i].kind = "stop"
=============================================================================
