---------------------------- MODULE ConfigScope ----------------------------
(***************************************************************************)
(* The per-title configuration reads of NetPlayDialog.                     *)
(*                                                                         *)
(* GetConfigOptionWithSelectedGame (NetPlayDialog.h 99-122) resolves       *)
(* m_current_game in the game list and, when it is there, installs the     *)
(* title's GlobalGame and LocalGame layers, reads one option, and removes  *)
(* both layers again.  OnStart (NetPlayDialog.cpp 425-505) does the same   *)
(* around the settings snapshot.  The layers live in one process-wide      *)
(* table keyed by LayerType (Enums.h 11-22): AddLayer overwrites the entry *)
(* of its type, RemoveLayer erases it, and a read takes the first layer of *)
(* SEARCH_ORDER (Enums.h 37-46) that holds a value.  Nothing locks the     *)
(* table.                                                                  *)
(*                                                                         *)
(* Two threads call the helper: the UI thread (the valueChanged lambdas,   *)
(* the lambdas queued by the buffer handlers, OnMsgChangeGame's lambda,    *)
(* the auto-buffer check, OnStart) and the network thread                  *)
(* (OnMinimumPadBufferChanged 897, OnLocalPadBufferChanged 922,            *)
(* OnHostInputAuthorityChanged 960).  FindGameFile (1057-1071) looks the *)
(* title up through RunOnObject: on the network thread the lookup is an    *)
(* event of the UI thread, queued behind the change-game lambdas that      *)
(* OnMsgChangeGame (813-841) posted earlier on the same network thread.    *)
(* Every table operation is one step;                                      *)
(* the data race inside std::map that two concurrent steps would be is     *)
(* below the level of the model.                                           *)
(*                                                                         *)
(* The value a layer holds is abstracted to the title it was loaded for:   *)
(* what a read returns is the title whose game INI supplied the value, or  *)
(* "base".  The layers the dialog never installs (Movie, Netplay, ...) are *)
(* taken not to define the options the dialog reads.                       *)
(***************************************************************************)
EXTENDS Integers, Sequences

CONSTANTS
  Titles,     \* titles the host can select
  GameList,   \* the titles FindGameFile finds on this machine
  NoTitle,    \* m_current_game before the first ChangeGame (the empty string)
  MaxPosted   \* bound on the change-game lambdas waiting on the UI thread

ASSUME ConfigScopeAssumption ==
  /\ GameList \subseteq Titles
  /\ NoTitle \notin Titles
  /\ MaxPosted \in Nat

\* Config::LayerType (Enums.h 11-22).
LayerType == {"Base", "GlobalGame", "LocalGame", "Movie", "Netplay",
              "CommandLine", "CurrentRun", "Meta", "FMOverride"}

\* Config::SEARCH_ORDER (Enums.h 37-46): highest priority first.
SEARCH_ORDER == <<"FMOverride", "CurrentRun", "CommandLine", "Movie",
                  "Netplay", "LocalGame", "GlobalGame", "Base">>

Absent == "absent"      \* no layer of this type, or one without the option
NoGame == "nogame"      \* FindGameFile returned nullptr
NotRead == "notread"

Threads == {"ui", "net"}

VARIABLES
  layers,    \* s_layers: what each layer type supplies for the option
  current,   \* m_current_game, written by the UI thread only
  pc,        \* where each thread is in its scoped read
  op,        \* "read" for the helper, "start" for OnStart
  game,      \* the game each thread resolved (const auto game)
  seen,      \* what the thread's Config::Get returned, NotRead before it
  posted,    \* titles of the change-game lambdas not yet run, in order
  announced  \* history: the title of the last ChangeGame message handled

vars == <<layers, current, pc, op, game, seen, posted, announced>>

\* What Config::Get returns: the first layer of SEARCH_ORDER that supplies
\* the option.
Lookup(l) ==
  LET found == {i \in DOMAIN SEARCH_ORDER : l[SEARCH_ORDER[i]] # Absent}
      first == CHOOSE i \in found : \A j \in found : i <= j
  IN  l[SEARCH_ORDER[first]]

\* Mutant: the title is used without looking it up in the game list.
FindGameFileUnchecked(t) == t

\* FindGameFile(m_current_game).
FindGameFile(t) == IF t \in GameList THEN t ELSE NoGame

\* What the thread's read should return: its own game's INI, or the base
\* configuration when it resolved no game.
Expected(th) == IF game[th] = NoGame THEN "base" ELSE game[th]

Idle(th) == pc[th] = "idle"

\* const auto game = FindGameFile(m_current_game) (.h 101, .cpp 425), by a
\* thread that is not inside a scoped read.
Resolve(th, o, t) ==
  /\ game' = [game EXCEPT ![th] = FindGameFile(t)]
  /\ op' = [op EXCEPT ![th] = o]
  /\ seen' = [seen EXCEPT ![th] = NotRead]
  /\ pc' = [pc EXCEPT ![th] =
              IF FindGameFile(t) # NoGame THEN "addGlobal"
              ELSE IF o = "start" THEN "idle"     \* PanicAlert and return
              ELSE "get"]

\* The UI thread enters the helper from one of its lambdas.
UIRead ==
  /\ Idle("ui")
  /\ Resolve("ui", "read", current)
  /\ UNCHANGED <<layers, current, posted, announced>>

\* OnMsgChangeGame on the network thread, between two of its reads: it
\* posts the lambda (816) and returns.
NetChangeGame(t) ==
  /\ Idle("net")
  /\ Len(posted) < MaxPosted
  /\ posted' = Append(posted, t)
  /\ announced' = t
  /\ UNCHANGED <<layers, current, pc, op, game, seen>>

\* OnMsgChangeGame's lambda: m_current_game = title (818), then the read at
\* 821.
UIChangeGame ==
  /\ Idle("ui")
  /\ posted # << >>
  /\ current' = Head(posted)
  /\ posted' = Tail(posted)
  /\ Resolve("ui", "read", Head(posted))
  /\ UNCHANGED <<layers, announced>>

\* OnStart (425-438): resolve the game, return if it is missing.
UIStart ==
  /\ Idle("ui")
  /\ Resolve("ui", "start", current)
  /\ UNCHANGED <<layers, current, posted, announced>>

\* Mutant: the network thread compares m_current_game itself, without
\* waiting for the UI thread.
NetReadDirect ==
  /\ Idle("net")
  /\ Resolve("net", "read", current)
  /\ UNCHANGED <<layers, current, posted, announced>>

\* A network-thread handler enters the helper.  FindGameFile's RunOnObject
\* runs the lookup of m_current_game on the UI thread, between two of its
\* events and after every change-game lambda posted before it.
NetRead ==
  /\ Idle("net") /\ Idle("ui")
  /\ posted = << >>
  /\ Resolve("net", "read", current)
  /\ UNCHANGED <<layers, current, posted, announced>>

Step(th, from, to) ==
  /\ pc[th] = from
  /\ pc' = [pc EXCEPT ![th] = to]

\* Config::AddLayer(GenerateGlobalGameConfigLoader(...)) (.h 107, .cpp 435).
AddGlobal(th) ==
  /\ Step(th, "addGlobal", "addLocal")
  /\ layers' = [layers EXCEPT !["GlobalGame"] = game[th]]
  /\ UNCHANGED <<current, op, game, seen, posted, announced>>

\* Config::AddLayer(GenerateLocalGameConfigLoader(...)) (.h 109, .cpp 437).
AddLocal(th) ==
  /\ Step(th, "addLocal", "get")
  /\ layers' = [layers EXCEPT !["LocalGame"] = game[th]]
  /\ UNCHANGED <<current, op, game, seen, posted, announced>>

\* T value = Config::Get(info) (.h 113), or the snapshot reads of OnStart
\* (441-499); the helper returns at once when it added no layers.
Get(th) ==
  /\ Step(th, "get", IF game[th] = NoGame THEN "idle" ELSE "removeGlobal")
  /\ seen' = [seen EXCEPT ![th] = Lookup(layers)]
  /\ UNCHANGED <<layers, current, op, game, posted, announced>>

\* Config::RemoveLayer(LayerType::GlobalGame) (.h 117, .cpp 504).
RemoveGlobal(th) ==
  /\ Step(th, "removeGlobal", "removeLocal")
  /\ layers' = [layers EXCEPT !["GlobalGame"] = Absent]
  /\ UNCHANGED <<current, op, game, seen, posted, announced>>

\* Mutant: the second call removes GlobalGame again.
RemoveLocalTwiceGlobal(th) ==
  /\ Step(th, "removeLocal", "idle")
  /\ layers' = [layers EXCEPT !["GlobalGame"] = Absent]
  /\ UNCHANGED <<current, op, game, seen, posted, announced>>

\* Config::RemoveLayer(LayerType::LocalGame) (.h 118, .cpp 505).
RemoveLocal(th) ==
  /\ Step(th, "removeLocal", "idle")
  /\ layers' = [layers EXCEPT !["LocalGame"] = Absent]
  /\ UNCHANGED <<current, op, game, seen, posted, announced>>

Init ==
  /\ layers = [t \in LayerType |-> IF t = "Base" THEN "base" ELSE Absent]
  /\ current = NoTitle
  /\ pc = [th \in Threads |-> "idle"]
  /\ op = [th \in Threads |-> "read"]
  /\ game = [th \in Threads |-> NoGame]
  /\ seen = [th \in Threads |-> NotRead]
  /\ posted = << >>
  /\ announced = NoTitle

Next ==
  \/ UIRead
  \/ UIChangeGame
  \/ \E t \in Titles : NetChangeGame(t)
  \/ UIStart
  \/ NetRead
  \/ \E th \in Threads :
       \/ AddGlobal(th)
       \/ AddLocal(th)
       \/ Get(th)
       \/ RemoveGlobal(th)
       \/ RemoveLocal(th)

Spec == Init /\ [][Next]_vars

-----------------------------------------------------------------------------
Contents == Titles \cup {"base", Absent}

\* Every variable has its type; a thread's game is one the game list has.
TypeOK ==
  /\ layers \in [LayerType -> Contents]
  /\ layers["Base"] = "base"
  /\ current \in Titles \cup {NoTitle}
  /\ pc \in [Threads -> {"idle", "addGlobal", "addLocal", "get",
                         "removeGlobal", "removeLocal"}]
  /\ op \in [Threads -> {"read", "start"}]
  /\ game \in [Threads -> GameList \cup {NoGame}]
  /\ seen \in [Threads -> Contents \cup {NotRead}]
  /\ posted \in Seq(Titles)
  /\ announced \in Titles \cup {NoTitle}

\* Whenever neither thread is inside a scoped read, no game layer is
\* installed: however the two threads' AddLayer and RemoveLayer calls
\* interleave, the helper and OnStart leave the configuration as they found
\* it (the spec's "no operation can leak a persistent override").
NoLeakedLayers ==
  (\A th \in Threads : Idle(th)) =>
     layers["GlobalGame"] = Absent /\ layers["LocalGame"] = Absent

\* A read of the network thread resolves the title of the last ChangeGame
\* message that thread handled: the lambda that sets m_current_game
\* (816-818) is queued before the RunOnObject lookup (1060), so the UI
\* thread cannot switch titles under a network read.
NetReadSeesAnnounced ==
  pc["net"] # "idle" => game["net"] = FindGameFile(announced)

\* Every read returns the value of the game its thread resolved (or the base
\* value when it resolved none): a caller of GetConfigOptionWithSelectedGame,
\* and OnStart's settings snapshot, sees the title it asked about.
ReadSeesOwnGame ==
  \A th \in Threads : seen[th] # NotRead => seen[th] = Expected(th)

=============================================================================
