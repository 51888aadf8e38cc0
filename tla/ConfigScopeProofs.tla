------------------------- MODULE ConfigScopeProofs -------------------------
(***************************************************************************)
(* Proofs about the scoped configuration reads, for every set of titles   *)
(* and game list: the layers the helper and OnStart install are gone       *)
(* whenever both threads are out of them (NoLeakedLayersHolds), and the    *)
(* layer table stays well typed (TypeCorrect).  NoLeakedLayers is not      *)
(* inductive by itself: IInv adds that each installed game layer has a     *)
(* thread between its AddLayer and its RemoveLayer of that type, and that  *)
(* a thread past FindGameFile in that stretch resolved a listed game.      *)
(***************************************************************************)
EXTENDS ConfigScope, TLAPS

\* A thread that has added, or is about to add, a game layer resolved a
\* game of the list.
Owns(th) == pc[th] \in {"addGlobal", "addLocal", "removeGlobal", "removeLocal"}
              \/ (pc[th] = "get" /\ game[th] # NoGame)

\* Each installed game layer is still to be removed by some thread: the
\* GlobalGame layer by one between its AddGlobal and its RemoveGlobal, the
\* LocalGame layer by one between its AddLocal and its RemoveLocal.
GlobalOwned ==
  layers["GlobalGame"] # Absent =>
    \E th \in Threads : pc[th] \in {"addLocal", "get", "removeGlobal"} /\ Owns(th)
LocalOwned ==
  layers["LocalGame"] # Absent =>
    \E th \in Threads : pc[th] \in {"get", "removeGlobal", "removeLocal"} /\ Owns(th)

\* The inductive strengthening of NoLeakedLayers.
IInv ==
  /\ layers \in [LayerType -> Contents]
  /\ pc \in [Threads -> {"idle", "addGlobal", "addLocal", "get",
                         "removeGlobal", "removeLocal"}]
  /\ game \in [Threads -> GameList \cup {NoGame}]
  /\ \A th \in Threads :
       pc[th] \in {"addGlobal", "addLocal", "removeGlobal", "removeLocal"}
         => game[th] # NoGame
  /\ GlobalOwned
  /\ LocalOwned

\* A thread entering a scoped read was not a witness of either layer, and
\* the layers do not change, so every witness stays one.
LEMMA ResolveKeeps ==
  ASSUME IInv, NEW th \in Threads, NEW o \in {"read", "start"}, NEW t,
         Idle(th), Resolve(th, o, t), layers' = layers
  PROVE  IInv'
<1> USE DEF IInv, Idle, Resolve
<1>1. FindGameFile(t) \in GameList \cup {NoGame}
  BY DEF FindGameFile
<1>2. \A w \in Threads : w # th => pc'[w] = pc[w] /\ game'[w] = game[w]
  OBVIOUS
<1>3. GlobalOwned'
  BY <1>2 DEF GlobalOwned, Owns
<1>4. LocalOwned'
  BY <1>2 DEF LocalOwned, Owns
<1>5. QED
  BY <1>1, <1>3, <1>4

\* Every step of a thread inside its scoped read keeps the strengthening.
LEMMA AddGlobalKeeps ==
  ASSUME IInv, NEW th \in Threads, AddGlobal(th)
  PROVE  IInv'
<1> USE DEF IInv, AddGlobal, Step
<1>0. layers' \in [LayerType -> Contents]
  BY ConfigScopeAssumption DEF Contents, LayerType
<1>1. GlobalOwned'
  BY DEF GlobalOwned, Owns
<1>2. LocalOwned'
  BY DEF LocalOwned, Owns
<1>3. QED
  BY <1>0, <1>1, <1>2

LEMMA AddLocalKeeps ==
  ASSUME IInv, NEW th \in Threads, AddLocal(th)
  PROVE  IInv'
<1> USE DEF IInv, AddLocal, Step
<1>0. layers' \in [LayerType -> Contents]
  BY ConfigScopeAssumption DEF Contents, LayerType
<1>1. GlobalOwned'
  BY DEF GlobalOwned, Owns
<1>2. LocalOwned'
  BY DEF LocalOwned, Owns
<1>3. QED
  BY <1>0, <1>1, <1>2

LEMMA GetKeeps ==
  ASSUME IInv, NEW th \in Threads, Get(th)
  PROVE  IInv'
<1> USE DEF IInv, Get, Step
<1>1. GlobalOwned'
  BY DEF GlobalOwned, Owns
<1>2. LocalOwned'
  BY DEF LocalOwned, Owns
<1>3. QED
  BY <1>1, <1>2

LEMMA RemoveGlobalKeeps ==
  ASSUME IInv, NEW th \in Threads, RemoveGlobal(th)
  PROVE  IInv'
<1> USE DEF IInv, RemoveGlobal, Step
<1>0. layers' \in [LayerType -> Contents]
  BY DEF Contents, LayerType
<1>1. GlobalOwned'
  BY DEF GlobalOwned, Owns, LayerType
<1>2. LocalOwned'
  BY DEF LocalOwned, Owns
<1>3. QED
  BY <1>0, <1>1, <1>2

LEMMA RemoveLocalKeeps ==
  ASSUME IInv, NEW th \in Threads, RemoveLocal(th)
  PROVE  IInv'
<1> USE DEF IInv, RemoveLocal, Step
<1>0. layers' \in [LayerType -> Contents]
  BY DEF Contents, LayerType
<1>1. GlobalOwned'
  BY DEF GlobalOwned, Owns
<1>2. LocalOwned'
  BY DEF LocalOwned, Owns, LayerType
<1>3. QED
  BY <1>0, <1>1, <1>2

\* Config::Get always finds a layer: Base is last in SEARCH_ORDER and is
\* always installed, so the first supplying layer exists and Lookup returns
\* what some layer holds.
LEMMA LookupType ==
  ASSUME NEW l \in [LayerType -> Contents], l["Base"] = "base"
  PROVE  Lookup(l) \in Contents
<1> DEFINE found == {i \in DOMAIN SEARCH_ORDER : l[SEARCH_ORDER[i]] # Absent}
<1>1. DOMAIN SEARCH_ORDER = 1..8
  BY DEF SEARCH_ORDER
<1>2. \A i \in 1..8 : SEARCH_ORDER[i] \in LayerType
  BY DEF SEARCH_ORDER, LayerType
<1>3. 8 \in found
  BY <1>1 DEF SEARCH_ORDER, Absent
<1>4. \E i \in found : \A j \in found : i <= j
  <2> DEFINE m == CHOOSE i \in 1..8 : i \in found /\ \A j \in 1..i-1 : j \notin found
  <2>1. \E i \in 1..8 : i \in found /\ \A j \in 1..i-1 : j \notin found
    BY <1>1, <1>3
  <2>2. m \in found /\ \A j \in 1..m-1 : j \notin found
    BY <2>1
  <2>3. found \subseteq 1..8 /\ m \in 1..8
    BY <1>1, <2>2
  <2>4. \A j \in found : m <= j
    BY <2>2, <2>3
  <2>5. QED
    BY <2>2, <2>4
<1>5. QED
  BY <1>1, <1>2, <1>4 DEF Lookup

\* The initial state has no game layer and no thread inside a read.
LEMMA InitIInv == Init => IInv
BY DEF Init, IInv, GlobalOwned, LocalOwned, Contents, LayerType

\* Every step, stutter included, keeps the strengthening.
LEMMA NextIInv == IInv /\ [Next]_vars => IInv'
<1> SUFFICES ASSUME IInv, [Next]_vars PROVE IInv'
  OBVIOUS
<1>1. CASE UIRead
  BY <1>1, ResolveKeeps DEF UIRead, Threads
<1>2. CASE UIChangeGame
  BY <1>2, ResolveKeeps DEF UIChangeGame, Threads
<1>3. CASE UIStart
  BY <1>3, ResolveKeeps DEF UIStart, Threads
<1>4. CASE NetRead
  BY <1>4, ResolveKeeps DEF NetRead, Threads
<1>5. ASSUME NEW th \in Threads,
             AddGlobal(th) \/ AddLocal(th) \/ Get(th)
               \/ RemoveGlobal(th) \/ RemoveLocal(th)
      PROVE  IInv'
  BY <1>5, AddGlobalKeeps, AddLocalKeeps, GetKeeps, RemoveGlobalKeeps,
     RemoveLocalKeeps
<1>6. CASE UNCHANGED vars \/ \E t \in Titles : NetChangeGame(t)
  <2>1. UNCHANGED <<layers, pc, game>>
    BY <1>6 DEF vars, NetChangeGame
  <2> QED
    BY <2>1 DEF IInv, GlobalOwned, LocalOwned, Owns
<1>7. QED
  BY <1>1, <1>2, <1>3, <1>4, <1>5, <1>6 DEF Next

\* The strengthening implies NoLeakedLayers: with both threads idle no
\* thread can own an installed layer.
LEMMA IInvNoLeak == IInv => NoLeakedLayers
BY DEF IInv, NoLeakedLayers, GlobalOwned, LocalOwned, Owns, Idle

\* For every set of titles and every game list, whenever neither thread is
\* inside GetConfigOptionWithSelectedGame or OnStart's snapshot, neither the
\* GlobalGame nor the LocalGame layer is installed: the scoped reads leak no
\* game INI into the configuration, however the threads interleave.
THEOREM NoLeakedLayersHolds == Spec => []NoLeakedLayers
<1>1. Init => IInv
  BY InitIInv
<1>2. IInv /\ [Next]_vars => IInv'
  BY NextIInv
<1>3. IInv => NoLeakedLayers
  BY IInvNoLeak
<1>4. QED
  BY <1>1, <1>2, <1>3, PTL DEF Spec

\* A thread entering a scoped read keeps every variable typed.
LEMMA ResolveType ==
  ASSUME TypeOK, NEW th \in Threads, NEW o \in {"read", "start"},
         NEW t \in Titles \cup {NoTitle}, Resolve(th, o, t),
         layers' = layers, current' \in Titles \cup {NoTitle},
         posted' \in Seq(Titles), announced' \in Titles \cup {NoTitle}
  PROVE  TypeOK'
<1>1. FindGameFile(t) \in GameList \cup {NoGame}
  BY DEF FindGameFile
<1>2. QED
  BY <1>1 DEF TypeOK, Resolve

\* A step inside a scoped read keeps every variable typed: a thread adding a
\* layer resolved a game of the list (IInv), and the value a read returns
\* is what some layer holds.
LEMMA StepType ==
  ASSUME TypeOK, IInv, NEW th \in Threads,
         AddGlobal(th) \/ AddLocal(th) \/ Get(th) \/ RemoveGlobal(th)
           \/ RemoveLocal(th)
  PROVE  TypeOK'
<1> USE DEF TypeOK, Step
<1>1. CASE AddGlobal(th) \/ AddLocal(th)
  <2>1. game[th] \in GameList
    BY <1>1 DEF IInv, AddGlobal, AddLocal
  <2>2. QED
    BY <1>1, <2>1, ConfigScopeAssumption
       DEF AddGlobal, AddLocal, Contents, LayerType
<1>2. CASE Get(th)
  <2>1. Lookup(layers) \in Contents
    BY LookupType
  <2>2. QED
    BY <1>2, <2>1 DEF Get
<1>3. CASE RemoveGlobal(th) \/ RemoveLocal(th)
  BY <1>3 DEF RemoveGlobal, RemoveLocal, Contents, LayerType
<1>4. QED
  BY <1>1, <1>2, <1>3

\* Every reachable state is well typed for every set of titles and game
\* list: in particular the Base layer is never removed, so every
\* Config::Get of the helper and of OnStart finds a value, and a thread only
\* ever resolves a game of the game list.
THEOREM TypeCorrect == Spec => []TypeOK
<1>1. Init => TypeOK /\ IInv
  BY InitIInv, ConfigScopeAssumption DEF Init, TypeOK, Contents, LayerType
<1>2. TypeOK /\ IInv /\ [Next]_vars => TypeOK' /\ IInv'
  <2> SUFFICES ASSUME TypeOK, IInv, [Next]_vars PROVE TypeOK' /\ IInv'
    OBVIOUS
  <2>0. IInv'
    BY NextIInv
  <2>1. CASE UIRead
    BY <2>0, <2>1, ResolveType DEF UIRead, Threads, TypeOK
  <2>2. CASE UIChangeGame
    <3>1. posted # << >> /\ Head(posted) \in Titles /\ Tail(posted) \in Seq(Titles)
      BY <2>2 DEF UIChangeGame, TypeOK
    <3> QED
      BY <2>0, <2>2, <3>1, ResolveType DEF UIChangeGame, Threads, TypeOK
  <2>3. CASE UIStart
    BY <2>0, <2>3, ResolveType DEF UIStart, Threads, TypeOK
  <2>4. CASE NetRead
    BY <2>0, <2>4, ResolveType DEF NetRead, Threads, TypeOK
  <2>5. ASSUME NEW th \in Threads,
               AddGlobal(th) \/ AddLocal(th) \/ Get(th)
                 \/ RemoveGlobal(th) \/ RemoveLocal(th)
        PROVE  TypeOK' /\ IInv'
    BY <2>0, <2>5, StepType
  <2>6. CASE UNCHANGED vars
    BY <2>0, <2>6 DEF vars, TypeOK
  <2>8. ASSUME NEW t \in Titles, NetChangeGame(t) PROVE TypeOK' /\ IInv'
    BY <2>0, <2>8 DEF NetChangeGame, TypeOK
  <2>7. QED
    BY <2>1, <2>2, <2>3, <2>4, <2>5, <2>6, <2>8 DEF Next
<1>3. QED
  BY <1>1, <1>2, PTL DEF Spec

-----------------------------------------------------------------------------
(* A network read resolves the announced title.  The lambdas OnMsgChangeGame *)
(* posts run in order, the last one sets the announced title, and the        *)
(* network thread only looks a title up once none is waiting.                *)

\* The inductive strengthening of NetReadSeesAnnounced: with no lambda
\* waiting m_current_game is the announced title, with some waiting the
\* last of them carries it, and a network thread inside a read looked it up
\* with none waiting.
AInv ==
  /\ posted = << >> => current = announced
  /\ posted # << >> => announced = posted[Len(posted)]
  /\ pc["net"] # "idle" => posted = << >> /\ game["net"] = FindGameFile(announced)

\* A thread entering a read from the UI thread changes nothing the network
\* thread's entry records.
LEMMA UIResolveKeeps ==
  ASSUME TypeOK, AInv, NEW o, NEW t, Resolve("ui", o, t),
         UNCHANGED <<current, posted, announced>>
  PROVE  AInv'
<1>1. pc'["net"] = pc["net"] /\ game'["net"] = game["net"]
  BY DEF Resolve, TypeOK, Threads
<1> QED
  BY <1>1 DEF AInv

\* Running the oldest change-game lambda: the network thread is not in a
\* read while one waits, and the last lambda still carries the title.
LEMMA UIChangeGameKeeps ==
  ASSUME TypeOK, AInv, UIChangeGame
  PROVE  AInv'
<1>1. /\ posted # << >> /\ posted \in Seq(Titles)
      /\ current' = Head(posted) /\ posted' = Tail(posted)
      /\ announced' = announced
      /\ Resolve("ui", "read", Head(posted))
  BY DEF UIChangeGame, TypeOK
<1>2. pc["net"] = "idle" /\ pc'["net"] = "idle"
  BY <1>1 DEF AInv, Resolve, TypeOK, Threads
<1>3. announced = posted[Len(posted)]
  BY <1>1 DEF AInv
<1>4. posted' = << >> => current' = announced'
  <2>0. Len(posted') = Len(posted) - 1 /\ Len(posted) >= 1
    BY <1>1
  <2>1. posted' = << >> => Len(posted) = 1
    BY <2>0
  <2> QED
    BY <1>1, <1>3, <2>1
<1>5. posted' # << >> => announced' = posted'[Len(posted')]
  BY <1>1, <1>3
<1> QED
  BY <1>2, <1>4, <1>5 DEF AInv

\* OnMsgChangeGame, handled between two network reads, posts the last
\* lambda.
LEMMA NetChangeGameKeeps ==
  ASSUME AInv, NEW t \in Titles, NetChangeGame(t)
  PROVE  AInv'
<1>1. /\ pc["net"] = "idle" /\ pc' = pc
      /\ posted' = Append(posted, t) /\ announced' = t
  BY DEF NetChangeGame, Idle
<1>2. posted' # << >> /\ posted'[Len(posted')] = t
  BY <1>1
<1> QED
  BY <1>1, <1>2 DEF AInv

\* The network thread looks the title up once no lambda waits.
LEMMA NetReadKeeps ==
  ASSUME TypeOK, AInv, NetRead
  PROVE  AInv'
<1>1. /\ posted = << >> /\ UNCHANGED <<current, posted, announced>>
      /\ Resolve("net", "read", current)
  BY DEF NetRead
<1>2. current = announced
  BY <1>1 DEF AInv
<1>3. game'["net"] = FindGameFile(announced)
  BY <1>1, <1>2 DEF Resolve, TypeOK, Threads
<1> QED
  BY <1>1, <1>3 DEF AInv

\* A step inside a read moves one thread's pc and nothing AInv names but
\* that: a network step starts from a non-idle pc.
LEMMA ReadStepKeeps ==
  ASSUME TypeOK, AInv, NEW th \in Threads,
         AddGlobal(th) \/ AddLocal(th) \/ Get(th) \/ RemoveGlobal(th)
           \/ RemoveLocal(th)
  PROVE  AInv'
<1>1. /\ UNCHANGED <<current, posted, announced, game>>
      /\ pc[th] # "idle"
      /\ \A w \in Threads : w # th => pc'[w] = pc[w]
  BY DEF AddGlobal, AddLocal, Get, RemoveGlobal, RemoveLocal, Step, TypeOK
<1>2. CASE th = "net"
  BY <1>1, <1>2 DEF AInv
<1>3. CASE th # "net"
  BY <1>1, <1>3 DEF AInv, Threads
<1> QED
  BY <1>2, <1>3

\* Every step keeps AInv.
LEMMA NextAInv == TypeOK /\ AInv /\ [Next]_vars => AInv'
<1> SUFFICES ASSUME TypeOK, AInv, [Next]_vars PROVE AInv'
  OBVIOUS
<1>1. CASE UIRead \/ UIStart
  BY <1>1, UIResolveKeeps DEF UIRead, UIStart
<1>2. CASE UIChangeGame
  BY <1>2, UIChangeGameKeeps
<1>3. CASE \E t \in Titles : NetChangeGame(t)
  BY <1>3, NetChangeGameKeeps
<1>4. CASE NetRead
  BY <1>4, NetReadKeeps
<1>5. ASSUME NEW th \in Threads,
             AddGlobal(th) \/ AddLocal(th) \/ Get(th)
               \/ RemoveGlobal(th) \/ RemoveLocal(th)
      PROVE  AInv'
  BY <1>5, ReadStepKeeps
<1>6. CASE UNCHANGED vars
  BY <1>6 DEF vars, AInv
<1> QED
  BY <1>1, <1>2, <1>3, <1>4, <1>5, <1>6 DEF Next

\* For every set of titles, game list and bound on waiting lambdas, a
\* GetConfigOptionWithSelectedGame call on the network thread resolves the
\* title of the last OnMsgChangeGame that thread handled: FindGameFile's
\* RunOnObject lookup runs behind the lambda that sets m_current_game.
THEOREM NetReadSeesAnnouncedHolds == Spec => []NetReadSeesAnnounced
<1>1. Init => AInv
  BY DEF Init, AInv, Threads
<1>2. TypeOK /\ AInv /\ [Next]_vars => AInv'
  BY NextAInv
<1>3. AInv => NetReadSeesAnnounced
  BY DEF AInv, NetReadSeesAnnounced
<1>4. Spec => []TypeOK
  BY TypeCorrect
<1> QED
  BY <1>1, <1>2, <1>3, <1>4, PTL DEF Spec

====
