------------------------------- MODULE TunnelMan -------------------------------
(***************************************************************************)
(* CS32 project 4: the levels of the TunnelMan game, tick by tick.  A tick *)
(* is a call of StudentWorld::move(): the player, then each actor in the   *)
(* order of m_actors, then the sweep that erases the dead while it goes    *)
(* over them, and the new goodies.  Where things are is abstracted: each   *)
(* time an actor looks, how far the player is, whether earth or a boulder  *)
(* is in the way, and what a falling boulder or a squirt hits is a choice, *)
(* and so is the turn on which a clock runs out, except a boulder's.       *)
(* Score, sounds and the text line are left out.  The game controller is   *)
(* external.                                                               *)
(***************************************************************************)
EXTENDS Integers, Sequences, SequencesExt, FiniteSets

CONSTANTS
  Boulders, Barrels, Nuggets,   \* actors of a level (B, L and G in init())
  HP, PROTESTERHP,              \* hit points at the start (10 and 5)
  SQUIRTS,                      \* water at the start (500)
  WAIT, HEIGHT,                 \* a boulder's clock (30), and how far it can fall
  LIVES, LEVELS,                \* lives and levels of a game
  MADE                          \* bound on what is shot, dropped and added in a level

ASSUME CountsAssumption ==
  /\ {Boulders, Barrels, Nuggets} \subseteq Nat /\ Barrels > 0
  /\ {HP, WAIT, LIVES, LEVELS} \subseteq Nat \ {0}
  /\ {PROTESTERHP, SQUIRTS, HEIGHT, MADE} \subseteq Nat

VARIABLES
  m_TunnelMan,      \* the player
  m_actors,
  m_barrelsLeft,
  lives, level,
  ActorItr,         \* the actor whose turn it is, or that the sweep looks at
  phase,            \* where move() is
  made, dropped     \* history: actors added, nuggets dropped in this level

vars == <<m_TunnelMan, m_actors, m_barrelsLeft, lives, level, ActorItr, phase, made, dropped>>

-----------------------------------------------------------------------------
\* An actor: what it is, its state, a boulder's clock, and for a barrel whether it
\* is visible, for a boulder its height, for the protester its hit points.
Actor(kind, state, n) == [kind |-> kind, state |-> state, clock |-> 0, n |-> n]

Hidden  == 0
Visible == 1

NewPlayer == [state |-> "alive", m_Dead |-> FALSE, hp |-> HP, squirts |-> SQUIRTS,
              kits |-> 1, nuggets |-> 0]

NewActors ==
  [k \in 1..Boulders |-> Actor("boulder", "stable", HEIGHT)]
  \o [k \in 1..Barrels |-> Actor("barrel", "alive", Hidden)]
  \o [k \in 1..Nuggets |-> Actor("nugget", "permanent", 0)]
  \o << Actor("protester", "searching", PROTESTERHP) >>

Init ==
  /\ m_TunnelMan = NewPlayer /\ m_barrelsLeft = Barrels /\ m_actors = NewActors
  /\ lives = LIVES /\ level = 0 /\ ActorItr = 1 /\ phase = "player" /\ made = 0 /\ dropped = 0

\* cleanUp() and init(), which the controller calls for the next life or level.
StartLevel ==
  /\ m_TunnelMan' = NewPlayer /\ m_barrelsLeft' = Barrels /\ m_actors' = NewActors
  /\ ActorItr' = 1 /\ phase' = "player" /\ made' = 0 /\ dropped' = 0

Over == phase' = "over" /\ UNCHANGED <<m_TunnelMan, m_actors, m_barrelsLeft, ActorItr, made, dropped>>

-----------------------------------------------------------------------------
\* The start of move(), and TunnelMan::doSomething()

PlayerDied ==
  /\ phase = "player" /\ m_TunnelMan.state = "dead"
  /\ lives' = lives - 1
  /\ IF lives' > 0 THEN StartLevel ELSE Over
  /\ UNCHANGED level

\* Mutant of Acted: the barrels are only counted at the end of the tick.
ActedOn(p, new) ==
  /\ m_TunnelMan' = p
  /\ m_actors' = m_actors \o new
  /\ made' = made + Len(new)
  /\ phase' = "actors" /\ ActorItr' = 1
  /\ UNCHANGED <<m_barrelsLeft, lives, level>>

\* The player has moved: to the actors, unless no barrel is left.
Acted(p, new) ==
  /\ m_TunnelMan' = p
  /\ m_actors' = m_actors \o new
  /\ made' = made + Len(new)
  /\ phase' = (IF m_barrelsLeft = 0 THEN "finished" ELSE "actors") /\ ActorItr' = 1
  /\ UNCHANGED <<m_barrelsLeft, lives, level>>

\* Mutant of Alive: move() does not look at the player's state.
AliveOrNot == phase = "player"

Alive == phase = "player" /\ m_TunnelMan.state # "dead"

\* No key, a move, or a player that is frozen by Escape.
Stroll == Alive /\ Acted(m_TunnelMan, <<>>) /\ UNCHANGED dropped

\* Escape sets m_Dead; move() looks at the state.
Escape ==
  /\ Alive /\ ~m_TunnelMan.m_Dead
  /\ Acted([m_TunnelMan EXCEPT !.m_Dead = TRUE], <<>>) /\ UNCHANGED dropped

\* A squirt that starts beyond the field is dead from the start.
Squirt ==
  /\ Alive /\ ~m_TunnelMan.m_Dead /\ m_TunnelMan.squirts > 0 /\ made < MADE
  /\ \E state \in {"alive", "dead"} :
       Acted([m_TunnelMan EXCEPT !.squirts = @ - 1], << Actor("squirt", state, 0) >>)
  /\ UNCHANGED dropped

DropGold ==
  /\ Alive /\ ~m_TunnelMan.m_Dead /\ m_TunnelMan.nuggets > 0 /\ made < MADE
  /\ Acted([m_TunnelMan EXCEPT !.nuggets = @ - 1], << Actor("bribe", "temporary", 0) >>)
  /\ dropped' = dropped + 1

\* unveil() makes what is near visible.
Sonar ==
  /\ Alive /\ ~m_TunnelMan.m_Dead /\ m_TunnelMan.kits > 0
  /\ m_TunnelMan' = [m_TunnelMan EXCEPT !.kits = @ - 1]
  /\ \E seen \in SUBSET {k \in DOMAIN m_actors : m_actors[k].kind = "barrel"} :
       m_actors' = [k \in DOMAIN m_actors |->
                      IF k \in seen THEN [m_actors[k] EXCEPT !.n = Visible] ELSE m_actors[k]]
  /\ phase' = (IF m_barrelsLeft = 0 THEN "finished" ELSE "actors") /\ ActorItr' = 1
  /\ UNCHANGED <<m_barrelsLeft, lives, level, made, dropped>>

LevelFinished ==
  /\ phase = "finished"
  /\ level' = level + 1
  /\ IF level' < LEVELS THEN StartLevel ELSE Over
  /\ UNCHANGED lives

-----------------------------------------------------------------------------
\* The actors

Turn(kind) == /\ phase = "actors" /\ ActorItr <= Len(m_actors)
              /\ m_actors[ActorItr].kind = kind /\ m_actors[ActorItr].state # "dead"
Me == m_actors[ActorItr]

\* The actor becomes a, and the turn goes on.
Becomes(a) ==
  /\ m_actors' = [m_actors EXCEPT ![ActorItr] = a]
  /\ ActorItr' = ActorItr + 1
  /\ UNCHANGED <<lives, level, phase, made, dropped>>
Dead(a) == [a EXCEPT !.state = "dead"]

DeadTurn ==
  /\ phase = "actors" /\ ActorItr <= Len(m_actors) /\ m_actors[ActorItr].state = "dead"
  /\ ActorItr' = ActorItr + 1
  /\ UNCHANGED <<m_TunnelMan, m_actors, m_barrelsLeft, lives, level, phase, made, dropped>>

\* setAnimate(true) is only called for the player, who is not in m_actors.
isAnimate(a) == a.kind = "player"

\* RegularProtestor::annoy(): AnimateObject::annoy() sets m_Dead, never the state, so
\* the state that is asked for here is never there.
Annoyed(a, damage) ==
  IF ~isAnimate(a) \/ a.state = "exiting" THEN a
  ELSE [a EXCEPT !.n = @ - damage, !.state = IF @ = "dead" THEN "exiting" ELSE @]

\* What a boulder or a squirt may hit is what can be annoyed.
Strikes == {hit \in BOOLEAN : hit => \E k \in DOMAIN m_actors : isAnimate(m_actors[k])}
Struck(s, damage, hit) == IF hit THEN [k \in DOMAIN s |-> Annoyed(s[k], damage)] ELSE s

\* A boulder without earth below it waits, then falls.
BoulderWaits ==
  /\ Turn("boulder") /\ UNCHANGED <<m_TunnelMan, m_barrelsLeft>>
  /\ \/ Me.state = "stable" /\ Becomes(Me)
     \/ Me.state = "stable" /\ Becomes([Me EXCEPT !.state = "waiting", !.clock = WAIT - 1])
     \/ Me.state = "waiting" /\ Me.clock > 0 /\ Becomes([Me EXCEPT !.clock = @ - 1])

Falls == Turn("boulder") /\ (Me.state = "falling" \/ (Me.state = "waiting" /\ Me.clock = 0))

\* It ends at the bottom, in earth or on another boulder.
BoulderLands == Falls /\ Becomes(Dead(Me)) /\ UNCHANGED <<m_TunnelMan, m_barrelsLeft>>

BoulderFalls ==
  /\ Falls /\ Me.n > 0
  /\ \E player \in BOOLEAN, hit \in Strikes :
       /\ m_TunnelMan' = IF player THEN [m_TunnelMan EXCEPT !.state = "dead"] ELSE m_TunnelMan
       /\ m_actors' = Struck([m_actors EXCEPT ![ActorItr].state = "falling", ![ActorItr].n = @ - 1],
                             100, hit)
  /\ ActorItr' = ActorItr + 1
  /\ UNCHANGED <<m_barrelsLeft, lives, level, phase, made, dropped>>

\* Mutant of BarrelActs: a barrel that is taken is not marked dead.
BarrelActsTwice ==
  /\ Turn("barrel") /\ UNCHANGED m_TunnelMan
  /\ \/ Becomes([Me EXCEPT !.n = Visible]) /\ UNCHANGED m_barrelsLeft
     \/ Me.n = Visible /\ Becomes(Me) /\ m_barrelsLeft > 0 /\ m_barrelsLeft' = m_barrelsLeft - 1

\* A hidden barrel is only seen; a visible one within reach is taken.
BarrelActs ==
  /\ Turn("barrel") /\ UNCHANGED m_TunnelMan
  /\ \/ Me.n = Hidden /\ Becomes([Me EXCEPT !.n = Visible]) /\ UNCHANGED m_barrelsLeft
     \/ Becomes(Me) /\ UNCHANGED m_barrelsLeft
     \/ Me.n = Visible /\ Becomes(Dead(Me)) /\ m_barrelsLeft' = m_barrelsLeft - 1

NuggetActs ==
  /\ Turn("nugget") /\ UNCHANGED m_barrelsLeft
  /\ \/ Becomes(Me) /\ UNCHANGED m_TunnelMan
     \/ Becomes(Dead(Me)) /\ m_TunnelMan' = [m_TunnelMan EXCEPT !.nuggets = @ + 1]

\* It is gone when its time is over.
BribeActs ==
  /\ Turn("bribe") /\ UNCHANGED <<m_TunnelMan, m_barrelsLeft>>
  /\ Becomes(Me) \/ Becomes(Dead(Me))

\* Sonar kits and water pools: waiting, gone when their time is over, or taken.
GoodieActs ==
  /\ Turn("kit") \/ Turn("pool")
  /\ UNCHANGED m_barrelsLeft
  /\ \/ (Becomes(Me) \/ Becomes(Dead(Me))) /\ UNCHANGED m_TunnelMan
     \/ /\ Becomes(Dead(Me))
        /\ m_TunnelMan' = IF Me.kind = "kit" THEN [m_TunnelMan EXCEPT !.kits = @ + 1]
                          ELSE [m_TunnelMan EXCEPT !.squirts = @ + 5]

\* A squirt dies on what it hits, in earth or at the end of its range, or flies on.
SquirtActs ==
  /\ Turn("squirt")
  /\ \E hit \in Strikes, stopped \in BOOLEAN :
       m_actors' = Struck([m_actors EXCEPT ![ActorItr] = IF hit \/ stopped THEN Dead(Me) ELSE Me],
                          2, hit)
  /\ ActorItr' = ActorItr + 1
  /\ UNCHANGED <<m_TunnelMan, m_barrelsLeft, lives, level, phase, made, dropped>>

\* StudentWorld::annoyPlayer()
Hurt(p) == [p EXCEPT !.hp = @ - 2, !.m_Dead = @ \/ p.hp - 2 <= 0,
                     !.state = IF p.hp - 2 <= 0 THEN "dead" ELSE @]

\* The protester walks or rests, or shouts at a player who is near.
ProtesterActs ==
  /\ Turn("protester") /\ UNCHANGED m_barrelsLeft
  /\ Becomes(Me)
  /\ UNCHANGED m_TunnelMan \/ m_TunnelMan' = Hurt(m_TunnelMan)

-----------------------------------------------------------------------------
\* The end of move(): the dead are erased, and a goodie may be added.

TurnsOver ==
  /\ phase = "actors" /\ ActorItr > Len(m_actors)
  /\ phase' = "sweep" /\ ActorItr' = 1
  /\ UNCHANGED <<m_TunnelMan, m_actors, m_barrelsLeft, lives, level, made, dropped>>

Swept == /\ phase = "sweep" /\ ActorItr <= Len(m_actors)
         /\ UNCHANGED <<m_TunnelMan, m_barrelsLeft, lives, level, phase, made, dropped>>

Keep == Swept /\ Me.state # "dead" /\ ActorItr' = ActorItr + 1 /\ UNCHANGED m_actors

\* Mutant of Erase: the iterator is not stepped back.
EraseSkips ==
  Swept /\ Me.state = "dead" /\ m_actors' = RemoveAt(m_actors, ActorItr) /\ ActorItr' = ActorItr + 1

\* The iterator is stepped back, to before begin() for the first actor, and on again by
\* the loop; what is behind the erased actor has moved up.
Erase ==
  Swept /\ Me.state = "dead" /\ m_actors' = RemoveAt(m_actors, ActorItr) /\ ActorItr' = (ActorItr - 1) + 1

addGoodies == {<<>>} \cup (IF made = MADE THEN {}
                           ELSE {<<Actor(k, "temporary", 0)>> : k \in {"kit", "pool"}})

EndTick ==
  /\ phase = "sweep" /\ ActorItr > Len(m_actors)
  /\ \E new \in addGoodies : m_actors' = m_actors \o new /\ made' = made + Len(new)
  /\ phase' = "player"
  /\ UNCHANGED <<m_TunnelMan, m_barrelsLeft, lives, level, ActorItr, dropped>>

Player == PlayerDied \/ Stroll \/ Escape \/ Squirt \/ DropGold \/ Sonar \/ LevelFinished
Actors == \/ DeadTurn \/ BoulderWaits \/ BoulderLands \/ BoulderFalls \/ BarrelActs \/ NuggetActs
          \/ BribeActs \/ GoodieActs \/ SquirtActs \/ ProtesterActs

Sweep == TurnsOver \/ Keep \/ Erase \/ EndTick

Next == Player \/ Actors \/ Sweep

\* The controller calls move() again and again.
Spec == Init /\ [][Next]_vars /\ WF_vars(Next)

-----------------------------------------------------------------------------
Living(s, kind) == {k \in DOMAIN s : s[k].kind = kind /\ s[k].state # "dead"}
Count(kind)     == Cardinality(Living(m_actors, kind))

\* The values the variables may take: a boulder is in one of its states, and its clock
\* and height never go below zero; a player who has lost all hit points is not hurt again.
TypeOK ==
  /\ lives \in 0..LIVES /\ level \in 0..LEVELS
  /\ phase \in {"player", "finished", "actors", "sweep", "over"} /\ ActorItr \in Nat \ {0}
  /\ m_TunnelMan.hp \in -1..HP /\ m_TunnelMan.squirts \in Nat
  /\ m_TunnelMan.kits \in Nat /\ m_TunnelMan.nuggets \in 0..Nuggets
  /\ \A k \in DOMAIN m_actors : m_actors[k].kind = "boulder" =>
       /\ m_actors[k].state \in {"stable", "waiting", "falling", "dead"}
       /\ m_actors[k].clock \in 0..WAIT /\ m_actors[k].n \in 0..HEIGHT

\* The count that decides whether the level is finished is the number of barrels that
\* are still there, at every moment of a tick.
BarrelsCounted == m_barrelsLeft = Count("barrel")

\* Gold is neither made nor lost: every nugget of the level is in the ground, with the
\* player or dropped, and what was dropped is not picked up again.
GoldAccounted == Count("nugget") + m_TunnelMan.nuggets + dropped = Nuggets

\* Between two ticks no dead actor is left in m_actors, however many died in one, next to
\* each other or at either end: the sweep looks at each one, although it erases while it
\* goes on.
NoDeadKept == phase = "player" => \A k \in DOMAIN m_actors : m_actors[k].state # "dead"

\* The books of a level are right at every moment of a tick: the count of barrels and the
\* gold agree with the actors there are, before, while and after the dead are erased.
ActorsAccounted == TypeOK /\ BarrelsCounted /\ GoldAccounted /\ NoDeadKept

FairStep ==
  /\ level' # level => m_TunnelMan.state # "dead" /\ Count("barrel") = 0 /\ lives' = lives
  /\ lives' # lives => m_TunnelMan.state = "dead" /\ lives' = lives - 1

\* A level is only finished by a player who is alive and has every barrel; a life is
\* only lost in a level that is not finished, one at a time.
FairEnds == [][FairStep]_vars

\* A boulder that has begun to wait is gone in the end, by landing or with the level:
\* whatever state it is in, each of its turns brings it nearer.
BoulderGoes ==
  \A k \in 1..Boulders :
    (phase = "actors" /\ k \in DOMAIN m_actors /\ m_actors[k].kind = "boulder" /\ m_actors[k].state = "waiting")
      ~> (\/ phase = "over" \/ k \notin DOMAIN m_actors \/ m_actors[k].kind # "boulder"
          \/ m_actors[k].state \in {"dead", "stable"})

\* A player who has every barrel finishes the level, unless killed in the same tick: then
\* move() sees the death first, and the life is lost.
AllFoundEnds ==
  /\ (m_barrelsLeft = 0 /\ phase # "over") ~> (phase = "finished" \/ m_TunnelMan.state = "dead")
  /\ m_TunnelMan.state = "dead" ~> (phase = "over" \/ m_TunnelMan.state # "dead")

\* Whatever the player does, boulders come down and a level that is decided ends.  A level
\* that nothing decides may go on for ever: after Escape the player does not move any more,
\* and only what kills a player ends the level.
LevelGoesOn == BoulderGoes /\ AllFoundEnds
=============================================================================
