------------------------------- MODULE Tanks -------------------------------
(***************************************************************************)
(* The tanks game (examples/jph2/tanks-wss.cpp).  The game server's one      *)
(* thread runs the callbacks, and the tick thread carries out the events,   *)
(* finds the collisions and moves the tanks; they share the queue and the   *)
(* tables without a lock.  Each access to one of them is a step: rotations, *)
(* speeds and turnSpeeds are written with locations and only read by        *)
(* operator[], so locations stands for the four.                            *)
(***************************************************************************)
EXTENDS Naturals, Sequences, SequencesExt, FiniteSetsExt

CONSTANTS
    Players,    \* numbers of the connections
    Handles,    \* names their users give, as sequences
    MaxJoins    \* bound on the announcements

ASSUME TanksAssumption == (\A handle \in Handles : handle \in Seq(STRING)) /\ MaxJoins \in Nat

VARIABLES
    client_details,    \* the handle each connection announced, or None
    players,           \* tanks in game_state["players"]
    locations,         \* tanks that have an entry there
    game_event_queue,
    event,             \* what the tick thread carries out, or NoEvent
    phase,             \* where it is, or "lost" or "refused" once the program has ended
    spawning,          \* the tank on_read is adding, or None
    steered,           \* the tank on_read has found for an input, or None
    placed,            \* it has its location
    joins,             \* announcements so far
    raced              \* tanks an event was carried out for while on_read was at them

gameVars == <<client_details, players, locations, game_event_queue, event, phase, spawning,
              steered, placed, joins, raced>>

None == <<>>

\* handle + "tank", the key of every table; events of type 2 carry it.
Tank(handle) == Append(handle, "tank")
Tanks == {Tank(h) : h \in Handles}
Event(type, player) == [type |-> type, player |-> player]
NoEvent == Event(3, None)

TanksInit ==
    /\ client_details = [fd \in Players |-> None] /\ joins = 0
    /\ players = {} /\ locations = {} /\ raced = {}
    /\ game_event_queue = <<>> /\ event = NoEvent /\ phase = "events"
    /\ spawning = None /\ steered = None /\ placed = FALSE

tickVars == <<event, phase, raced>>
serverVars == <<client_details, spawning, steered, placed, joins>>

---------------------------------------------------------------------------
(* The tick thread *)

\* The oldest event is taken, and told to every client.
TakeEvent ==
    /\ phase = "events" /\ game_event_queue # <<>>
    /\ event' = Head(game_event_queue) /\ game_event_queue' = Tail(game_event_queue)
    /\ phase' = IF event'.type = 0 THEN "events" ELSE "eraseTables"
    /\ UNCHANGED <<players, locations, raced, serverVars>>

\* The key an event of type 1 or 2 erases.
Erased == IF event.type = 1 THEN Tank(event.player) ELSE event.player

\* A tank that on_read is at meanwhile is remembered.
Race(busy) == raced' = IF Erased \in busy THEN raced \cup {Erased} ELSE raced

\* Mutant: only an explosion erases the tables.
EraseExploded ==
    /\ phase = "eraseTables" /\ phase' = "erasePlayer"
    /\ locations' = IF event.type = 2 THEN locations \ {Erased} ELSE locations
    /\ Race({spawning})
    /\ UNCHANGED <<players, game_event_queue, event, serverVars>>

EraseTables ==
    /\ phase = "eraseTables" /\ phase' = "erasePlayer"
    /\ locations' = locations \ {Erased}
    /\ Race({spawning})
    /\ UNCHANGED <<players, game_event_queue, event, serverVars>>

ErasePlayer ==
    /\ phase = "erasePlayer" /\ phase' = "events"
    /\ players' = players \ {Erased}
    /\ Race({spawning, steered})
    /\ UNCHANGED <<locations, game_event_queue, event, serverVars>>

EventsDone ==
    /\ phase = "events" /\ game_event_queue = <<>> /\ phase' = "collide"
    /\ UNCHANGED <<players, locations, game_event_queue, event, raced, serverVars>>

\* Every tank that overlaps another gets an event for each that it overlaps.
Collide ==
    /\ phase = "collide" /\ phase' = "move"
    /\ \E overlap \in SUBSET kSubset(2, locations) :
         LET hits == SetToSeq({hit \in locations \X locations : {hit[1], hit[2]} \in overlap})
         IN game_event_queue' = game_event_queue \o [i \in DOMAIN hits |-> Event(2, hits[i][1])]
    /\ UNCHANGED <<players, locations, event, raced, serverVars>>

\* The tanks move; locations.at throws for one without a location, and nothing
\* catches it.
Move ==
    /\ phase = "move"
    /\ phase' = IF players \subseteq locations THEN "events" ELSE "lost"
    /\ UNCHANGED <<players, locations, game_event_queue, event, raced, serverVars>>

TickThread == TakeEvent \/ EraseTables \/ ErasePlayer \/ EventsDone \/ Collide \/ Move

---------------------------------------------------------------------------
(* The game server's thread *)

Runs == phase \notin {"lost", "refused"}
Idle == spawning = None /\ steered = None /\ Runs

\* on_read, "handle" with an input: the tank is counted, and taken by operator[],
\* which inserts a null one, and ends the program with it, if it is gone by then.
FindTank(handle) ==
    /\ Idle /\ Tank(handle) \in players
    /\ steered' = Tank(handle)
    /\ UNCHANGED <<players, locations, game_event_queue, tickVars, client_details, spawning,
                   placed, joins>>

Steer ==
    /\ steered # None /\ Runs
    /\ steered' = None
    /\ phase' = IF steered \in players THEN phase ELSE "lost"
    /\ UNCHANGED <<players, locations, game_event_queue, event, raced, client_details, spawning,
                   placed, joins>>

\* on_read, "announce": the first of a connection counts.
Announce(fd, handle) ==
    /\ Idle /\ client_details[fd] = None /\ joins < MaxJoins
    /\ joins' = joins + 1
    /\ client_details' = [client_details EXCEPT ![fd] = handle]
    /\ game_event_queue' = Append(game_event_queue, Event(0, handle))
    /\ UNCHANGED <<players, locations, tickVars, spawning, steered, placed>>

\* on_disconnect.
Disconnected(fd) ==
    /\ Idle /\ client_details[fd] # None
    /\ game_event_queue' = Append(game_event_queue, Event(1, client_details[fd]))
    /\ client_details' = [client_details EXCEPT ![fd] = None]
    /\ UNCHANGED <<players, locations, tickVars, spawning, steered, placed, joins>>

\* on_read, "handle" with a place: any connection may name any handle that is not
\* in the game.
Spawn(handle) ==
    /\ Idle /\ Tank(handle) \notin players
    /\ spawning' = Tank(handle)
    /\ raced' = IF phase = "erasePlayer" /\ Erased = Tank(handle) THEN raced \cup {Erased} ELSE raced
    /\ UNCHANGED <<players, locations, game_event_queue, event, phase, client_details, steered,
                   placed, joins>>

\* std::stod throws for a place that is no number, and nothing catches it.
Refuse(handle) ==
    /\ Idle /\ Tank(handle) \notin players /\ phase' = "refused"
    /\ UNCHANGED <<players, locations, game_event_queue, event, raced, serverVars>>

\* emplace leaves an entry that is there.
PlaceTank ==
    /\ spawning # None /\ ~placed /\ Runs
    /\ placed' = TRUE /\ locations' = locations \cup {spawning}
    /\ UNCHANGED <<players, game_event_queue, tickVars, client_details, spawning, steered, joins>>

\* The tank enters the game state last.
EnterTank ==
    /\ placed /\ Runs
    /\ players' = players \cup {spawning} /\ spawning' = None /\ placed' = FALSE
    /\ UNCHANGED <<locations, game_event_queue, tickVars, client_details, steered, joins>>

GameServer ==
    \/ \E fd \in Players : Disconnected(fd) \/ \E h \in Handles : Announce(fd, h)
    \/ \E h \in Handles : FindTank(h) \/ Spawn(h) \/ Refuse(h)
    \/ Steer \/ PlaceTank \/ EnterTank

TanksNext == TickThread \/ GameServer

---------------------------------------------------------------------------

\* Every variable holds a value of its type.
TanksTypeOK ==
    /\ client_details \in [Players -> Handles \cup {None}]
    /\ players \subseteq Tanks /\ locations \subseteq Tanks /\ raced \subseteq Tanks
    /\ game_event_queue \in Seq([type : {0, 1}, player : Handles] \cup [type : {2}, player : Tanks])
    /\ phase \in {"events", "eraseTables", "erasePlayer", "collide", "move", "lost", "refused"}
    /\ placed \in BOOLEAN /\ joins \in 0 .. MaxJoins

\* While the program runs, a tank is in the game exactly if it has a location, but for
\* the one that is being added and the one that is being erased, so that the tick
\* thread finds every tank it moves and on_read every tank it steers: unless an event
\* of its name was carried out while on_read was at it, which nothing prevents and
\* which may end the program.
TablesAgree ==
    /\ Runs => \A tank \in Tanks \ raced :
         \/ tank \in players <=> tank \in locations
         \/ spawning = tank
         \/ phase = "erasePlayer" /\ tank = Erased
    /\ phase = "lost" => raced # {}
=============================================================================
