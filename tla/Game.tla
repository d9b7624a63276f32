-------------------------------- MODULE Game --------------------------------
(* The sample game of the cartridge (riscv-cart/src/main.c and app.c): the    *)
(* threads that move the bird, by the controller and by gravity, the one that *)
(* moves the pillars and the one that ends the game, preempted between any    *)
(* two accesses to what they share. A round in which the tick counter has not *)
(* changed only yields; when it changes is the clock's, so only the rounds    *)
(* that act are steps. Sprites are Video's, the mutex is the kernel's.        *)
EXTENDS Integers, Sequences, FiniteSets

CONSTANTS
    Screen,      \* <<width, height>>: <<512, 288>> in the code, and so on:
    BirdStart,   \* <<30, 80>>
    BirdSize,    \* <<34, 24>>
    BlockSide,   \* 64: a pillar's blocks are as wide as high
    PillarWidth, \* 52
    PillarX,     \* where the pillars start: 100, 264, 428
    PillarHeights, \* the heights a pillar may have, at most three blocks
    Speed,       \* 5
    Fall,        \* 3
    Drift,       \* movement_offset: 2
    Directions,  \* the directions the player may hold, <<0, 0>> for none
    MaxPresses,  \* bound on the changes of the controller
    MaxBeyond    \* bound on how far beyond the screen the bird goes unnoticed

ASSUME GameAssumption ==
    /\ Speed \in Nat \ {0} /\ Fall \in Nat \ {0} /\ BlockSide \in Nat \ {0} /\ Drift \in 1..BlockSide
    /\ PillarHeights \subseteq 1..3 * BlockSide /\ PillarWidth \in 0..BlockSide
    /\ Screen \in Nat \X Nat /\ PillarX \in -BlockSide..Screen[1]
    /\ BirdStart \in Int \X Int /\ Directions \subseteq Int \X Int

VARIABLES
    bird,        \* <<x, y>>
    bird_mtx,    \* the thread that holds the bird's mutex
    pillars,     \* globalPillars, by number: x, y, height and the blocks' x
    heights,     \* of the pillars: the first is a bottom, the second a top
    running_flag,
    place,       \* pc of every thread
    held,        \* the controller
    presses,
    inc,         \* sprite_inc_x and sprite_inc_y
    sprite_y,    \* gravity's copy of y, 0 outside its round
    seenAt,      \* bird_x and bird_y of the collision thread, 0 outside its round
    due          \* history: where the moves so far lead

gameVars == <<bird, bird_mtx, pillars, heights, running_flag, place, held, presses,
              inc, sprite_y, seenAt, due>>
birdVars == <<bird, bird_mtx, due>>
playerVars == <<held, presses, inc>>

Movers == {"graphics", "gravity"}
Nobody == "nobody"
Sides == 1..2

AtPlace(t, l) == place[t] = l
Goes(t, from, to) == AtPlace(t, from) /\ place' = [place EXCEPT ![t] = to]
(* The loop's test and getTicks: the thread stops, or goes on at to.          *)
Rounds(t, to) == Goes(t, <<"loop">>, IF running_flag THEN to ELSE <<"done">>)

-----------------------------------------------------------------------------
(* createABottom and createATop: the rows at which the blocks start. *)
BottomRows(h) == [i \in 1..(h + BlockSide - 1) \div BlockSide |-> Screen[2] - h + (i - 1) * BlockSide]
TopRows(h) ==
    LET remaining == h % BlockSide
        head == IF remaining = 0 THEN <<>> ELSE <<remaining - BlockSide>>
    IN head \o [i \in 1..h \div BlockSide |-> remaining + (i - 1) * BlockSide]
Rows(j) == IF j = 1 THEN BottomRows(heights[j]) ELSE TopRows(heights[j])

(* globalPillars before movePillarThread has run. *)
NotYet == [x |-> 0, y |-> 0, height |-> 0, blockX |-> <<>>]
Created(j) ==
    [x |-> PillarX, y |-> IF j = 1 THEN Screen[2] - heights[j] ELSE 0, height |-> heights[j],
     blockX |-> [i \in DOMAIN Rows(j) |-> PillarX]]

(* movePillar, one block: the pillar's own x is taken before the wrap. *)
Moved(p, i) ==
    LET x == p.blockX[i] - Drift
    IN [p EXCEPT !.x = x, !.blockX[i] = IF x < -BlockSide THEN Screen[1] ELSE x]

(* One pillar is created, and one block moved, at a time. *)
CreatePillar(j) ==
    /\ Goes("pillars", <<"create", j>>, IF j = 1 THEN <<"create", 2>> ELSE <<"loop">>)
    /\ pillars' = [pillars EXCEPT ![j] = Created(j)]
    /\ UNCHANGED <<birdVars, heights, running_flag, playerVars, sprite_y, seenAt>>
MovePillars ==
    /\ Rounds("pillars", <<"block", 1, 1>>)
    /\ UNCHANGED <<birdVars, pillars, heights, running_flag, playerVars, sprite_y, seenAt>>
MovePillar(j, i) ==
    /\ i \in DOMAIN Rows(j)
    /\ Goes("pillars", <<"block", j, i>>,
            IF i < Len(Rows(j)) THEN <<"block", j, i + 1>>
            ELSE IF j = 1 THEN <<"block", 2, 1>> ELSE <<"loop">>)
    /\ pillars' = [pillars EXCEPT ![j] = Moved(@, i)]
    /\ UNCHANGED <<birdVars, heights, running_flag, playerVars, sprite_y, seenAt>>

-----------------------------------------------------------------------------
(* The bound: a bird that has left the screen is moved no further until the   *)
(* collision thread has had its round.                                        *)
InReach == \A d \in 1..2 : bird[d] >= -MaxBeyond /\ bird[d] <= Screen[d] + MaxBeyond

(* mutexLock and mutexUnlock of the bird, by the threads that move it. *)
Freely(t) == TRUE        \* mutant: the lock does not exclude
Lockable(t) == bird_mtx = Nobody
LockBird(t) ==
    /\ Lockable(t) /\ Goes(t, <<"lock">>, <<"locked">>)
    /\ bird_mtx' = t
    /\ due' = IF t = "gravity" THEN <<due[1], due[2] + Fall>> ELSE <<due[1] + inc[1], due[2] + inc[2]>>
    /\ UNCHANGED <<bird, pillars, heights, running_flag, playerVars, sprite_y, seenAt>>
UnlockBird(t) ==
    /\ Goes(t, <<"unlock">>, <<"loop">>)
    /\ bird_mtx' = Nobody /\ sprite_y' = 0
    /\ UNCHANGED <<bird, due, pillars, heights, running_flag, playerVars, seenAt>>

(* threadGraphics: read the controller, then move x and y by what it says. *)
ReadController ==
    /\ Rounds("graphics", <<"lock">>) /\ (running_flag => InReach)
    /\ inc' = IF running_flag THEN <<held[1] * Speed, held[2] * Speed>> ELSE inc
    /\ UNCHANGED <<birdVars, pillars, heights, running_flag, held, presses, sprite_y, seenAt>>
MoveX ==
    /\ Goes("graphics", <<"locked">>, <<"y">>)
    /\ bird' = [bird EXCEPT ![1] = @ + inc[1]]
    /\ UNCHANGED <<bird_mtx, due, pillars, heights, running_flag, playerVars, sprite_y, seenAt>>
MoveY ==
    /\ Goes("graphics", <<"y">>, <<"unlock">>)
    /\ bird' = [bird EXCEPT ![2] = @ + inc[2]]
    /\ UNCHANGED <<bird_mtx, due, pillars, heights, running_flag, playerVars, sprite_y, seenAt>>

(* gravityThread: every third tick y is copied, raised and stored. *)
BeginFall ==
    /\ Rounds("gravity", <<"lock">>) /\ (running_flag => InReach)
    /\ UNCHANGED <<birdVars, pillars, heights, running_flag, playerVars, sprite_y, seenAt>>
CopyY ==
    /\ Goes("gravity", <<"locked">>, <<"store">>)
    /\ sprite_y' = bird[2] + Fall
    /\ UNCHANGED <<birdVars, pillars, heights, running_flag, playerVars, seenAt>>
StoreY ==
    /\ Goes("gravity", <<"store">>, <<"unlock">>)
    /\ bird' = [bird EXCEPT ![2] = sprite_y]
    /\ UNCHANGED <<bird_mtx, due, pillars, heights, running_flag, playerVars, sprite_y, seenAt>>

-----------------------------------------------------------------------------
(* calculateCollision of a bird at b and pillar p. *)
Beyond(b) == \E d \in 1..2 : b[d] < 0 \/ b[d] + BirdSize[d] > Screen[d]
Meets(b, p) ==
    /\ b[1] + BirdSize[1] >= p.x /\ b[1] <= p.x + PillarWidth
    /\ b[2] + BirdSize[2] >= p.y /\ b[2] <= p.y + p.height
Collides(b, p) == Beyond(b) \/ Meets(b, p)

(* collisionThread: x and y are read one after the other, without the mutex. *)
SeeX ==
    /\ Rounds("collision", <<"seeY">>)
    /\ seenAt' = IF running_flag THEN <<bird[1], seenAt[2]>> ELSE seenAt
    /\ UNCHANGED <<bird, bird_mtx, due, pillars, heights, running_flag, playerVars, sprite_y>>
SeeY ==
    /\ Goes("collision", <<"seeY">>, <<"judge", 1>>)
    /\ seenAt' = <<seenAt[1], bird[2]>>
    /\ UNCHANGED <<birdVars, pillars, heights, running_flag, playerVars, sprite_y>>
Judge(j) ==
    /\ Goes("collision", <<"judge", j>>, IF j = 1 THEN <<"judge", 2>> ELSE <<"loop">>)
    /\ running_flag' = (running_flag /\ ~Collides(seenAt, pillars[j]))
    /\ seenAt' = IF j = 1 THEN seenAt ELSE <<0, 0>>
    /\ UNCHANGED <<birdVars, pillars, heights, playerVars, sprite_y>>

(* The player presses and releases. *)
PressDirection ==
    /\ presses < MaxPresses
    /\ \E b \in Directions \ {held} : held' = b
    /\ presses' = presses + 1
    /\ UNCHANGED <<birdVars, pillars, heights, running_flag, place, inc, sprite_y, seenAt>>

-----------------------------------------------------------------------------
GameInit ==
    /\ bird = BirdStart /\ bird_mtx = Nobody /\ due = BirdStart
    /\ heights \in [Sides -> PillarHeights]
    /\ pillars = [j \in Sides |-> NotYet]
    /\ running_flag = TRUE
    /\ place = [t \in Movers \union {"pillars", "collision"} |->
                  IF t = "pillars" THEN <<"create", 1>> ELSE <<"loop">>]
    /\ held = <<0, 0>> /\ presses = 0
    /\ inc = <<0, 0>> /\ sprite_y = 0 /\ seenAt = <<0, 0>>

Graphics == ReadController \/ LockBird("graphics") \/ MoveX \/ MoveY \/ UnlockBird("graphics")
Gravity == BeginFall \/ LockBird("gravity") \/ CopyY \/ StoreY \/ UnlockBird("gravity")
PillarStep == MovePillars \/ (\E j \in Sides : CreatePillar(j) \/ \E i \in 1..3 : MovePillar(j, i))
Collision == SeeX \/ SeeY \/ (\E j \in Sides : Judge(j))
GameNext == Graphics \/ Gravity \/ PillarStep \/ Collision \/ PressDirection
GameSpec == GameInit /\ [][GameNext]_gameVars

-----------------------------------------------------------------------------
(* No move of the bird is lost, although one thread adds to x and y in place  *)
(* and another copies, raises and stores y: whenever nobody holds the mutex   *)
(* the bird is where all moves begun so far lead (main.c's threadGraphics and *)
(* gravityThread).                                                            *)
NoMoveLost == bird_mtx = Nobody => bird = due

(* A pillar is drawn as what the bird collides with: its blocks follow one    *)
(* another without a gap and cover, within the screen, exactly the rows from  *)
(* y to y + height (createABottom and createATop against calculateCollision). *)
ColumnsCoverPillars ==
    \A j \in Sides : pillars[j].height # 0 =>
        {y \in 0..Screen[2] - 1 : \E i \in DOMAIN Rows(j) : Rows(j)[i] <= y /\ y < Rows(j)[i] + BlockSide}
            = {y \in 0..Screen[2] - 1 : pillars[j].y <= y /\ y < pillars[j].y + pillars[j].height}

(* Between its rounds the pillars' thread leaves every pillar in one piece:   *)
(* its blocks share an x on the screen or just left of it, and the x the bird *)
(* collides with is theirs, except after the wrap, where movePillar leaves    *)
(* the pillar behind the left edge for one round.                             *)
ColumnsStand ==
    AtPlace("pillars", <<"loop">>) => \A j \in Sides :
        LET p == pillars[j] IN
        /\ \A i \in DOMAIN p.blockX : p.blockX[i] = p.blockX[1] /\ p.blockX[i] \in -BlockSide..Screen[1]
        /\ p.x = p.blockX[1] \/ (p.blockX[1] = Screen[1] /\ p.x < -BlockSide)

GameInv == NoMoveLost /\ ColumnsCoverPillars /\ ColumnsStand

=============================================================================
