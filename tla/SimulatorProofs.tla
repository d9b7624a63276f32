-------------------------- MODULE SimulatorProofs --------------------------
(* Theorems about the parts of the simulated machine that MCSimulator checks  *)
(* one after another, each from its own specification and for every value of  *)
(* its constants.                                                             *)
EXTENDS Cpu, MemoryMap, Listing, MemoryBox, Game, Video, SequenceTheorems, FiniteSetTheorems,
        WellFoundedInduction, TLAPS

-----------------------------------------------------------------------------
(* The sample game. The bird: whoever holds the mutex is between lock and     *)
(* unlock, and what is left of its move is what separates bird from due.      *)
HoldingPlaces == {<<"locked">>, <<"y">>, <<"store">>, <<"unlock">>}
GameThreads == Movers \cup {"pillars", "collision"}

BirdTypes ==
    /\ bird \in Int \X Int /\ due \in Int \X Int /\ inc \in Int \X Int /\ held \in Int \X Int
    /\ sprite_y \in Int /\ bird_mtx \in Movers \cup {Nobody}
    /\ DOMAIN place = GameThreads
HolderHolds == \A t \in Movers : bird_mtx = t <=> place[t] \in HoldingPlaces
MoveLeft ==
    /\ bird_mtx = Nobody => bird = due
    /\ AtPlace("graphics", <<"locked">>) => due = <<bird[1] + inc[1], bird[2] + inc[2]>>
    /\ AtPlace("graphics", <<"y">>) => due = <<bird[1], bird[2] + inc[2]>>
    /\ AtPlace("gravity", <<"locked">>) => due = <<bird[1], bird[2] + Fall>>
    /\ AtPlace("gravity", <<"store">>) => due = <<bird[1], sprite_y>>
    /\ \A t \in Movers : AtPlace(t, <<"unlock">>) => bird = due
MoverPlaces ==
    /\ place["graphics"] \in {<<"loop">>, <<"lock">>, <<"locked">>, <<"y">>, <<"unlock">>, <<"done">>}
    /\ place["gravity"] \in {<<"loop">>, <<"lock">>, <<"locked">>, <<"store">>, <<"unlock">>, <<"done">>}
BirdInv == BirdTypes /\ HolderHolds /\ MoveLeft /\ MoverPlaces

LEMMA BirdInit == GameInit => BirdInv
BY GameAssumption DEF GameInit, BirdInv, BirdTypes, HolderHolds, MoveLeft, MoverPlaces, HoldingPlaces,
    GameThreads, Movers, Nobody, AtPlace

(* A step that goes to another place is the thread's own.                     *)
LEMMA Going ==
    ASSUME BirdTypes, NEW t \in GameThreads, NEW from, NEW to, Goes(t, from, to)
    PROVE  /\ place[t] = from /\ place'[t] = to /\ DOMAIN place' = GameThreads
           /\ \A u \in GameThreads : u # t => place'[u] = place[u]
BY DEF BirdTypes, Goes, AtPlace

(* The steps of the pillars and of the collision leave the bird alone.        *)
LEMMA OthersLeaveBird ==
    ASSUME BirdInv, PillarStep \/ Collision \/ PressDirection \/ UNCHANGED gameVars
    PROVE  BirdInv'
<1>1. ASSUME NEW t \in {"pillars", "collision"}, NEW from, NEW to, Goes(t, from, to),
             UNCHANGED <<birdVars, playerVars, sprite_y>>
      PROVE  BirdInv'
  <2>1. /\ DOMAIN place' = GameThreads
        /\ place'["graphics"] = place["graphics"] /\ place'["gravity"] = place["gravity"]
    BY <1>1, Going DEF GameThreads, Movers, BirdInv
  <2>2. \A u \in Movers : place'[u] = place[u]
    BY <2>1 DEF Movers
  <2> QED
    BY <1>1, <2>1, <2>2 DEF birdVars, playerVars, BirdInv, BirdTypes, HolderHolds, MoveLeft,
        MoverPlaces, AtPlace
<1>2. CASE PillarStep
  BY <1>1, <1>2 DEF PillarStep, MovePillars, CreatePillar, MovePillar, Rounds
<1>3. CASE Collision
  BY <1>1, <1>3 DEF Collision, SeeX, SeeY, Judge, Rounds, birdVars
<1>4. CASE PressDirection
  <2>1. /\ held' \in Int \X Int
        /\ UNCHANGED <<bird, bird_mtx, due, place, inc, sprite_y>>
    BY <1>4, GameAssumption DEF PressDirection, birdVars
  <2> QED BY <2>1 DEF BirdInv, BirdTypes, HolderHolds, MoveLeft, MoverPlaces, AtPlace
<1>5. CASE UNCHANGED gameVars
  BY <1>5 DEF gameVars, BirdInv, BirdTypes, HolderHolds, MoveLeft, MoverPlaces, AtPlace
<1> QED BY <1>2, <1>3, <1>4, <1>5

LEMMA Pairs ==
    ASSUME NEW x \in Int \X Int, NEW n \in Int
    PROVE  /\ x = <<x[1], x[2]>> /\ x[1] \in Int /\ x[2] \in Int
           /\ [x EXCEPT ![1] = n] = <<n, x[2]>> /\ [x EXCEPT ![2] = n] = <<x[1], n>>
OBVIOUS

(* A thread outside its critical section goes to another place outside it.    *)
LEMMA RoundKeepsBird ==
    ASSUME BirdInv, NEW t \in Movers, NEW from \in {<<"loop">>, <<"lock">>, <<"done">>},
           NEW to \in {<<"loop">>, <<"lock">>, <<"done">>}, Goes(t, from, to),
           UNCHANGED <<birdVars, held, sprite_y>>, inc' \in Int \X Int, t = "graphics" \/ inc' = inc
    PROVE  BirdInv'
<1>1. /\ place[t] = from /\ place'[t] = to /\ DOMAIN place' = GameThreads
      /\ \A u \in Movers : u # t => place'[u] = place[u]
  BY Going DEF GameThreads, Movers, BirdInv
<1>2. BirdTypes' /\ HolderHolds'
  BY <1>1 DEF BirdInv, BirdTypes, HolderHolds, birdVars, HoldingPlaces
<1>3. MoverPlaces'
  BY <1>1 DEF BirdInv, MoverPlaces, Movers
<1>4. MoveLeft'
  <2>1. bird' = bird /\ due' = due /\ sprite_y' = sprite_y /\ bird_mtx' = bird_mtx
    BY DEF birdVars
  <2>2. CASE t = "graphics"
    <3>1. place'["graphics"] = to /\ place'["gravity"] = place["gravity"]
      BY <1>1, <2>2 DEF Movers
    <3> QED BY <2>1, <3>1 DEF BirdInv, MoveLeft, AtPlace, Movers
  <2>3. CASE t = "gravity" /\ inc' = inc
    <3>1. place'["gravity"] = to /\ place'["graphics"] = place["graphics"]
      BY <1>1, <2>3 DEF Movers
    <3> QED BY <2>1, <2>3, <3>1 DEF BirdInv, MoveLeft, AtPlace, Movers
  <2> QED BY <2>2, <2>3 DEF Movers
<1> QED BY <1>2, <1>3, <1>4 DEF BirdInv

LEMMA LockKeepsBird ==
    ASSUME BirdInv, NEW t \in Movers, LockBird(t)
    PROVE  BirdInv'
<1>1. /\ place[t] = <<"lock">> /\ place'[t] = <<"locked">> /\ DOMAIN place' = GameThreads
      /\ \A u \in Movers : u # t => place'[u] = place[u]
  BY Going DEF GameThreads, Movers, BirdInv, LockBird
<1>2. /\ bird_mtx = Nobody /\ bird_mtx' = t /\ bird = due /\ Nobody \notin Movers
      /\ \A u \in Movers : place[u] \notin HoldingPlaces
  BY DEF LockBird, Lockable, BirdInv, MoveLeft, HolderHolds, Nobody, Movers
<1>3. due' = IF t = "gravity" THEN <<due[1], due[2] + Fall>> ELSE <<due[1] + inc[1], due[2] + inc[2]>>
  BY DEF LockBird
<1>4. UNCHANGED <<bird, inc, held, sprite_y>> /\ Fall \in Nat
  BY GameAssumption DEF LockBird, playerVars
<1>5. BirdTypes'
  BY <1>1, <1>2, <1>3, <1>4 DEF BirdInv, BirdTypes
<1>6. HolderHolds'
  BY <1>1, <1>2 DEF HolderHolds, HoldingPlaces
<1>7. MoverPlaces'
  BY <1>1 DEF BirdInv, MoverPlaces, Movers
<1>8. MoveLeft'
  <2>1. \A u \in Movers : u # t => place'[u] \notin HoldingPlaces
    BY <1>1, <1>2
  <2> QED BY <1>1, <1>2, <1>3, <1>4, <2>1 DEF MoveLeft, AtPlace, Movers, HoldingPlaces
<1> QED BY <1>5, <1>6, <1>7, <1>8 DEF BirdInv

LEMMA UnlockKeepsBird ==
    ASSUME BirdInv, NEW t \in Movers, UnlockBird(t)
    PROVE  BirdInv'
<1>1. /\ place[t] = <<"unlock">> /\ place'[t] = <<"loop">> /\ DOMAIN place' = GameThreads
      /\ \A u \in Movers : u # t => place'[u] = place[u]
  BY Going DEF GameThreads, Movers, BirdInv, UnlockBird
<1>2. /\ bird_mtx = t /\ bird_mtx' = Nobody /\ bird = due /\ Nobody \notin Movers /\ sprite_y' = 0
      /\ UNCHANGED <<bird, due, inc, held>>
  BY <1>1 DEF UnlockBird, BirdInv, MoveLeft, HolderHolds, Nobody, Movers, HoldingPlaces, AtPlace, playerVars
<1>3. \A u \in Movers : place'[u] \notin HoldingPlaces
  BY <1>1, <1>2 DEF BirdInv, HolderHolds, HoldingPlaces
<1>4. BirdTypes' /\ HolderHolds'
  BY <1>1, <1>2, <1>3 DEF BirdInv, BirdTypes, HolderHolds
<1>5. MoverPlaces'
  BY <1>1 DEF BirdInv, MoverPlaces, Movers
<1>6. MoveLeft'
  BY <1>2, <1>3 DEF MoveLeft, AtPlace, Movers, HoldingPlaces
<1> QED BY <1>4, <1>5, <1>6 DEF BirdInv

(* A step inside the critical section, from one place to the next.            *)
LEMMA InsideKeepsBird ==
    ASSUME BirdInv, NEW t \in Movers, NEW from \in HoldingPlaces, NEW to \in HoldingPlaces, Goes(t, from, to),
           UNCHANGED <<bird_mtx, due, playerVars>>, bird' \in Int \X Int, sprite_y' \in Int,
           MoverPlaces',
           to = <<"y">> => due = <<bird'[1], bird'[2] + inc[2]>>,
           to = <<"store">> => due = <<bird'[1], sprite_y'>>,
           to = <<"unlock">> => bird' = due,
           to # <<"locked">>
    PROVE  BirdInv'
<1>1. /\ place[t] = from /\ place'[t] = to /\ DOMAIN place' = GameThreads
      /\ \A u \in Movers : u # t => place'[u] = place[u]
  BY Going DEF GameThreads, Movers, BirdInv
<1>2. bird_mtx = t /\ \A u \in Movers : u # t => place'[u] \notin HoldingPlaces
  BY <1>1 DEF BirdInv, HolderHolds
<1>3. BirdTypes' /\ HolderHolds'
  BY <1>1, <1>2 DEF BirdInv, BirdTypes, HolderHolds, playerVars
<1>4. MoveLeft'
  <2>1. \A u \in Movers : u # t =>
            place'[u] \notin {<<"locked">>, <<"y">>, <<"store">>, <<"unlock">>}
    BY <1>2 DEF HoldingPlaces
  <2>2. t # Nobody /\ bird_mtx' = t /\ inc' = inc /\ due' = due
    BY <1>2 DEF Movers, Nobody, playerVars
  <2> QED BY <1>1, <2>1, <2>2 DEF MoveLeft, AtPlace, Movers
<1> QED BY <1>3, <1>4 DEF BirdInv

LEMMA GraphicsKeepsBird == ASSUME BirdInv, Graphics PROVE BirdInv'
<1>1. CASE ReadController
  <2>1. /\ \E to \in {<<"lock">>, <<"done">>} : Goes("graphics", <<"loop">>, to)
        /\ UNCHANGED <<birdVars, held, sprite_y>>
    BY <1>1 DEF ReadController, Rounds
  <2>2. inc' \in Int \X Int
    BY <1>1, GameAssumption DEF ReadController, BirdInv, BirdTypes
  <2> QED BY <2>1, <2>2, RoundKeepsBird DEF Movers
<1>2. CASE LockBird("graphics")
  BY <1>2, LockKeepsBird DEF Movers
<1>3. CASE MoveX
  <2>1. /\ Goes("graphics", <<"locked">>, <<"y">>)
        /\ UNCHANGED <<bird_mtx, due, playerVars, sprite_y>> /\ bird' = [bird EXCEPT ![1] = bird[1] + inc[1]]
    BY <1>3 DEF MoveX
  <2>2. /\ bird \in Int \X Int /\ inc \in Int \X Int /\ sprite_y \in Int
        /\ due = <<bird[1] + inc[1], bird[2] + inc[2]>>
    BY <2>1 DEF BirdInv, BirdTypes, MoveLeft, Goes
  <2>3. bird' = <<bird[1] + inc[1], bird[2]>> /\ bird' \in Int \X Int
    BY <2>1, <2>2, Pairs
  <2>4. place'["graphics"] = <<"y">> /\ place'["gravity"] = place["gravity"]
    BY <2>1, Going DEF BirdInv, GameThreads, Movers
  <2>5. MoverPlaces'
    BY <2>4 DEF BirdInv, MoverPlaces
  <2> QED BY <2>1, <2>2, <2>3, <2>5, InsideKeepsBird DEF Movers, HoldingPlaces
<1>4. CASE MoveY
  <2>1. /\ Goes("graphics", <<"y">>, <<"unlock">>)
        /\ UNCHANGED <<bird_mtx, due, playerVars, sprite_y>> /\ bird' = [bird EXCEPT ![2] = bird[2] + inc[2]]
    BY <1>4 DEF MoveY
  <2>2. /\ bird \in Int \X Int /\ inc \in Int \X Int /\ sprite_y \in Int
        /\ due = <<bird[1], bird[2] + inc[2]>>
    BY <2>1 DEF BirdInv, BirdTypes, MoveLeft, Goes
  <2>3. bird' = <<bird[1], bird[2] + inc[2]>> /\ bird' \in Int \X Int
    BY <2>1, <2>2, Pairs
  <2>4. place'["graphics"] = <<"unlock">> /\ place'["gravity"] = place["gravity"]
    BY <2>1, Going DEF BirdInv, GameThreads, Movers
  <2>5. MoverPlaces'
    BY <2>4 DEF BirdInv, MoverPlaces
  <2> QED BY <2>1, <2>2, <2>3, <2>5, InsideKeepsBird DEF Movers, HoldingPlaces
<1>5. CASE UnlockBird("graphics")
  BY <1>5, UnlockKeepsBird DEF Movers
<1> QED BY <1>1, <1>2, <1>3, <1>4, <1>5 DEF Graphics

LEMMA GravityKeepsBird == ASSUME BirdInv, Gravity PROVE BirdInv'
<1>1. CASE BeginFall
  <2>1. /\ \E to \in {<<"lock">>, <<"done">>} : Goes("gravity", <<"loop">>, to)
        /\ UNCHANGED <<birdVars, held, inc, sprite_y>>
    BY <1>1 DEF BeginFall, Rounds, playerVars
  <2>2. inc' \in Int \X Int
    BY <2>1 DEF BirdInv, BirdTypes
  <2> QED BY <2>1, <2>2, RoundKeepsBird DEF Movers
<1>2. CASE LockBird("gravity")
  BY <1>2, LockKeepsBird DEF Movers
<1>3. CASE CopyY
  <2>1. /\ Goes("gravity", <<"locked">>, <<"store">>)
        /\ UNCHANGED <<bird, bird_mtx, due, playerVars>> /\ sprite_y' = bird[2] + Fall
    BY <1>3 DEF CopyY, birdVars
  <2>2. bird \in Int \X Int /\ due = <<bird[1], bird[2] + Fall>> /\ Fall \in Nat
    BY <2>1, GameAssumption DEF BirdInv, BirdTypes, MoveLeft, Goes
  <2>3. bird' \in Int \X Int /\ sprite_y' \in Int /\ due = <<bird'[1], sprite_y'>>
    BY <2>1, <2>2
  <2>4. place'["gravity"] = <<"store">> /\ place'["graphics"] = place["graphics"]
    BY <2>1, Going DEF BirdInv, GameThreads, Movers
  <2>5. MoverPlaces'
    BY <2>4 DEF BirdInv, MoverPlaces
  <2> QED BY <2>1, <2>3, <2>5, InsideKeepsBird DEF Movers, HoldingPlaces
<1>4. CASE StoreY
  <2>1. /\ Goes("gravity", <<"store">>, <<"unlock">>)
        /\ UNCHANGED <<bird_mtx, due, playerVars, sprite_y>> /\ bird' = [bird EXCEPT ![2] = sprite_y]
    BY <1>4 DEF StoreY
  <2>2. bird \in Int \X Int /\ sprite_y \in Int /\ due = <<bird[1], sprite_y>>
    BY <2>1 DEF BirdInv, BirdTypes, MoveLeft, Goes
  <2>3. bird' = due /\ bird' \in Int \X Int /\ sprite_y' \in Int
    BY <2>1, <2>2, Pairs
  <2>4. place'["gravity"] = <<"unlock">> /\ place'["graphics"] = place["graphics"]
    BY <2>1, Going DEF BirdInv, GameThreads, Movers
  <2>5. MoverPlaces'
    BY <2>4 DEF BirdInv, MoverPlaces
  <2> QED BY <2>1, <2>3, <2>5, InsideKeepsBird DEF Movers, HoldingPlaces
<1>5. CASE UnlockBird("gravity")
  BY <1>5, UnlockKeepsBird DEF Movers
<1> QED BY <1>1, <1>2, <1>3, <1>4, <1>5 DEF Gravity

(* Neither the player's moves of the bird nor gravity's are lost.             *)
LEMMA BirdStep == ASSUME BirdInv, [GameNext]_gameVars PROVE BirdInv'
BY GraphicsKeepsBird, GravityKeepsBird, OthersLeaveBird DEF GameNext

-----------------------------------------------------------------------------
(* The pillars: the rows of a pillar's blocks, which are as many as cover it. *)
LEMMA RowsAre ==
    ASSUME NEW h \in 1..3 * BlockSide
    PROVE  /\ \E n \in Nat \ {0} : DOMAIN BottomRows(h) = 1..n /\ BottomRows(h) \in Seq(Int)
           /\ \E n \in Nat \ {0} : DOMAIN TopRows(h) = 1..n /\ TopRows(h) \in Seq(Int)
<1>1. BlockSide \in Nat /\ BlockSide > 0 /\ h \in Nat /\ h >= 1 /\ Screen[2] \in Nat
  BY GameAssumption
<1>2. (h + BlockSide - 1) \div BlockSide \in Nat \ {0}
  BY <1>1
<1>3. h % BlockSide \in 0..BlockSide-1 /\ h \div BlockSide \in Nat
  BY <1>1
<1>4. h % BlockSide = 0 => h \div BlockSide # 0
  BY <1>1
<1>5. BottomRows(h) \in [1..(h + BlockSide - 1) \div BlockSide -> Int]
  BY <1>1, <1>2 DEF BottomRows
<1> DEFINE remaining == h % BlockSide
           head == IF remaining = 0 THEN <<>> ELSE <<remaining - BlockSide>>
           whole == [i \in 1..h \div BlockSide |-> remaining + (i - 1) * BlockSide]
<1>6. head \in Seq(Int) /\ Len(head) = IF remaining = 0 THEN 0 ELSE 1
  BY <1>1, <1>3
<1>7. whole \in Seq(Int) /\ Len(whole) = h \div BlockSide
  BY <1>1, <1>3
<1>8. TopRows(h) = head \o whole
  BY DEF TopRows
<1> HIDE DEF head, whole
<1>9. TopRows(h) \in Seq(Int) /\ Len(TopRows(h)) = Len(head) + Len(whole)
  BY <1>6, <1>7, <1>8, ConcatProperties
<1>10. Len(TopRows(h)) \in Nat \ {0} /\ DOMAIN TopRows(h) = 1..Len(TopRows(h))
  BY <1>3, <1>4, <1>6, <1>7, <1>9, LenProperties
<1>11. BottomRows(h) \in Seq(Int) /\ DOMAIN BottomRows(h) = 1..(h + BlockSide - 1) \div BlockSide
  BY <1>2, <1>5
<1> QED BY <1>2, <1>9, <1>10, <1>11

(* Blocks of height b from start on cover every row of n of them.             *)
LEMMA Tiles ==
    ASSUME NEW b \in Nat \ {0}, NEW n \in Nat, NEW start \in Int, NEW y \in Int
    PROVE  (\E i \in 1..n : start + (i - 1) * b <= y /\ y < start + (i - 1) * b + b)
               <=> (start <= y /\ y < start + n * b)
<1>1. ASSUME NEW i \in 1..n
      PROVE  0 <= (i - 1) * b /\ (i - 1) * b + b <= n * b
  <2>1. i * b <= n * b /\ (i - 1) * b = i * b - b /\ i * b >= b
    OBVIOUS
  <2> QED BY <2>1
<1>2. ASSUME start <= y, y < start + n * b
      PROVE  \E i \in 1..n : start + (i - 1) * b <= y /\ y < start + (i - 1) * b + b
  <2> DEFINE q == (y - start) \div b
  <2>1. q \in Nat /\ q * b <= y - start /\ y - start < q * b + b
    BY <1>2
  <2> HIDE DEF q
  <2>2. q * b < n * b
    BY <1>2, <2>1
  <2>3. q < n
    BY <2>1, <2>2
  <2>4. q + 1 \in 1..n /\ (q + 1) - 1 = q
    BY <2>1, <2>3
  <2>5. start + q * b <= y /\ y < start + q * b + b
    <3>1. q * b \in Int
      BY <2>1
    <3> QED BY <2>1, <3>1
  <2>6. start + ((q + 1) - 1) * b <= y /\ y < start + ((q + 1) - 1) * b + b
    BY <2>4, <2>5
  <2> DEFINE k == q + 1
  <2>7. k \in 1..n /\ start + (k - 1) * b <= y /\ y < start + (k - 1) * b + b
    BY <2>4, <2>6
  <2> HIDE DEF k
  <2> QED BY <2>7
<1> QED BY <1>1, <1>2

(* The rows a pillar is drawn in are those the bird collides with.            *)
LEMMA BottomCovers ==
    ASSUME NEW h \in 1..3 * BlockSide, NEW y \in 0..Screen[2] - 1
    PROVE  (\E i \in DOMAIN BottomRows(h) : BottomRows(h)[i] <= y /\ y < BottomRows(h)[i] + BlockSide)
               <=> (Screen[2] - h <= y /\ y < Screen[2] - h + h)
<1>1. BlockSide \in Nat \ {0} /\ h \in Nat /\ Screen[2] \in Nat
  BY GameAssumption
<1> DEFINE n == (h + BlockSide - 1) \div BlockSide
           start == Screen[2] - h
<1>2. n \in Nat /\ n * BlockSide >= h
  BY <1>1
<1>3. DOMAIN BottomRows(h) = 1..n /\ \A i \in 1..n : BottomRows(h)[i] = start + (i - 1) * BlockSide
  BY DEF BottomRows
<1>4. start \in Int /\ y \in Int /\ y < Screen[2]
  BY <1>1
<1> HIDE DEF n
<1>5. (\E i \in 1..n : start + (i - 1) * BlockSide <= y /\ y < start + (i - 1) * BlockSide + BlockSide)
           <=> (start <= y /\ y < start + n * BlockSide)
  BY <1>1, <1>2, <1>4, Tiles
<1>6. start + n * BlockSide >= Screen[2]
  BY <1>1, <1>2
<1>7. n * BlockSide \in Int
  BY <1>1, <1>2
<1>8. (start <= y /\ y < start + n * BlockSide) <=> (start <= y /\ y < start + h)
  BY <1>1, <1>4, <1>6, <1>7
<1> HIDE DEF start
<1>9. (\E i \in DOMAIN BottomRows(h) : BottomRows(h)[i] <= y /\ y < BottomRows(h)[i] + BlockSide)
           <=> (start <= y /\ y < start + h)
  BY <1>3, <1>5, <1>8
<1> QED BY <1>9 DEF start

LEMMA TopCovers ==
    ASSUME NEW h \in 1..3 * BlockSide, NEW y \in 0..Screen[2] - 1
    PROVE  (\E i \in DOMAIN TopRows(h) : TopRows(h)[i] <= y /\ y < TopRows(h)[i] + BlockSide)
               <=> (0 <= y /\ y < h)
<1>1. BlockSide \in Nat \ {0} /\ h \in Nat /\ Screen[2] \in Nat
  BY GameAssumption
<1> DEFINE remaining == h % BlockSide
           n == h \div BlockSide
           head == IF remaining = 0 THEN <<>> ELSE <<remaining - BlockSide>>
           whole == [i \in 1..n |-> remaining + (i - 1) * BlockSide]
<1>2. n \in Nat /\ remaining \in 0..BlockSide - 1 /\ remaining + n * BlockSide = h
  BY <1>1
<1>3. whole \in Seq(Int) /\ Len(whole) = n
      /\ \A i \in 1..n : whole[i] = remaining + (i - 1) * BlockSide
  BY <1>1, <1>2
<1>4. TopRows(h) = head \o whole
  BY DEF TopRows
<1>5. (\E i \in 1..n : /\ remaining + (i - 1) * BlockSide <= y
                       /\ y < remaining + (i - 1) * BlockSide + BlockSide)
           <=> (remaining <= y /\ y < remaining + n * BlockSide)
  BY <1>1, <1>2, Tiles
<1>6. CASE remaining = 0
  <2>1. TopRows(h) = whole
    BY <1>3, <1>4, <1>6, ConcatEmptySeq
  <2>2. DOMAIN TopRows(h) = 1..n
    BY <2>1
  <2>3. (\E i \in 1..n : whole[i] <= y /\ y < whole[i] + BlockSide) <=> (0 <= y /\ y < h)
    BY <1>2, <1>3, <1>5, <1>6
  <2> QED BY <2>1, <2>2, <2>3
<1>7. CASE remaining # 0
  <2>1. head = <<remaining - BlockSide>> /\ head \in Seq(Int) /\ Len(head) = 1
    BY <1>1, <1>2, <1>7
  <2> HIDE DEF head, whole
  <2>2. /\ TopRows(h) \in Seq(Int) /\ Len(TopRows(h)) = 1 + n
        /\ \A i \in 1..1 + n : TopRows(h)[i] = IF i <= 1 THEN head[i] ELSE whole[i - 1]
    BY <1>3, <1>4, <2>1, ConcatProperties
  <2>3. DOMAIN TopRows(h) = 1..1 + n
    BY <2>2, LenProperties
  <2> HIDE DEF n, remaining
  <2>4. TopRows(h)[1] = remaining - BlockSide /\ \A i \in 1..n : TopRows(h)[i + 1] = whole[i]
    <3>1. 1 \in 1..1 + n /\ 1 <= 1
      BY <1>2
    <3>2. \A i \in 1..n : i + 1 \in 1..1 + n /\ ~(i + 1 <= 1) /\ (i + 1) - 1 = i
      BY <1>2
    <3>3. TopRows(h)[1] = head[1] /\ \A i \in 1..n : TopRows(h)[i + 1] = whole[i]
      BY <2>2, <3>1, <3>2
    <3> QED BY <2>1, <3>3
  <2>5. ASSUME NEW T
        PROVE (\E i \in 1..1 + n : i \in T) <=> (1 \in T \/ \E i \in 1..n : i + 1 \in T)
    <3>1. 1 \in 1..1 + n /\ \A i \in 1..n : i + 1 \in 1..1 + n
      BY <1>2
    <3>2. \A i \in 1..1 + n : i = 1 \/ (i - 1 \in 1..n /\ (i - 1) + 1 = i)
      BY <1>2
    <3>3. ASSUME NEW i \in 1..1 + n, i \in T
          PROVE  1 \in T \/ \E k \in 1..n : k + 1 \in T
      BY <3>2, <3>3
    <3> QED BY <3>1, <3>3
  <2> DEFINE T == {i \in 1..1 + n : TopRows(h)[i] <= y /\ y < TopRows(h)[i] + BlockSide}
  <2>6. (\E i \in DOMAIN TopRows(h) : TopRows(h)[i] <= y /\ y < TopRows(h)[i] + BlockSide)
          <=> (\E i \in 1..1 + n : i \in T)
    BY <2>3
  <2>7. \A i \in 1..n : i + 1 \in 1..1 + n
    BY <1>2
  <2>8. (\E i \in 1..n : i + 1 \in T)
          <=> (\E i \in 1..n : whole[i] <= y /\ y < whole[i] + BlockSide)
    BY <2>4, <2>7
  <2>9. 1 \in T <=> (remaining - BlockSide <= y /\ y < remaining - BlockSide + BlockSide)
    BY <1>2, <2>4
  <2> HIDE DEF T
  <2>10. (\E i \in 1..n : whole[i] <= y /\ y < whole[i] + BlockSide)
           <=> (remaining <= y /\ y < remaining + n * BlockSide)
    BY <1>3, <1>5
  <2>11. (\E i \in 1..1 + n : i \in T)
           <=> \/ remaining - BlockSide <= y /\ y < remaining - BlockSide + BlockSide
               \/ remaining <= y /\ y < remaining + n * BlockSide
    BY <2>5, <2>8, <2>9, <2>10
  <2>12. \/ remaining - BlockSide <= y /\ y < remaining - BlockSide + BlockSide
         \/ remaining <= y /\ y < h
         <=> (0 <= y /\ y < h)
    BY <1>1, <1>2
  <2> QED BY <1>2, <2>6, <2>11, <2>12
<1> QED BY <1>6, <1>7

(* Where the pillars are: in one piece between two rounds; during a round the *)
(* blocks before i have been moved and the others have not.                   *)
Pieces(n) == [x : Int, y : Int, height : Int, blockX : [1..n -> Int]]
Wrapped(x) == IF x < -BlockSide THEN Screen[1] ELSE x
Standing(p, n) ==
    /\ \A i \in 1..n : p.blockX[i] = p.blockX[1] /\ p.blockX[i] \in -BlockSide..Screen[1]
    /\ p.x = p.blockX[1] \/ (p.blockX[1] = Screen[1] /\ p.x < -BlockSide)
Moving(p, n, i) ==
    \E x \in -BlockSide..Screen[1] :
        /\ \A k \in 1..n : p.blockX[k] = IF k < i THEN Wrapped(x - Drift) ELSE x
        /\ i > 1 => p.x = x - Drift

LEMMA StandingMoves ==
    ASSUME NEW n \in Nat \ {0}, NEW p \in Pieces(n), Standing(p, n)
    PROVE  Moving(p, n, 1)
<1>1. 1 \in 1..n
  OBVIOUS
<1>2. p.blockX[1] \in -BlockSide..Screen[1]
  BY <1>1 DEF Standing
<1>3. \A k \in 1..n : p.blockX[k] = p.blockX[1] /\ ~(k < 1)
  BY DEF Standing
<1>4. \A k \in 1..n : p.blockX[k] = IF k < 1 THEN Wrapped(p.blockX[1] - Drift) ELSE p.blockX[1]
  BY <1>3
<1> QED BY <1>2, <1>4 DEF Moving

LEMMA BlockMoves ==
    ASSUME NEW n \in Nat \ {0}, NEW p \in Pieces(n), NEW i \in 1..n, Moving(p, n, i)
    PROVE  /\ Moved(p, i) \in Pieces(n) /\ Moved(p, i).y = p.y /\ Moved(p, i).height = p.height
           /\ i < n => Moving(Moved(p, i), n, i + 1)
           /\ i = n => Standing(Moved(p, i), n)
<1>1. /\ BlockSide \in Nat \ {0} /\ Drift \in 1..BlockSide /\ Screen[1] \in Nat
  BY GameAssumption
<1>2. PICK x \in -BlockSide..Screen[1] :
          /\ \A k \in 1..n : p.blockX[k] = IF k < i THEN Wrapped(x - Drift) ELSE x
          /\ i > 1 => p.x = x - Drift
  BY DEF Moving
<1>3. p.blockX[i] = x /\ x \in Int
  BY <1>1, <1>2
<1> DEFINE q == Moved(p, i)
<1>4. q = [p EXCEPT !.x = x - Drift, !.blockX[i] = Wrapped(x - Drift)]
  BY <1>3 DEF Moved, Wrapped
<1>5. Wrapped(x - Drift) \in -BlockSide..Screen[1]
  BY <1>1, <1>2 DEF Wrapped
<1>6. /\ q \in Pieces(n) /\ q.y = p.y /\ q.height = p.height /\ q.x = x - Drift
      /\ q.blockX[i] = Wrapped(x - Drift)
      /\ \A k \in 1..n : k # i => q.blockX[k] = p.blockX[k]
  <2>1. x - Drift \in Int /\ Wrapped(x - Drift) \in Int
    BY <1>1, <1>3, <1>5
  <2> DEFINE a == x - Drift
             b == Wrapped(x - Drift)
  <2> HIDE DEF a, b
  <2>2. q = [p EXCEPT !.x = a, !.blockX[i] = b] /\ a \in Int /\ b \in Int
    BY <1>4, <2>1 DEF a, b
  <2> HIDE DEF q
  <2>3. /\ q.x = a /\ q.y = p.y /\ q.height = p.height
        /\ q.blockX = [p.blockX EXCEPT ![i] = b] /\ p.blockX \in [1..n -> Int]
    BY <2>2 DEF Pieces
  <2>4. q \in Pieces(n)
    BY <2>2, <2>3 DEF Pieces
  <2> QED BY <2>3, <2>4 DEF a, b
<1> HIDE DEF q
<1>7. ASSUME NEW k \in 1..n
      PROVE  q.blockX[k] = IF k < i + 1 THEN Wrapped(x - Drift) ELSE x
  <2>1. k < i + 1 <=> k < i \/ k = i
    OBVIOUS
  <2> QED BY <1>2, <1>6, <2>1
<1>8. ASSUME i < n PROVE Moving(q, n, i + 1)
  BY <1>6, <1>7 DEF Moving
<1>9. ASSUME i = n PROVE Standing(q, n)
  <2>1. \A k \in 1..n : q.blockX[k] = Wrapped(x - Drift)
    <3>1. \A k \in 1..n : k < i + 1
      BY <1>9
    <3> QED BY <1>7, <3>1
  <2>2. 1 \in 1..n
    OBVIOUS
  <2>3. q.x = Wrapped(x - Drift) \/ (Wrapped(x - Drift) = Screen[1] /\ q.x < -BlockSide)
    BY <1>6 DEF Wrapped
  <2> QED BY <1>5, <2>1, <2>2, <2>3 DEF Standing
<1> QED BY <1>6, <1>8, <1>9 DEF q

Blocks(j) == DOMAIN Rows(j)
Uncreated(j) == pillars[j] = NotYet
Shaped(j) ==
    \E n \in Nat \ {0} :
        /\ Blocks(j) = 1..n /\ pillars[j] \in Pieces(n)
        /\ pillars[j].height = heights[j]
        /\ pillars[j].y = IF j = 1 THEN Screen[2] - heights[j] ELSE 0
Stands(j) == \E n \in Nat \ {0} : Blocks(j) = 1..n /\ Standing(pillars[j], n)
Moves(j, i) == \E n \in Nat \ {0} : Blocks(j) = 1..n /\ Moving(pillars[j], n, i)
Other(j) == 3 - j

PillarPlaces ==
    \/ AtPlace("pillars", <<"create", 1>>) /\ \A j \in Sides : Uncreated(j)
    \/ AtPlace("pillars", <<"create", 2>>) /\ Uncreated(2) /\ Shaped(1) /\ Stands(1)
    \/ AtPlace("pillars", <<"loop">>) /\ \A j \in Sides : Shaped(j) /\ Stands(j)
    \/ /\ \A j \in Sides : Shaped(j)
       /\ \E j \in Sides, i \in Nat :
            AtPlace("pillars", <<"block", j, i>>) /\ Moves(j, i) /\ Stands(Other(j))
    \/ AtPlace("pillars", <<"done">>) /\ \A j \in Sides : Shaped(j)
PillarInv ==
    /\ heights \in [Sides -> PillarHeights] /\ DOMAIN pillars = Sides /\ DOMAIN place = GameThreads
    /\ PillarPlaces

(* What the pillars' thread leaves as it is.                                  *)
LEMMA OthersLeavePillars ==
    ASSUME PillarInv, UNCHANGED <<pillars, heights>>, DOMAIN place' = GameThreads,
           place'["pillars"] = place["pillars"]
    PROVE  PillarInv'
<1>1. \A j \in Sides, i \in Nat :
          /\ Uncreated(j)' = Uncreated(j) /\ Shaped(j)' = Shaped(j)
          /\ Stands(j)' = Stands(j) /\ Moves(j, i)' = Moves(j, i)
  <2> TAKE j \in Sides, i \in Nat
  <2>1. Blocks(j)' = Blocks(j)
    BY DEF Blocks, Rows
  <2>2. pillars'[j] = pillars[j] /\ heights'[j] = heights[j]
    OBVIOUS
  <2> QED BY <2>1, <2>2 DEF Uncreated, Shaped, Stands, Moves
<1>2. \A j \in Sides : Other(j) \in Sides /\ Stands(Other(j))' = Stands(Other(j))
  <2>1. \A j \in Sides : Other(j) \in Sides
    BY DEF Sides, Other
  <2>2. \A j \in Sides : Stands(j)' = Stands(j)
    <3>1. 0 \in Nat
      OBVIOUS
    <3> QED BY <1>1, <3>1
  <2>3. (Stands(2))' = Stands(2) /\ (Stands(1))' = Stands(1)
    BY <2>2 DEF Sides
  <2>4. Other(1) = 2 /\ Other(2) = 1
    BY DEF Other
  <2> QED BY <2>1, <2>2, <2>3, <2>4 DEF Sides, Stands
<1>3. \A l : AtPlace("pillars", l)' = AtPlace("pillars", l)
  BY DEF AtPlace
<1>4. PillarPlaces'
  BY <1>1, <1>2, <1>3 DEF PillarInv, PillarPlaces, Sides
<1> QED BY <1>4 DEF PillarInv

LEMMA BlocksAre ==
    ASSUME heights \in [Sides -> PillarHeights], NEW j \in Sides
    PROVE  \E n \in Nat \ {0} : Blocks(j) = 1..n /\ Len(Rows(j)) = n
<1>1. heights[j] \in 1..3 * BlockSide
  BY GameAssumption
<1>2. CASE j = 1
  <2>1. Rows(j) = BottomRows(heights[j])
    BY <1>2 DEF Rows
  <2> QED BY <1>1, <2>1, RowsAre, LenProperties DEF Blocks
<1>3. CASE j # 1
  <2>1. Rows(j) = TopRows(heights[j])
    BY <1>3 DEF Rows
  <2> QED BY <1>1, <2>1, RowsAre, LenProperties DEF Blocks
<1> QED BY <1>2, <1>3

(* A thread's places tell the cases of PillarPlaces apart.                    *)
LEMMA PlaceTells ==
    ASSUME PillarInv
    PROVE  /\ AtPlace("pillars", <<"create", 1>>) => \A j \in Sides : Uncreated(j)
           /\ AtPlace("pillars", <<"create", 2>>) => Uncreated(2) /\ Shaped(1) /\ Stands(1)
           /\ AtPlace("pillars", <<"loop">>) => \A j \in Sides : Shaped(j) /\ Stands(j)
           /\ \A j \in Sides, i \in Nat :
                AtPlace("pillars", <<"block", j, i>>) =>
                    (\A k \in Sides : Shaped(k)) /\ Moves(j, i) /\ Stands(Other(j))
BY DEF PillarInv, PillarPlaces, AtPlace

LEMMA CreatedStands ==
    ASSUME heights \in [Sides -> PillarHeights], DOMAIN pillars = Sides, NEW j \in Sides,
           heights' = heights, pillars' = [pillars EXCEPT ![j] = Created(j)]
    PROVE  /\ Shaped(j)' /\ Stands(j)' /\ DOMAIN pillars' = Sides
           /\ \A k \in Sides : k # j => pillars'[k] = pillars[k]
<1>1. PICK n \in Nat \ {0} : Blocks(j) = 1..n
  BY BlocksAre
<1>2. /\ pillars'[j] = Created(j) /\ DOMAIN pillars' = Sides
      /\ \A k \in Sides : k # j => pillars'[k] = pillars[k]
  OBVIOUS
<1>3. Blocks(j)' = Blocks(j) /\ heights'[j] = heights[j]
  BY DEF Blocks, Rows
<1>4. PillarX \in -BlockSide..Screen[1] /\ PillarX \in Int /\ Screen[2] \in Int /\ heights[j] \in Int
  <2>1. Screen \in Nat \X Nat /\ BlockSide \in Nat
    BY GameAssumption
  <2>2. Screen[1] \in Int /\ Screen[2] \in Int /\ -BlockSide \in Int /\ 3 * BlockSide \in Int
    BY <2>1
  <2>3. heights[j] \in PillarHeights
    OBVIOUS
  <2>4. heights[j] \in 1..3 * BlockSide /\ PillarX \in -BlockSide..Screen[1]
    BY <2>3, GameAssumption
  <2> QED BY <2>2, <2>4
<1>5. Created(j) = [x |-> PillarX, y |-> IF j = 1 THEN Screen[2] - heights[j] ELSE 0, height |-> heights[j],
                    blockX |-> [i \in 1..n |-> PillarX]]
  BY <1>1 DEF Created, Blocks
<1>6. Created(j) \in Pieces(n) /\ Created(j).height = heights[j]
      /\ Created(j).y = IF j = 1 THEN Screen[2] - heights[j] ELSE 0
  BY <1>4, <1>5 DEF Pieces
<1>7. Standing(Created(j), n)
  <2>1. \A i \in 1..n : Created(j).blockX[i] = PillarX
    BY <1>5
  <2>2. 1 \in 1..n /\ Created(j).x = PillarX
    BY <1>5
  <2> QED BY <1>4, <2>1, <2>2 DEF Standing
<1>8. Shaped(j)'
  BY <1>1, <1>2, <1>3, <1>6 DEF Shaped
<1>9. Stands(j)'
  BY <1>1, <1>2, <1>3, <1>7 DEF Stands
<1> QED BY <1>2, <1>8, <1>9

LEMMA CreateKeepsPillars ==
    ASSUME PillarInv, NEW j \in Sides, CreatePillar(j)
    PROVE  PillarInv'
<1>1. /\ heights \in [Sides -> PillarHeights] /\ DOMAIN pillars = Sides /\ heights' = heights
      /\ DOMAIN place' = GameThreads /\ pillars' = [pillars EXCEPT ![j] = Created(j)]
      /\ AtPlace("pillars", <<"create", j>>)
      /\ AtPlace("pillars", IF j = 1 THEN <<"create", 2>> ELSE <<"loop">>)'
  BY DEF PillarInv, CreatePillar, Goes, GameThreads, AtPlace
<1>2. /\ Shaped(j)' /\ Stands(j)' /\ DOMAIN pillars' = Sides
      /\ \A k \in Sides : k # j => pillars'[k] = pillars[k]
  BY <1>1, CreatedStands
<1>3. CASE j = 1
  <2>1. pillars'[2] = NotYet /\ AtPlace("pillars", <<"create", 2>>)'
    BY <1>1, <1>2, <1>3, PlaceTells DEF Uncreated, Sides
  <2> QED BY <1>1, <1>2, <1>3, <2>1 DEF PillarInv, PillarPlaces, Uncreated
<1>4. CASE j = 2
  <2>1. Shaped(1) /\ Stands(1) /\ AtPlace("pillars", <<"loop">>)'
    BY <1>1, <1>4, PlaceTells
  <2>2. pillars'[1] = pillars[1] /\ heights'[1] = heights[1] /\ Blocks(1)' = Blocks(1)
    BY <1>1, <1>2, <1>4 DEF Sides, Blocks, Rows
  <2>3. Shaped(1)' /\ Stands(1)'
    BY <2>1, <2>2 DEF Shaped, Stands
  <2> QED BY <1>1, <1>2, <1>4, <2>1, <2>3 DEF PillarInv, PillarPlaces, Sides
<1> QED BY <1>3, <1>4 DEF Sides

LEMMA RoundKeepsPillars == ASSUME PillarInv, MovePillars PROVE PillarInv'
<1>1. /\ AtPlace("pillars", <<"loop">>) /\ UNCHANGED <<pillars, heights>> /\ DOMAIN place' = GameThreads
      /\ DOMAIN pillars = Sides /\ heights \in [Sides -> PillarHeights]
      /\ place'["pillars"] = IF running_flag THEN <<"block", 1, 1>> ELSE <<"done">>
  BY DEF PillarInv, MovePillars, Rounds, Goes, GameThreads, AtPlace
<1>2. \A j \in Sides : Shaped(j) /\ Stands(j)
  BY <1>1, PlaceTells
<1>3. \A j \in Sides : Blocks(j)' = Blocks(j) /\ pillars'[j] = pillars[j] /\ heights'[j] = heights[j]
  BY <1>1 DEF Blocks, Rows
<1>4. \A j \in Sides : Shaped(j)' /\ Stands(j)'
  BY <1>2, <1>3 DEF Shaped, Stands
<1>5. Moves(1, 1)'
  <2>1. Shaped(1) /\ Stands(1)
    BY <1>2 DEF Sides
  <2>2. PICK n \in Nat \ {0} : Blocks(1) = 1..n /\ pillars[1] \in Pieces(n)
    BY <2>1 DEF Shaped
  <2>3. PICK m \in Nat \ {0} : Blocks(1) = 1..m /\ Standing(pillars[1], m)
    BY <2>1 DEF Stands
  <2>4. m = n
    BY <2>2, <2>3
  <2>5. Moving(pillars[1], n, 1)
    BY <2>2, <2>3, <2>4, StandingMoves
  <2>6. Blocks(1)' = 1..n /\ pillars'[1] = pillars[1]
    BY <1>3, <2>2 DEF Sides
  <2> QED BY <2>5, <2>6 DEF Moves
<1>6. Stands(Other(1))'
  <2>1. Other(1) = 2 /\ 2 \in Sides
    BY DEF Other, Sides
  <2> QED BY <1>4, <2>1
<1>7. PillarPlaces'
  <2>1. CASE running_flag
    <3>1. AtPlace("pillars", <<"block", 1, 1>>)' /\ 1 \in Sides /\ 1 \in Nat
      BY <1>1, <2>1 DEF Sides, AtPlace
    <3> QED BY <1>4, <1>5, <1>6, <3>1 DEF PillarPlaces
  <2>2. CASE ~running_flag
    <3>1. AtPlace("pillars", <<"done">>)'
      BY <1>1, <2>2 DEF AtPlace
    <3> QED BY <1>4, <3>1 DEF PillarPlaces
  <2> QED BY <2>1, <2>2
<1> QED BY <1>1, <1>7 DEF PillarInv

LEMMA MoveKeepsPillars ==
    ASSUME PillarInv, NEW j \in Sides, NEW i \in 1..3, MovePillar(j, i)
    PROVE  PillarInv'
<1>1. /\ heights \in [Sides -> PillarHeights] /\ DOMAIN pillars = Sides /\ heights' = heights
      /\ DOMAIN place' = GameThreads /\ pillars' = [pillars EXCEPT ![j] = Moved(pillars[j], i)]
      /\ AtPlace("pillars", <<"block", j, i>>) /\ i \in Blocks(j)
      /\ place'["pillars"] = IF i < Len(Rows(j)) THEN <<"block", j, i + 1>>
                             ELSE IF j = 1 THEN <<"block", 2, 1>> ELSE <<"loop">>
  BY DEF PillarInv, MovePillar, Goes, GameThreads, AtPlace, Blocks
<1>2. (\A k \in Sides : Shaped(k)) /\ Moves(j, i) /\ Stands(Other(j))
  BY <1>1, PlaceTells
<1>3. PICK n \in Nat \ {0} : Blocks(j) = 1..n /\ Len(Rows(j)) = n
  BY <1>1, BlocksAre
<1>4. pillars[j] \in Pieces(n) /\ Moving(pillars[j], n, i) /\ i \in 1..n
  <2>1. \A m \in Nat \ {0} : 1..m = 1..n => m = n
    OBVIOUS
  <2> QED BY <1>1, <1>2, <1>3, <2>1 DEF Shaped, Moves
<1>5. /\ pillars'[j] = Moved(pillars[j], i) /\ DOMAIN pillars' = Sides
      /\ pillars'[Other(j)] = pillars[Other(j)] /\ Other(j) \in Sides /\ Other(j) # j
  BY <1>1 DEF Sides, Other
<1>6. \A k \in Sides : Blocks(k)' = Blocks(k) /\ heights'[k] = heights[k]
  BY <1>1 DEF Blocks, Rows
<1>7. /\ Moved(pillars[j], i) \in Pieces(n) /\ Moved(pillars[j], i).y = pillars[j].y
      /\ Moved(pillars[j], i).height = pillars[j].height
      /\ i < n => Moving(Moved(pillars[j], i), n, i + 1)
      /\ i = n => Standing(Moved(pillars[j], i), n)
  BY <1>4, BlockMoves
<1>8. Shaped(j)'
  <2>1. pillars[j].height = heights[j] /\ pillars[j].y = IF j = 1 THEN Screen[2] - heights[j] ELSE 0
    BY <1>2 DEF Shaped
  <2> QED BY <1>3, <1>5, <1>6, <1>7, <2>1 DEF Shaped
<1>9. Shaped(Other(j))' /\ Stands(Other(j))'
  <2> DEFINE k == Other(j)
  <2>1. k \in Sides /\ pillars'[k] = pillars[k] /\ Blocks(k)' = Blocks(k) /\ heights'[k] = heights[k]
    BY <1>5, <1>6
  <2>2. Shaped(k) /\ Stands(k)
    BY <1>2, <1>5
  <2> QED BY <2>1, <2>2 DEF Shaped, Stands
<1>10. \A k \in Sides : Shaped(k)'
  <2>1. \A k \in Sides : k = j \/ k = Other(j)
    BY DEF Sides, Other
  <2> QED BY <1>8, <1>9, <2>1
<1>11. CASE i < n
  <2>1. Moves(j, i + 1)' /\ AtPlace("pillars", <<"block", j, i + 1>>)' /\ i + 1 \in Nat
    BY <1>1, <1>3, <1>5, <1>6, <1>7, <1>11 DEF Moves, AtPlace
  <2> QED BY <1>1, <1>5, <1>9, <1>10, <2>1 DEF PillarInv, PillarPlaces
<1>12. CASE i = n
  <2>1. Stands(j)'
    BY <1>3, <1>5, <1>6, <1>7, <1>12 DEF Stands
  <2>2. CASE j = 2
    <3>1. AtPlace("pillars", <<"loop">>)'
      BY <1>1, <1>3, <1>12, <2>2 DEF AtPlace
    <3>2. \A k \in Sides : k = j \/ k = Other(j)
      BY DEF Sides, Other
    <3>3. \A k \in Sides : Stands(k)'
      BY <1>9, <2>1, <3>2
    <3> QED BY <1>1, <1>5, <1>10, <3>1, <3>3 DEF PillarInv, PillarPlaces
  <2>3. CASE j = 1
    <3>1. AtPlace("pillars", <<"block", 2, 1>>)'
      BY <1>1, <1>3, <1>12, <2>3 DEF AtPlace
    <3>2. Other(j) = 2 /\ Other(2) = 1
      BY <2>3 DEF Other
    <3>3. Moves(2, 1)'
      <4>1. PICK m \in Nat \ {0} : Blocks(2) = 1..m /\ pillars[2] \in Pieces(m)
        BY <1>2, <3>2 DEF Shaped, Sides
      <4>2. PICK p \in Nat \ {0} : Blocks(2) = 1..p /\ Standing(pillars[2], p)
        BY <1>2, <3>2 DEF Stands
      <4>3. m = p
        BY <4>1, <4>2
      <4>4. Moving(pillars[2], m, 1)
        BY <4>1, <4>2, <4>3, StandingMoves
      <4>5. Blocks(2)' = 1..m /\ pillars'[2] = pillars[2]
        BY <1>5, <1>6, <3>2, <4>1
      <4> QED BY <4>4, <4>5 DEF Moves
    <3>4. Stands(Other(2))'
      BY <2>1, <2>3, <3>2
    <3>5. 2 \in Sides /\ 1 \in Nat
      BY DEF Sides
    <3> QED BY <1>1, <1>5, <1>10, <3>1, <3>3, <3>4, <3>5 DEF PillarInv, PillarPlaces
  <2> QED BY <2>2, <2>3 DEF Sides
<1> QED BY <1>4, <1>11, <1>12

LEMMA PillarStepKeeps == ASSUME BirdTypes, PillarInv, [GameNext]_gameVars PROVE PillarInv'
<1>1. ASSUME NEW t \in Movers \cup {"collision"}, NEW from, NEW to, Goes(t, from, to),
             UNCHANGED <<pillars, heights>>
      PROVE  PillarInv'
  <2>1. t \in GameThreads /\ "pillars" \in GameThreads /\ t # "pillars"
    BY DEF GameThreads, Movers
  <2> QED BY <1>1, <2>1, Going, OthersLeavePillars
<1>2. CASE Graphics
  <2>1. "graphics" \in Movers
    BY DEF Movers
  <2> QED BY <1>1, <1>2, <2>1 DEF Graphics, ReadController, LockBird, MoveX, MoveY, UnlockBird, Rounds
<1>3. CASE Gravity
  <2>1. "gravity" \in Movers
    BY DEF Movers
  <2> QED BY <1>1, <1>3, <2>1 DEF Gravity, BeginFall, LockBird, CopyY, StoreY, UnlockBird, Rounds
<1>4. CASE PillarStep
  BY <1>4, CreateKeepsPillars, RoundKeepsPillars, MoveKeepsPillars DEF PillarStep
<1>5. CASE Collision
  BY <1>1, <1>5 DEF Collision, SeeX, SeeY, Judge, Rounds
<1>6. CASE PressDirection \/ UNCHANGED gameVars
  BY <1>6, OthersLeavePillars DEF PressDirection, gameVars, PillarInv
<1> QED BY <1>2, <1>3, <1>4, <1>5, <1>6 DEF GameNext

(* Both invariants hold at first and are kept by every step.                  *)
LEMMA GameInductive ==
    /\ GameInit => BirdInv /\ PillarInv
    /\ BirdInv /\ PillarInv /\ [GameNext]_gameVars => (BirdInv /\ PillarInv)'
<1>1. ASSUME GameInit PROVE PillarInv
  <2>1. AtPlace("pillars", <<"create", 1>>) /\ \A j \in Sides : Uncreated(j)
    BY <1>1 DEF GameInit, AtPlace, Uncreated
  <2> QED BY <1>1, <2>1 DEF GameInit, PillarInv, PillarPlaces, GameThreads
<1> QED BY <1>1, BirdInit, BirdStep, PillarStepKeeps DEF BirdInv

LEMMA GamePromises == ASSUME BirdInv, PillarInv PROVE GameInv
<1>1. NoMoveLost
  BY DEF BirdInv, MoveLeft, NoMoveLost
<1>2. ASSUME NEW j \in Sides, pillars[j].height # 0
      PROVE  {y \in 0..Screen[2] - 1 :
                  \E i \in DOMAIN Rows(j) : Rows(j)[i] <= y /\ y < Rows(j)[i] + BlockSide}
               = {y \in 0..Screen[2] - 1 : pillars[j].y <= y /\ y < pillars[j].y + pillars[j].height}
  <2>1. heights[j] \in 1..3 * BlockSide
    BY GameAssumption DEF PillarInv
  <2>2. Shaped(j)
    <3>1. ~Uncreated(j)
      BY <1>2 DEF Uncreated, NotYet
    <3> QED BY <3>1 DEF PillarInv, PillarPlaces, Sides
  <2>3. pillars[j].height = heights[j] /\ pillars[j].y = IF j = 1 THEN Screen[2] - heights[j] ELSE 0
    BY <2>2 DEF Shaped
  <2>4. CASE j = 1
    <3>1. Rows(j) = BottomRows(heights[j])
      BY <2>4 DEF Rows
    <3> QED BY <2>1, <2>3, <2>4, <3>1, BottomCovers
  <2>5. CASE j # 1
    <3>1. Rows(j) = TopRows(heights[j])
      BY <2>5 DEF Rows
    <3>2. 0 + heights[j] = heights[j]
      BY <2>1, GameAssumption
    <3> QED BY <2>1, <2>3, <2>5, <3>1, <3>2, TopCovers
  <2> QED BY <2>4, <2>5
<1>3. ASSUME AtPlace("pillars", <<"loop">>), NEW j \in Sides
      PROVE  /\ \A i \in DOMAIN pillars[j].blockX :
                  /\ pillars[j].blockX[i] = pillars[j].blockX[1]
                  /\ pillars[j].blockX[i] \in -BlockSide..Screen[1]
             /\ \/ pillars[j].x = pillars[j].blockX[1]
                \/ pillars[j].blockX[1] = Screen[1] /\ pillars[j].x < -BlockSide
  <2>1. Shaped(j) /\ Stands(j)
    BY <1>3, PlaceTells
  <2>2. PICK n \in Nat \ {0} : Blocks(j) = 1..n /\ pillars[j] \in Pieces(n)
    BY <2>1 DEF Shaped
  <2>3. PICK m \in Nat \ {0} : Blocks(j) = 1..m /\ Standing(pillars[j], m)
    BY <2>1 DEF Stands
  <2>4. m = n
    BY <2>2, <2>3
  <2>5. DOMAIN pillars[j].blockX = 1..n
    BY <2>2 DEF Pieces
  <2> QED BY <2>3, <2>4, <2>5 DEF Standing
<1> QED BY <1>1, <1>2, <1>3 DEF GameInv, ColumnsCoverPillars, ColumnsStand

(* The game: no move of the bird is lost, what is drawn is what the bird      *)
(* meets, and the pillars are in one piece between two rounds (main.c and     *)
(* app.c of riscv-cart), for any screen, sizes, heights and directions.       *)
THEOREM GameSafe == GameSpec => []GameInv
BY GameInductive, GamePromises, PTL DEF GameSpec

-----------------------------------------------------------------------------
(* The instruction cache. Sub-blocks are at multiples of their size.          *)
SubBases == {k * SubSize : k \in 0..SubTotal-1}

LEMMA Sizes32 ==
    /\ SubSize \in Nat \ {0} /\ SubCount \in Nat \ {0} /\ SubTotal \in Nat \ {0} /\ SubCount < SubTotal
    /\ WordCount \in Nat \ {0} /\ BlockSize \in Nat \ {0} /\ BlockSize < WordCount
<1>1. SubSize \in Nat \ {0} /\ SubCount \in Nat \ {0} /\ SubTotal \in Nat \ {0} /\ SubCount < SubTotal
  BY CacheAssumption
<1>2. SubSize * SubTotal \in Nat \ {0} /\ SubSize * SubCount \in Nat \ {0}
      /\ SubSize * SubCount < SubSize * SubTotal
  BY <1>1
<1> QED BY <1>1, <1>2 DEF WordCount, BlockSize

LEMMA Multiples ==
    ASSUME NEW s \in Nat \ {0}, NEW k \in Int, NEW q \in Int
    PROVE  /\ k * s \in Int
           /\ k * s <= q * s <=> k <= q
           /\ k * s < q * s <=> k < q
           /\ (k + q) * s = k * s + q * s /\ (k - q) * s = k * s - q * s
           /\ (k * s) \div s = k
<1>1. ASSUME NEW i \in Int, NEW j \in Int, i < j
      PROVE  i * s < j * s
  BY <1>1
<1>2. (k + q) * s = k * s + q * s /\ (k - q) * s = k * s - q * s
  OBVIOUS
<1>3. (k * s) \div s = k
  OBVIOUS
<1>4. k * s \in Int /\ q * s \in Int
  OBVIOUS
<1>5. k < q => k * s < q * s
  BY <1>1
<1>6. q < k => q * s < k * s
  BY <1>1
<1>7. k = q => k * s = q * s
  OBVIOUS
<1>8. k < q \/ q < k \/ k = q
  OBVIOUS
<1>9. k * s <= q * s <=> k <= q
  BY <1>4, <1>5, <1>6, <1>7, <1>8
<1>10. k * s < q * s <=> k < q
  BY <1>4, <1>5, <1>6, <1>7, <1>8
<1> QED BY <1>2, <1>3, <1>4, <1>9, <1>10

LEMMA SubBlockOf ==
    ASSUME NEW addr \in Addresses32
    PROVE  \E q \in 0..SubTotal-1 :
               /\ SubBlockAddr(addr) = q * SubSize /\ q * SubSize \in 0..WordCount-1
               /\ addr % SubSize \in 0..SubSize-1 /\ addr = q * SubSize + (addr % SubSize)
<1>1. addr \in Nat /\ addr < WordCount
  BY Sizes32 DEF Addresses32
<1> DEFINE q == addr \div SubSize
           r == addr % SubSize
           m == q * SubSize
<1>2. q \in Nat /\ r \in 0..SubSize-1 /\ addr = m + r /\ m \in Nat
  BY <1>1, Sizes32
<1> HIDE DEF q, r
<1>3. m \in Nat /\ r \in Nat /\ m <= addr /\ addr - r = m
  <2> HIDE DEF m
  <2>1. r \in Nat
    BY <1>2, Sizes32
  <2> QED BY <1>1, <1>2, <2>1
<1>4. SubTotal * SubSize = WordCount
  BY Sizes32 DEF WordCount
<1>5. m < SubTotal * SubSize
  <2> HIDE DEF m
  <2> QED BY <1>1, <1>3, <1>4, Sizes32
<1>6. q < SubTotal
  BY <1>2, <1>5, Multiples, Sizes32
<1>7. SubBlockAddr(addr) = m
  BY <1>3 DEF SubBlockAddr, r
<1>8. m \in 0..WordCount-1
  <2> HIDE DEF m
  <2> QED BY <1>1, <1>3, Sizes32
<1>9. q \in 0..SubTotal-1
  BY <1>2, <1>6, Sizes32
<1>10. r \in 0..SubSize-1 /\ addr = m + r
  BY <1>2
<1> HIDE DEF m
<1>11. addr % SubSize \in 0..SubSize-1 /\ addr = m + (addr % SubSize)
  BY <1>10 DEF r
<1> QED BY <1>7, <1>8, <1>9, <1>11 DEF m

(* A block that an address does not leave has the sub-block of that address:  *)
(* one that wraps has none, since what it ends before is before its start.    *)
LEMMA InBlock ==
    ASSUME NEW k \in 0..SubTotal-1, NEW q \in 0..SubTotal-1, k * SubSize <= q * SubSize,
           q * SubSize < (k * SubSize + BlockSize) % WordCount
    PROVE  q - k \in 0..SubCount-1
<1> DEFINE n == SubSize
<1>1. /\ n \in Nat \ {0} /\ SubCount \in Nat \ {0} /\ SubTotal \in Nat \ {0} /\ SubCount < SubTotal
      /\ k \in Int /\ q \in Int /\ k < SubTotal /\ q < SubTotal /\ 0 <= k
  BY Sizes32
<1>2. k <= q
  BY <1>1, Multiples
<1>3. k * n + BlockSize = (k + SubCount) * n /\ WordCount = SubTotal * n
  BY <1>1 DEF BlockSize, WordCount
<1> HIDE DEF n
<1>4. CASE k + SubCount < SubTotal
  <2>1. (k + SubCount) * n < SubTotal * n /\ 0 <= (k + SubCount) * n /\ (k + SubCount) * n \in Int
        /\ SubTotal * n \in Int
    <3>1. 0 * n = 0 /\ k + SubCount \in Int /\ 0 <= k + SubCount
      BY <1>1
    <3>2. (k + SubCount) * n < SubTotal * n
      BY <1>1, <1>4, <3>1, Multiples
    <3>3. 0 * n <= (k + SubCount) * n /\ (k + SubCount) * n \in Int /\ SubTotal * n \in Int
      BY <1>1, <3>1, Multiples
    <3> QED BY <3>1, <3>2, <3>3
  <2>2. \A x, y \in Int : 0 <= x /\ x < y => x % y = x
    OBVIOUS
  <2>3. (k * n + BlockSize) % WordCount = (k + SubCount) * n
    BY <1>3, <2>1, <2>2
  <2>4. q * n < (k + SubCount) * n
    BY <2>3 DEF n
  <2>5. q < k + SubCount
    BY <1>1, <2>4, Multiples
  <2> QED BY <1>1, <1>2, <2>5
<1>5. CASE k + SubCount >= SubTotal
  <2> DEFINE d == k + SubCount - SubTotal
  <2>1. d \in Int /\ 0 <= d /\ d < SubTotal /\ d < k
    BY <1>1, <1>5
  <2>2. d * n = (k + SubCount) * n - SubTotal * n
    <3>1. k + SubCount \in Int
      BY <1>1
    <3> QED BY <1>1, <3>1, Multiples
  <2> HIDE DEF d
  <2>3. 0 <= d * n /\ d * n < SubTotal * n /\ d * n \in Int /\ SubTotal * n \in Int
        /\ (k + SubCount) * n \in Int
    <3>1. 0 * n = 0 /\ k + SubCount \in Int
      BY <1>1
    <3>2. d * n < SubTotal * n
      BY <1>1, <2>1, Multiples
    <3>3. 0 * n <= d * n /\ d * n \in Int /\ SubTotal * n \in Int /\ (k + SubCount) * n \in Int
      BY <1>1, <2>1, <3>1, Multiples
    <3> QED BY <3>1, <3>2, <3>3
  <2>4. \A x, y, z \in Int : 0 <= x /\ x < y /\ z - y = x => z % y = x
    OBVIOUS
  <2>5. (k * n + BlockSize) % WordCount = d * n
    BY <1>3, <2>2, <2>3, <2>4
  <2>6. q * n < d * n
    BY <2>5 DEF n
  <2>7. q < d
    BY <1>1, <2>1, <2>6, Multiples
  <2> QED BY <1>1, <1>2, <2>1, <2>7
<1> QED BY <1>1, <1>4, <1>5

(* A cache whose current block and sub-block exist, and whose sub-blocks are  *)
(* where sub-blocks are.                                                      *)
CacheShaped(c) ==
    /\ c = [block |-> c.block, sub |-> c.sub, subs |-> c.subs]
    /\ c.subs = [b \in DOMAIN c.subs |-> c.subs[b]]
    /\ c.block \in SubBases /\ c.sub \in DOMAIN c.subs
    /\ BlockSubs(c.block) \subseteq DOMAIN c.subs /\ DOMAIN c.subs \subseteq SubBases
    /\ \A b \in DOMAIN c.subs : DOMAIN c.subs[b] = 0..SubSize-1
(* Its instructions are those of their addresses in m, but for those in st.   *)
Coherent(c, m, st) ==
    \A b \in DOMAIN c.subs, i \in 0..SubSize-1 :
        c.subs[b][i] # None =>
            /\ c.subs[b][i].addr = b + i /\ b + i \in Mapped
            /\ b + i \in st \/ c.subs[b][i].word = m[b + i]

LEMMA BlockSubsAre ==
    ASSUME NEW k \in 0..SubTotal-1
    PROVE  /\ BlockSubs(k * SubSize) \subseteq SubBases
           /\ \A d \in 0..SubCount-1 :
                k + d < SubTotal => (k + d) * SubSize \in BlockSubs(k * SubSize)
<1> DEFINE n == SubSize
<1>1. /\ n \in Nat \ {0} /\ SubTotal \in Nat \ {0} /\ SubCount \in Nat \ {0} /\ SubCount < SubTotal
      /\ k \in Nat /\ k < SubTotal /\ WordCount = SubTotal * n
  BY Sizes32 DEF WordCount
<1> HIDE DEF n
<1>2. ASSUME NEW d \in 0..SubCount-1
      PROVE  /\ k * n + d * n = (k + d) * n
             /\ k + d < SubTotal => (k * n + d * n) % WordCount = (k + d) * n
             /\ k + d >= SubTotal => (k * n + d * n) % WordCount = (k + d - SubTotal) * n
  <2>1. d \in Nat /\ d < SubTotal /\ k + d \in Nat
    BY <1>1
  <2>2. k * n + d * n = (k + d) * n
    BY <1>1, <2>1, Multiples
  <2>3. ASSUME NEW e \in Nat, e < SubTotal
        PROVE  e * n \in Nat /\ e * n < WordCount
    <3>1. 0 * n = 0 /\ 0 * n <= e * n /\ e * n \in Int
      BY <1>1, Multiples
    <3>2. e * n < SubTotal * n
      BY <1>1, <2>3, Multiples
    <3> QED BY <1>1, <3>1, <3>2
  <2>4. ASSUME k + d < SubTotal PROVE ((k + d) * n) % WordCount = (k + d) * n
    <3>1. \A x, y \in Nat : x < y => x % y = x
      OBVIOUS
    <3>2. (k + d) * n \in Nat /\ (k + d) * n < WordCount
      BY <2>1, <2>3, <2>4
    <3> QED BY <3>1, <3>2, Sizes32
  <2>5. ASSUME k + d >= SubTotal PROVE ((k + d) * n) % WordCount = (k + d - SubTotal) * n
    <3> DEFINE e == k + d - SubTotal
    <3>1. e \in Nat /\ e < SubTotal
      BY <1>1, <2>1, <2>5
    <3>2. e * n = (k + d) * n - SubTotal * n
      BY <1>1, <2>1, Multiples
    <3> HIDE DEF e
    <3>3. e * n \in Nat /\ e * n < WordCount
      BY <2>3, <3>1
    <3>4. \A x, y, z \in Int : 0 <= x /\ x < y /\ z - y = x => z % y = x
      OBVIOUS
    <3>5. (k + d) * n \in Int
      BY <1>1, <2>1, Multiples
    <3>6. ((k + d) * n) % WordCount = e * n
      BY <1>1, <3>2, <3>3, <3>4, <3>5, Sizes32
    <3> QED BY <3>6 DEF e
  <2> QED BY <2>2, <2>4, <2>5
<1>3. ASSUME NEW d \in 0..SubCount-1
      PROVE  (k * n + d * n) % WordCount \in SubBases
  <2>1. CASE k + d < SubTotal
    <3>1. k + d \in 0..SubTotal-1
      BY <1>1, <2>1
    <3> QED BY <1>2, <2>1, <3>1 DEF SubBases, n
  <2>2. CASE k + d >= SubTotal
    <3>1. k + d - SubTotal \in 0..SubTotal-1
      BY <1>1, <2>2
    <3> QED BY <1>2, <2>2, <3>1 DEF SubBases, n
  <2> QED BY <1>1, <2>1, <2>2
<1>4. BlockSubs(k * n) = {(k * n + d * n) % WordCount : d \in 0..SubCount-1}
  BY DEF BlockSubs, n
<1>5. BlockSubs(k * n) \subseteq SubBases
  BY <1>3, <1>4
<1>6. ASSUME NEW d \in 0..SubCount-1, k + d < SubTotal
      PROVE  (k + d) * n \in BlockSubs(k * n)
  BY <1>2, <1>4, <1>6
<1> QED BY <1>5, <1>6 DEF n

LEMMA FollowsAddress ==
    ASSUME NEW c, CacheShaped(c), NEW addr \in Addresses32
    PROVE  /\ CacheShaped(Followed(c, addr))
           /\ Followed(c, addr).sub = SubBlockAddr(addr)
           /\ SubFor(c, addr) = SubBlockAddr(addr)
           /\ \A m, st : Coherent(c, m, st) => Coherent(Followed(c, addr), m, st)
<1>1. PICK q \in 0..SubTotal-1 :
          /\ SubBlockAddr(addr) = q * SubSize /\ q * SubSize \in 0..WordCount-1
          /\ addr % SubSize \in 0..SubSize-1 /\ addr = q * SubSize + (addr % SubSize)
  BY SubBlockOf
<1>2. PICK k \in 0..SubTotal-1 : c.block = k * SubSize
  BY DEF CacheShaped, SubBases
<1>3. /\ SubSize \in Nat \ {0} /\ SubTotal \in Nat \ {0} /\ SubCount \in Nat \ {0} /\ SubCount < SubTotal
      /\ k \in Int /\ q \in Int /\ q < SubTotal /\ WordCount \in Nat \ {0}
  BY Sizes32
<1>4. k * SubSize \in Int /\ q * SubSize \in Int
  BY <1>3, Multiples
<1>5. \A x \in 0..WordCount-1 : x % WordCount = x
  BY <1>3
<1> DEFINE B == BlockFor(c, addr)
           S == SubFor(c, addr)
<1>6. \/ c.sub = q * SubSize /\ B = c.block /\ S = q * SubSize
      \/ c.sub # q * SubSize /\ B = q * SubSize /\ S = q * SubSize
      \/ c.sub # q * SubSize /\ B = c.block /\ S = q * SubSize /\ q - k \in 0..SubCount-1
  <2>1. CASE c.sub = q * SubSize
    BY <1>1, <2>1 DEF BlockFor, SubFor
  <2>2. CASE c.sub # q * SubSize /\ Leaves(c.block, addr)
    <3>1. B = q * SubSize
      BY <1>1, <2>2 DEF BlockFor
    <3>2. S = (q * SubSize + ((q * SubSize - q * SubSize) \div SubSize) * SubSize) % WordCount
      BY <1>1, <2>2, <3>1 DEF SubFor
    <3>3. q * SubSize - q * SubSize = 0 /\ 0 \div SubSize = 0 /\ 0 * SubSize = 0
          /\ q * SubSize + 0 = q * SubSize
      BY <1>3, <1>4
    <3>4. S = (q * SubSize) % WordCount
      BY <3>2, <3>3
    <3> QED BY <1>1, <1>5, <2>2, <3>1, <3>4
  <2>3. CASE c.sub # q * SubSize /\ ~Leaves(c.block, addr)
    <3>1. B = k * SubSize
      BY <1>1, <1>2, <2>3 DEF BlockFor
    <3>2. ~(k * SubSize > q * SubSize) /\ ~(q * SubSize >= (k * SubSize + BlockSize) % WordCount)
      BY <1>1, <1>2, <2>3 DEF Leaves
    <3>3. k * SubSize + BlockSize \in Int /\ (k * SubSize + BlockSize) % WordCount \in Int
      BY <1>3, <1>4, Sizes32
    <3>4. k * SubSize <= q * SubSize /\ q * SubSize < (k * SubSize + BlockSize) % WordCount
      BY <1>4, <3>2, <3>3
    <3>5. q - k \in 0..SubCount-1
      BY <3>4, InBlock
    <3>6. (q - k) * SubSize = q * SubSize - k * SubSize /\ ((q - k) * SubSize) \div SubSize = q - k
      <4>1. q - k \in Int
        BY <1>3
      <4> QED BY <1>3, <4>1, Multiples
    <3>7. S = (k * SubSize + ((q * SubSize - k * SubSize) \div SubSize) * SubSize) % WordCount
      BY <1>1, <2>3, <3>1 DEF SubFor
    <3>8. S = (k * SubSize + (q * SubSize - k * SubSize)) % WordCount
      BY <3>6, <3>7
    <3>9. k * SubSize + (q * SubSize - k * SubSize) = q * SubSize
      BY <1>4
    <3> QED BY <1>1, <1>2, <1>5, <2>3, <3>1, <3>5, <3>8, <3>9
  <2> QED BY <2>1, <2>2, <2>3
<1> HIDE DEF B, S
<1> DEFINE f == Followed(c, addr)
<1>7. /\ f = [block |-> B, sub |-> S, subs |-> WithBlock(c.subs, B)]
      /\ f.block = B /\ f.sub = S /\ f.subs = WithBlock(c.subs, B)
  BY DEF Followed, B, S
<1> HIDE DEF f
<1>8. /\ DOMAIN f.subs = DOMAIN c.subs \cup BlockSubs(B)
      /\ f.subs = [b \in DOMAIN f.subs |-> f.subs[b]]
      /\ \A b \in DOMAIN f.subs : f.subs[b] = IF b \in DOMAIN c.subs THEN c.subs[b] ELSE EmptySub
  BY <1>7 DEF WithBlock
<1>9. B \in SubBases /\ BlockSubs(B) \subseteq SubBases
  <2>1. q * SubSize \in SubBases /\ k * SubSize \in SubBases
    BY DEF SubBases
  <2>2. BlockSubs(q * SubSize) \subseteq SubBases /\ BlockSubs(k * SubSize) \subseteq SubBases
    BY BlockSubsAre
  <2> QED BY <1>2, <1>6, <2>1, <2>2
<1>10. q * SubSize \in DOMAIN c.subs \cup BlockSubs(B) /\ S = q * SubSize
  <2>1. CASE c.sub = q * SubSize
    BY <1>6, <2>1 DEF CacheShaped
  <2>2. CASE B = q * SubSize /\ S = q * SubSize
    <3>1. 0 \in 0..SubCount-1 /\ q + 0 = q /\ q < SubTotal
      BY <1>3
    <3> QED BY <2>2, <3>1, BlockSubsAre
  <2>3. CASE B = c.block /\ S = q * SubSize /\ q - k \in 0..SubCount-1
    <3>1. k + (q - k) = q
      BY <1>3
    <3> QED BY <1>2, <1>3, <2>3, <3>1, BlockSubsAre
  <2> QED BY <1>6, <2>1, <2>2, <2>3
<1>11. \A b \in DOMAIN f.subs : DOMAIN f.subs[b] = 0..SubSize-1
  BY <1>8 DEF CacheShaped, EmptySub
<1>12. CacheShaped(f)
  BY <1>7, <1>8, <1>9, <1>10, <1>11 DEF CacheShaped
<1>13. ASSUME NEW m, NEW st, Coherent(c, m, st), NEW b \in DOMAIN f.subs, NEW i \in 0..SubSize-1,
              f.subs[b][i] # None
       PROVE  /\ f.subs[b][i].addr = b + i /\ b + i \in Mapped
              /\ b + i \in st \/ f.subs[b][i].word = m[b + i]
  <2>1. b \in DOMAIN c.subs
    <3> SUFFICES ASSUME b \notin DOMAIN c.subs PROVE FALSE
      OBVIOUS
    <3>1. f.subs[b] = EmptySub
      BY <1>8
    <3>2. EmptySub[i] = None
      BY DEF EmptySub
    <3> QED BY <1>13, <3>1, <3>2
  <2>2. f.subs[b] = c.subs[b]
    BY <1>8, <2>1
  <2> QED BY <1>13, <2>1, <2>2 DEF Coherent
<1>14. \A m, st : Coherent(c, m, st) => Coherent(f, m, st)
  BY <1>13 DEF Coherent
<1> QED BY <1>1, <1>7, <1>10, <1>12, <1>14 DEF f, S

LEMMA InsertKeeps ==
    ASSUME NEW c, CacheShaped(c), NEW m, NEW st, Coherent(c, m, st), NEW addr \in Addresses32 \cap Mapped,
           NEW word, word = m[addr]
    PROVE  /\ CacheShaped(Insert(c, addr, [addr |-> addr, word |-> word]))
           /\ Coherent(Insert(c, addr, [addr |-> addr, word |-> word]), m, st)
<1> DEFINE f == Followed(c, addr)
           inst == [addr |-> addr, word |-> word]
           g == Insert(c, addr, inst)
<1>1. CacheShaped(f) /\ f.sub = SubBlockAddr(addr) /\ Coherent(f, m, st)
  BY FollowsAddress
<1>2. addr % SubSize \in 0..SubSize-1 /\ addr = SubBlockAddr(addr) + (addr % SubSize)
  BY SubBlockOf
<1>3. g = [f EXCEPT !.subs[f.sub][addr % SubSize] = inst]
  BY DEF Insert
<1> DEFINE s == SubBlockAddr(addr)
           k == addr % SubSize
<1> HIDE DEF f, g, inst, s, k
<1>4. /\ f = [block |-> f.block, sub |-> f.sub, subs |-> f.subs]
      /\ f.subs = [b \in DOMAIN f.subs |-> f.subs[b]]
      /\ f.sub = s /\ s \in DOMAIN f.subs /\ DOMAIN f.subs[s] = 0..SubSize-1 /\ k \in 0..SubSize-1
      /\ addr = s + k
  BY <1>1, <1>2 DEF CacheShaped, s, k
<1>5. g = [f EXCEPT !.subs = [f.subs EXCEPT ![s] = [f.subs[s] EXCEPT ![k] = inst]]]
  BY <1>3, <1>4 DEF k
<1>6. /\ g = [block |-> f.block, sub |-> s, subs |-> g.subs]
      /\ g.block = f.block /\ g.sub = s
      /\ g.subs = [f.subs EXCEPT ![s] = [f.subs[s] EXCEPT ![k] = inst]]
  BY <1>4, <1>5
<1>7. /\ DOMAIN g.subs = DOMAIN f.subs /\ g.subs = [b \in DOMAIN g.subs |-> g.subs[b]]
      /\ \A b \in DOMAIN f.subs : b # s => g.subs[b] = f.subs[b]
      /\ g.subs[s] = [f.subs[s] EXCEPT ![k] = inst]
  BY <1>4, <1>6
<1>8. /\ DOMAIN g.subs[s] = 0..SubSize-1 /\ g.subs[s][k] = inst
      /\ \A i \in 0..SubSize-1 : i # k => g.subs[s][i] = f.subs[s][i]
  BY <1>4, <1>7
<1>9. CacheShaped(g)
  BY <1>1, <1>4, <1>6, <1>7, <1>8 DEF CacheShaped
<1>10. ASSUME NEW b \in DOMAIN g.subs, NEW i \in 0..SubSize-1, g.subs[b][i] # None
       PROVE  /\ g.subs[b][i].addr = b + i /\ b + i \in Mapped
              /\ b + i \in st \/ g.subs[b][i].word = m[b + i]
  <2>1. CASE b = s /\ i = k
    <3>1. inst.addr = s + k /\ inst.word = m[s + k] /\ s + k \in Mapped
      BY <1>4 DEF inst
    <3> QED BY <1>8, <2>1, <3>1
  <2>2. CASE ~(b = s /\ i = k)
    <3>1. g.subs[b][i] = f.subs[b][i] /\ b \in DOMAIN f.subs
      BY <1>7, <1>8, <2>2
    <3> QED BY <1>1, <1>10, <3>1 DEF Coherent
  <2> QED BY <2>1, <2>2
<1> QED BY <1>9, <1>10 DEF Coherent, g, inst

(* Decoding keeps the cache what it should be.                                *)
LEMMA DecodedKeeps ==
    ASSUME NEW c, CacheShaped(c), NEW m, NEW st, Coherent(c, m, st), NEW addr \in Addresses32, NEW word,
           Fetch(c, addr) = None /\ word # "unmapped" => addr \in Mapped /\ word = m[addr]
    PROVE  CacheShaped(Decoded(c, addr, word)) /\ Coherent(Decoded(c, addr, word), m, st)
<1>1. CASE Fetch(c, addr) # None \/ word \in {"unmapped", "illegal"}
  <2>1. Decoded(c, addr, word) = Followed(c, addr)
    BY <1>1 DEF Decoded
  <2> QED BY <2>1, FollowsAddress
<1>2. CASE ~(Fetch(c, addr) # None \/ word \in {"unmapped", "illegal"})
  <2>1. Decoded(c, addr, word) = Insert(c, addr, [addr |-> addr, word |-> word])
    BY <1>2 DEF Decoded
  <2>2. addr \in Mapped /\ word = m[addr]
    BY <1>2
  <2> QED BY <2>1, <2>2, InsertKeeps
<1> QED BY <1>1, <1>2

LEMMA FirstOfRange ==
    ASSUME NEW a \in Addresses32, NEW b \in Addresses32, a <= b
    PROVE  FirstOf(a..b) = a /\ Cardinality(a..b) = b - a + 1
<1>1. a \in Nat /\ b \in Nat
  BY Sizes32 DEF Addresses32
<1>2. Cardinality(a..b) = b - a + 1
  BY <1>1, FS_Interval
<1>3. a \in a..b /\ \A x \in a..b : a <= x
  BY <1>1
<1>4. \A y \in a..b : (\A x \in a..b : y <= x) => y = a
  BY <1>1, <1>3
<1>5. FirstOf(a..b) = CHOOSE y \in a..b : \A x \in a..b : y <= x
  BY DEF FirstOf
<1> QED BY <1>2, <1>3, <1>4, <1>5

(* A flush takes every instruction of the flash out and nothing is put in.    *)
LEMMA FlushKeeps ==
    ASSUME NEW c, CacheShaped(c), NEW m, NEW st, Coherent(c, m, st),
           NEW flash, flash \in {Firmware, Cartridge}, NEW m2, \A x \in Mapped \ flash : m2[x] = m[x]
    PROVE  CacheShaped(Flushed(c, flash)) /\ Coherent(Flushed(c, flash), m2, st \ flash)
<1>1. PICK a \in Addresses32, b \in Addresses32 : a <= b /\ flash = a..b
  BY CpuAssumption
<1>2. FirstOf(flash) = a /\ Cardinality(flash) = b - a + 1 /\ a \in Nat /\ b \in Nat
  BY <1>1, FirstOfRange, Sizes32 DEF Addresses32
<1> DEFINE g == Flushed(c, flash)
           size == b - a + 1
           Clear(x) == ~(x + SubSize < a \/ a + size < x)
<1>3. g = [c EXCEPT !.subs = [x \in DOMAIN @ |-> IF Clear(x) THEN EmptySub ELSE @[x]]]
  BY <1>2 DEF Flushed, FlushRange
<1> HIDE DEF g, Clear
<1>4. /\ g = [block |-> c.block, sub |-> c.sub, subs |-> g.subs]
      /\ g.block = c.block /\ g.sub = c.sub
      /\ g.subs = [x \in DOMAIN c.subs |-> IF Clear(x) THEN EmptySub ELSE c.subs[x]]
  BY <1>3 DEF CacheShaped
<1>5. /\ DOMAIN g.subs = DOMAIN c.subs
      /\ \A x \in DOMAIN c.subs : g.subs[x] = IF Clear(x) THEN EmptySub ELSE c.subs[x]
      /\ g.subs = [x \in DOMAIN g.subs |-> g.subs[x]]
  BY <1>4
<1>6. CacheShaped(g)
  <2>1. \A x \in DOMAIN g.subs : DOMAIN g.subs[x] = 0..SubSize-1
    BY <1>5 DEF CacheShaped, EmptySub
  <2> QED BY <1>4, <1>5, <2>1 DEF CacheShaped
<1>7. ASSUME NEW x \in DOMAIN g.subs, NEW i \in 0..SubSize-1, g.subs[x][i] # None
      PROVE  /\ g.subs[x][i].addr = x + i /\ x + i \in Mapped
             /\ x + i \in st \ flash \/ g.subs[x][i].word = m2[x + i]
  <2>1. g.subs[x] = c.subs[x] /\ ~Clear(x) /\ x \in DOMAIN c.subs
    BY <1>5, <1>7 DEF EmptySub
  <2>2. x \in Int /\ i \in Int /\ 0 <= i /\ i < SubSize /\ SubSize \in Nat
    <3>1. PICK k \in 0..SubTotal-1 : x = k * SubSize
      BY <2>1 DEF CacheShaped, SubBases
    <3>2. k * SubSize \in Int
      BY <3>1, Sizes32, Multiples
    <3> QED BY <3>1, <3>2, Sizes32
  <2>3. x + i \notin flash
    <3>1. x + SubSize < a \/ a + size < x
      BY <2>1 DEF Clear
    <3> QED BY <1>1, <1>2, <2>2, <3>1
  <2>4. /\ c.subs[x][i].addr = x + i /\ x + i \in Mapped
        /\ x + i \in st \/ c.subs[x][i].word = m[x + i]
    BY <1>7, <2>1 DEF Coherent
  <2> QED BY <2>1, <2>3, <2>4
<1> QED BY <1>6, <1>7 DEF Coherent, g

-----------------------------------------------------------------------------
(* The registers.                                                             *)
HartSet == [pc: Addresses32 \cup {Odd}, mepc: Addresses32 \cup {Odd},
            cause: (0..11) \X BOOLEAN, on: BOOLEAN, prev: BOOLEAN, enabled: SUBSET Sources]

LEMMA TrappedIs ==
    ASSUME NEW h \in HartSet, NEW cause \in 0..11, NEW interrupt \in BOOLEAN
    PROVE  /\ Trapped(h, cause, interrupt) \in HartSet
           /\ Trapped(h, cause, interrupt).mepc = h.pc /\ Trapped(h, cause, interrupt).on = FALSE
<1> DEFINE base == TrapBase + (IF Vectored THEN cause ELSE 0)
<1>1. base \in Addresses32
  <2>1. TrapBase \in Nat /\ TrapBase + (IF Vectored THEN 11 ELSE 0) \in Addresses32
        /\ Addresses32 = 0..WordCount-1 /\ WordCount \in Nat
    BY CpuAssumption, Sizes32 DEF Addresses32
  <2> QED BY <2>1
<1>2. Trapped(h, cause, interrupt) =
          [h EXCEPT !.pc = base, !.cause = <<cause, interrupt>>, !.prev = h.on, !.on = FALSE, !.mepc = h.pc]
  BY DEF Trapped
<1> HIDE DEF base
<1> DEFINE pair == <<cause, interrupt>>
<1>3. pair \in (0..11) \X BOOLEAN
  OBVIOUS
<1> HIDE DEF pair
<1>4. /\ h = [pc |-> h.pc, mepc |-> h.mepc, cause |-> h.cause, on |-> h.on, prev |-> h.prev,
               enabled |-> h.enabled]
      /\ h.pc \in Addresses32 \cup {Odd} /\ h.on \in BOOLEAN /\ h.enabled \in SUBSET Sources
  BY DEF HartSet
<1>5. Trapped(h, cause, interrupt) =
          [pc |-> base, mepc |-> h.pc, cause |-> pair, on |-> FALSE, prev |-> h.on, enabled |-> h.enabled]
  BY <1>2, <1>4 DEF pair
<1>6. base \in Addresses32 \cup {Odd}
  BY <1>1
<1> QED BY <1>3, <1>4, <1>5, <1>6 DEF HartSet

LEMMA FirstIs ==
    ASSUME NEW set \in SUBSET Sources, set # {}
    PROVE  First(set) \in Sources /\ First(set) \in 0..11
<1>1. \E s \in set : \A u \in set : s >= u
  <2>1. \A s \in set : s = 3 \/ s = 7 \/ s = 11
    BY DEF Sources, Software, Timer, External
  <2>2. CASE 11 \in set
    BY <2>1, <2>2
  <2>3. CASE 11 \notin set /\ 7 \in set
    BY <2>1, <2>3
  <2>4. CASE 11 \notin set /\ 7 \notin set
    BY <2>1, <2>4
  <2> QED BY <2>2, <2>3, <2>4
<1>2. First(set) \in set
  BY <1>1 DEF First
<1>3. \A s \in Sources : s \in 0..11
  BY DEF Sources, Software, Timer, External
<1> QED BY <1>2, <1>3

LEMMA CheckIs ==
    ASSUME NEW h \in HartSet, lines \subseteq Sources
    PROVE  /\ CheckInterrupts(h) \in HartSet
           /\ Interrupting(h) => CheckInterrupts(h).mepc = h.pc /\ ~CheckInterrupts(h).on /\ h.on
           /\ ~Interrupting(h) => CheckInterrupts(h) = h
<1>1. CASE Interrupting(h)
  <2>1. lines \cap h.enabled # {} /\ lines \cap h.enabled \in SUBSET Sources /\ h.on
    BY <1>1 DEF Interrupting, HartSet
  <2>2. CheckInterrupts(h) = Trapped(h, First(lines \cap h.enabled), TRUE)
    BY <1>1 DEF CheckInterrupts
  <2>3. First(lines \cap h.enabled) \in 0..11 /\ TRUE \in BOOLEAN
    BY <2>1, FirstIs
  <2>4. CheckInterrupts(h) \in HartSet /\ CheckInterrupts(h).mepc = h.pc
        /\ CheckInterrupts(h).on = FALSE
    BY <2>2, <2>3, TrappedIs
  <2> QED BY <1>1, <2>1, <2>4
<1>2. CASE ~Interrupting(h)
  BY <1>2 DEF CheckInterrupts
<1> QED BY <1>1, <1>2

LEMMA EffectIs ==
    ASSUME NEW h \in HartSet, h.pc \in Addresses32, NEW word
    PROVE  /\ Effect(h, word) \in HartSet
           /\ word = "mret" => /\ Effect(h, word).pc = h.mepc /\ Effect(h, word).mepc = h.mepc
           /\ word = "ecall" => Effect(h, word).mepc = h.pc /\ Effect(h, word).on = FALSE
           /\ word \notin {"mret", "ecall"} =>
                /\ Effect(h, word).pc = Following(h.pc, word) /\ Effect(h, word).mepc = h.mepc
                /\ Effect(h, word).on => word = "enable" \/ h.on
<1>1. CASE word = "mret"
  <2>1. Effect(h, word) = [h EXCEPT !.pc = h.mepc, !.on = h.prev]
    BY <1>1 DEF Effect
  <2> QED BY <1>1, <2>1 DEF HartSet
<1>2. CASE word = "ecall"
  <2>1. Effect(h, word) = Trapped(h, 11, FALSE)
    BY <1>2 DEF Effect
  <2>2. 11 \in 0..11
    OBVIOUS
  <2>3. FALSE \in BOOLEAN
    OBVIOUS
  <2>4. Effect(h, word) \in HartSet /\ Effect(h, word).mepc = h.pc /\ Effect(h, word).on = FALSE
    <3>1. \A cause \in 0..11, interrupt \in BOOLEAN :
              Trapped(h, cause, interrupt) \in HartSet /\ Trapped(h, cause, interrupt).mepc = h.pc
              /\ Trapped(h, cause, interrupt).on = FALSE
      BY TrappedIs
    <3>2. PICK eleven \in 0..11 : eleven = 11
      BY <2>2
    <3> QED BY <2>1, <2>3, <3>1, <3>2
  <2> QED BY <1>2, <2>4
<1>3. CASE word \notin {"mret", "ecall"}
  <2> DEFINE on == word = "enable" \/ (h.on /\ word # "disable")
             enabled == IF word = "unmask" THEN Sources ELSE h.enabled
             next == Following(h.pc, word)
  <2>1. Effect(h, word) = [h EXCEPT !.pc = next, !.on = on, !.enabled = enabled]
    BY <1>3 DEF Effect
  <2>2. next \in Addresses32 \cup {Odd}
    <3>1. CASE word \in DOMAIN Targets
      BY <3>1, CpuAssumption DEF Following
    <3>2. CASE word \notin DOMAIN Targets
      <4>1. h.pc \in Nat /\ WordCount \in Nat \ {0}
        BY Sizes32 DEF Addresses32
      <4>2. (h.pc + 1) % WordCount \in 0..WordCount-1
        BY <4>1
      <4> QED BY <3>2, <4>2 DEF Following, Addresses32
    <3> QED BY <3>1, <3>2
  <2>3. on \in BOOLEAN /\ enabled \in SUBSET Sources /\ (on => word = "enable" \/ h.on)
    BY DEF HartSet
  <2> HIDE DEF on, enabled, next
  <2>4. Effect(h, word) \in HartSet /\ Effect(h, word).pc = next /\ Effect(h, word).mepc = h.mepc
        /\ Effect(h, word).on = on
    BY <2>1, <2>2, <2>3 DEF HartSet
  <2> QED BY <1>3, <2>3, <2>4 DEF next
<1> QED BY <1>1, <1>2, <1>3

(* What a trap owes: outside, the code goes on at owed; in a handler that     *)
(* neither trapped nor enabled interrupts, mret goes there, and nothing       *)
(* interrupts before.                                                         *)
TrapsOwe ==
    /\ open \in {"no", "yes", "lost"}
    /\ open = "no" => hart.pc = owed
    /\ open = "yes" => hart.mepc = owed /\ ~hart.on
CpuInv ==
    /\ hart \in HartSet /\ lines \subseteq Sources
    /\ DOMAIN mem = Mapped /\ listing \subseteq Mapped
    /\ CacheShaped(cache) /\ Coherent(cache, mem, stale)
    /\ TrapsOwe

LEMMA CpuInitially == CpuInit => CpuInv
<1> SUFFICES ASSUME CpuInit PROVE CpuInv
  OBVIOUS
<1>1. 0 \in Addresses32 /\ 0 \in 0..SubTotal-1 /\ 0 * SubSize = 0 /\ 0 \in 0..SubCount-1
  BY Sizes32 DEF Addresses32
<1>2. hart \in HartSet
  <2>1. 0 \in 0..11
    OBVIOUS
  <2>2. FALSE \in BOOLEAN
    OBVIOUS
  <2>3. <<0, FALSE>> \in (0..11) \X BOOLEAN
    BY <2>1, <2>2
  <2>4. ResetHart \in HartSet
    BY <1>1, <2>3 DEF ResetHart, HartSet
  <2> QED BY <2>4 DEF CpuInit
<1>3. /\ cache = [block |-> 0, sub |-> 0, subs |-> WithBlock(<<>>, 0)]
      /\ DOMAIN WithBlock(<<>>, 0) = BlockSubs(0)
      /\ \A b \in BlockSubs(0) : WithBlock(<<>>, 0)[b] = EmptySub
      /\ WithBlock(<<>>, 0) = [b \in DOMAIN WithBlock(<<>>, 0) |-> WithBlock(<<>>, 0)[b]]
  BY DEF CpuInit, NewCache, WithBlock
<1>4. BlockSubs(0) \subseteq SubBases /\ 0 \in BlockSubs(0) /\ 0 \in SubBases
  <2>1. 0 + 0 < SubTotal /\ (0 + 0) * SubSize = 0
    BY <1>1, Sizes32
  <2> QED BY <1>1, <2>1, BlockSubsAre DEF SubBases
<1>5. CacheShaped(cache)
  <2>1. cache.block = 0 /\ cache.sub = 0 /\ cache.subs = WithBlock(<<>>, 0)
    BY <1>3
  <2>2. DOMAIN cache.subs = BlockSubs(0) /\ cache = [block |-> 0, sub |-> 0, subs |-> cache.subs]
    BY <1>3, <2>1
  <2>3. \A b \in BlockSubs(0) : DOMAIN cache.subs[b] = 0..SubSize-1
    BY <1>3, <2>1 DEF EmptySub
  <2>4. cache.subs = [b \in DOMAIN cache.subs |-> cache.subs[b]]
    BY <1>3, <2>1
  <2> QED BY <1>4, <2>1, <2>2, <2>3, <2>4 DEF CacheShaped
<1>6. Coherent(cache, mem, stale)
  <2>1. cache.subs = WithBlock(<<>>, 0)
    BY <1>3
  <2>2. \A b \in DOMAIN cache.subs, i \in 0..SubSize-1 : cache.subs[b][i] = None
    BY <1>3, <2>1 DEF EmptySub
  <2> QED BY <2>2 DEF Coherent
<1>7. DOMAIN mem = Mapped
  BY CpuAssumption DEF CpuInit
<1> QED BY <1>2, <1>5, <1>6, <1>7 DEF CpuInit, CpuInv, TrapsOwe, ResetHart

-----------------------------------------------------------------------------
(* The instruction the hart executes.                                         *)
LEMMA NextWordIs ==
    ASSUME hart.pc \in Addresses32 \cup {Odd}, NextWord # "misaligned"
    PROVE  /\ hart.pc \in Addresses32
           /\ Fetch(cache, hart.pc) = None /\ NextWord # "unmapped" =>
                hart.pc \in Mapped /\ NextWord = mem[hart.pc]
<1>1. hart.pc # Odd
  BY DEF NextWord
<1>2. CASE Fetch(cache, hart.pc) = None
  <2>1. NextWord = IF hart.pc \in Mapped THEN mem[hart.pc] ELSE "unmapped"
    BY <1>1, <1>2 DEF NextWord
  <2> QED BY <1>1, <2>1
<1> QED BY <1>1, <1>2

LEMMA CauseIs ==
    ASSUME NEW word, Excepted(word)
    PROVE  ExceptionCause(word) \in 0..11
<1>1. DOMAIN Faults = {"badload", "badstore"} /\ Faults["badload"] = 5 /\ Faults["badstore"] = 7
  BY DEF Faults
<1>2. word \in {"misaligned", "unmapped", "illegal", "badload", "badstore"}
  BY <1>1 DEF Excepted
<1>3. ExceptionCause(word) \in {0, 1, 2, 5, 7}
  BY <1>1, <1>2 DEF ExceptionCause
<1> QED BY <1>3

(* What the guest stores into its code makes it stale.                        *)
LEMMA PatchKeeps ==
    ASSUME NEW c, NEW st, NEW m, DOMAIN m = Mapped, Coherent(c, m, st), NEW a, NEW v
    PROVE  Coherent(c, [m EXCEPT ![a] = v], st \cup {a})
<1> DEFINE m2 == [m EXCEPT ![a] = v]
<1>1. \A x \in Mapped : x # a => m2[x] = m[x]
  OBVIOUS
<1> HIDE DEF m2
<1> QED BY <1>1 DEF Coherent, m2

LEMMA StepKeeps ==
    ASSUME CpuInv, Step
    PROVE  CpuInv'
<1> DEFINE word == NextWord
<1>1. /\ hart \in HartSet /\ lines \subseteq Sources /\ DOMAIN mem = Mapped /\ listing \subseteq Mapped
      /\ CacheShaped(cache) /\ Coherent(cache, mem, stale)
  BY DEF CpuInv
<1>2. /\ cache' = IF word = "misaligned" THEN cache ELSE Decoded(cache, hart.pc, word)
      /\ Excepted(word) => hart' = Trapped(hart, ExceptionCause(word), FALSE)
      /\ ~Excepted(word) => hart' = CheckInterrupts(Effect(hart, word))
      /\ word = "patch" => \E a \in Mapped, p \in Programs :
             mem' = [mem EXCEPT ![a] = p[a]] /\ stale' = stale \cup {a}
      /\ word # "patch" => mem' = mem /\ stale' = stale
      /\ Trace(word) /\ lines' = lines /\ listing' = listing
  BY DEF Step
<1>3. hart.pc \in Addresses32 \cup {Odd} /\ hart.mepc \in Addresses32 \cup {Odd} /\ hart.on \in BOOLEAN
  BY <1>1 DEF HartSet
<1>4. word # "misaligned" =>
          /\ hart.pc \in Addresses32
          /\ Fetch(cache, hart.pc) = None /\ word # "unmapped" =>
                hart.pc \in Mapped /\ word = mem[hart.pc]
  BY <1>3, NextWordIs
<1> HIDE DEF word
<1>5. CacheShaped(cache') /\ Coherent(cache', mem, stale)
  <2>1. CASE word = "misaligned"
    BY <1>1, <1>2, <2>1
  <2>2. CASE word # "misaligned"
    <3>1. CacheShaped(Decoded(cache, hart.pc, word)) /\ Coherent(Decoded(cache, hart.pc, word), mem, stale)
      BY <1>1, <1>4, <2>2, DecodedKeeps
    <3> QED BY <1>2, <2>2, <3>1
  <2> QED BY <2>1, <2>2
<1>6. DOMAIN mem' = Mapped /\ Coherent(cache', mem', stale')
  <2>1. CASE word = "patch"
    <3>1. PICK a \in Mapped, p \in Programs : mem' = [mem EXCEPT ![a] = p[a]] /\ stale' = stale \cup {a}
      BY <1>2, <2>1
    <3> DEFINE v == p[a]
    <3>2. mem' = [mem EXCEPT ![a] = v] /\ stale' = stale \cup {a}
      BY <3>1
    <3> HIDE DEF v
    <3>3. DOMAIN mem' = Mapped
      BY <1>1, <3>2
    <3>4. Coherent(cache', [mem EXCEPT ![a] = v], stale \cup {a})
      BY <1>1, <1>5, PatchKeeps
    <3> QED BY <3>2, <3>3, <3>4
  <2>2. CASE word # "patch"
    BY <1>1, <1>2, <1>5, <2>2
  <2> QED BY <2>1, <2>2
<1>7. ASSUME Excepted(word)
      PROVE  hart' \in HartSet /\ hart'.mepc = hart.pc /\ hart'.on = FALSE
  <2>1. ExceptionCause(word) \in 0..11
    BY <1>7, CauseIs
  <2>2. FALSE \in BOOLEAN
    OBVIOUS
  <2>3. \A cause \in 0..11, interrupt \in BOOLEAN :
            Trapped(hart, cause, interrupt) \in HartSet /\ Trapped(hart, cause, interrupt).mepc = hart.pc
            /\ Trapped(hart, cause, interrupt).on = FALSE
    BY <1>1, TrappedIs
  <2> QED BY <1>2, <1>7, <2>1, <2>2, <2>3
<1> DEFINE e == Effect(hart, word)
<1>8. ASSUME ~Excepted(word)
      PROVE  /\ hart.pc \in Addresses32 /\ e \in HartSet
             /\ word = "mret" => e.pc = hart.mepc /\ e.mepc = hart.mepc
             /\ word = "ecall" => e.mepc = hart.pc /\ e.on = FALSE
             /\ word \notin {"mret", "ecall"} =>
                    /\ e.pc = Following(hart.pc, word) /\ e.mepc = hart.mepc
                    /\ e.on => word = "enable" \/ hart.on
  <2>1. hart.pc \in Addresses32
    BY <1>4, <1>8 DEF Excepted
  <2> QED BY <1>1, <2>1, EffectIs
<1> HIDE DEF e
<1>9. ASSUME ~Excepted(word)
      PROVE  /\ hart' \in HartSet
             /\ Interrupting(e) => hart'.mepc = e.pc /\ ~hart'.on /\ e.on
             /\ ~Interrupting(e) => hart' = e
  <2>1. hart' = CheckInterrupts(e) /\ e \in HartSet
    BY <1>2, <1>8, <1>9 DEF e
  <2> QED BY <1>1, <2>1, CheckIs
<1>10. TrapsOwe'
  <2> DEFINE itself == Excepted(word) \/ word = "ecall"
             taken == itself \/ Interrupting(e)
  <2>1. /\ open' = CASE open = "lost" -> "lost"
                     [] open = "no" -> IF word = "mret" THEN "lost" ELSE IF taken THEN "yes" ELSE "no"
                     [] open = "yes" -> IF itself \/ word = "enable" THEN "lost"
                                        ELSE IF word = "mret" /\ ~taken THEN "no" ELSE "yes"
        /\ owed' = IF open = "no" /\ ~itself THEN Following(hart.pc, word) ELSE owed
    BY <1>2 DEF Trace, e
  <2>2. TrapsOwe
    BY DEF CpuInv
  <2>3. CASE open = "lost"
    BY <2>1, <2>3 DEF TrapsOwe
  <2>4. CASE open = "no" /\ Excepted(word)
    BY <1>7, <2>1, <2>2, <2>4 DEF TrapsOwe
  <2>5. CASE open = "no" /\ ~Excepted(word)
    <3>1. hart.pc = owed
      BY <2>2, <2>5 DEF TrapsOwe
    <3>2. CASE word = "mret"
      BY <2>1, <2>5, <3>2 DEF TrapsOwe
    <3>3. CASE word = "ecall"
      <4>1. ~Interrupting(e)
        BY <1>8, <1>9, <2>5, <3>3
      <4> QED BY <1>8, <1>9, <2>1, <2>5, <3>1, <3>3, <4>1 DEF TrapsOwe
    <3>4. CASE word \notin {"mret", "ecall"}
      BY <1>8, <1>9, <2>1, <2>5, <3>4 DEF TrapsOwe
    <3> QED BY <3>2, <3>3, <3>4
  <2>6. CASE open = "yes" /\ (itself \/ word = "enable")
    BY <2>1, <2>6 DEF TrapsOwe
  <2>7. CASE open = "yes" /\ ~itself /\ word # "enable"
    <3>1. hart.mepc = owed /\ ~hart.on /\ owed' = owed
      BY <2>1, <2>2, <2>7 DEF TrapsOwe
    <3>2. CASE word = "mret"
      <4>1. e.pc = owed /\ e.mepc = owed
        BY <1>8, <2>7, <3>1, <3>2
      <4>2. CASE Interrupting(e)
        BY <1>9, <2>1, <2>7, <3>1, <4>1, <4>2 DEF TrapsOwe
      <4>3. CASE ~Interrupting(e)
        BY <1>9, <2>1, <2>7, <3>1, <3>2, <4>1, <4>3 DEF TrapsOwe
      <4> QED BY <4>2, <4>3
    <3>3. CASE word # "mret"
      <4>1. e.mepc = owed /\ ~e.on
        BY <1>8, <2>7, <3>1, <3>3
      <4>2. hart' = e
        BY <1>9, <2>7, <4>1
      <4> QED BY <2>1, <2>7, <3>1, <3>3, <4>1, <4>2 DEF TrapsOwe
    <3> QED BY <3>2, <3>3
  <2> QED BY <2>2, <2>3, <2>4, <2>5, <2>6, <2>7 DEF TrapsOwe
<1>11. hart' \in HartSet /\ (lines \subseteq Sources)' /\ (listing \subseteq Mapped)'
  BY <1>1, <1>2, <1>7, <1>9
<1> QED BY <1>5, <1>6, <1>10, <1>11 DEF CpuInv

(* The window programs a flash; what the hart does is not its affair.         *)
LEMMA ProgramKeeps ==
    ASSUME CpuInv, NEW p \in Programs, NEW flash, flash \in {Firmware, Cartridge}, Program(p, flash)
    PROVE  /\ (DOMAIN mem = Mapped)' /\ (listing \subseteq Mapped)'
           /\ CacheShaped(cache') /\ Coherent(cache', mem', stale')
<1>1. DOMAIN mem = Mapped /\ CacheShaped(cache) /\ Coherent(cache, mem, stale)
  BY DEF CpuInv
<1>2. /\ mem' = Written(p, flash) /\ cache' = Flushed(cache, flash) /\ listing' = flash
      /\ stale' = stale \ flash
  BY DEF Program
<1>3. DOMAIN mem' = Mapped /\ \A x \in Mapped \ flash : mem'[x] = mem[x]
  BY <1>2 DEF Written
<1>4. flash \subseteq Mapped
  BY CpuAssumption
<1>5. CacheShaped(cache') /\ Coherent(cache', mem', stale \ flash)
  BY <1>1, <1>2, <1>3, FlushKeeps
<1> QED BY <1>2, <1>3, <1>4, <1>5

LEMMA FlashFirmwareKeeps ==
    ASSUME CpuInv, NEW p \in Programs, FlashFirmware(p)
    PROVE  CpuInv'
<1>1. /\ (DOMAIN mem = Mapped)' /\ (listing \subseteq Mapped)'
      /\ CacheShaped(cache') /\ Coherent(cache', mem', stale')
  BY ProgramKeeps DEF FlashFirmware
<1>2. hart' = ResetHart /\ lines' = {} /\ open' = "no" /\ owed' = 0
  BY DEF FlashFirmware
<1>3. ResetHart \in HartSet /\ ResetHart.pc = 0
  <2>1. 0 \in 0..11 /\ 0 \in Addresses32
    BY Sizes32 DEF Addresses32
  <2>2. FALSE \in BOOLEAN
    OBVIOUS
  <2>3. <<0, FALSE>> \in (0..11) \X BOOLEAN
    BY <2>1, <2>2
  <2> QED BY <2>1, <2>3 DEF ResetHart, HartSet
<1> QED BY <1>1, <1>2, <1>3 DEF CpuInv, TrapsOwe

LEMMA FlashCartridgeKeeps ==
    ASSUME CpuInv, NEW p \in Programs, FlashCartridge(p)
    PROVE  CpuInv'
<1>1. /\ (DOMAIN mem = Mapped)' /\ (listing \subseteq Mapped)'
      /\ CacheShaped(cache') /\ Coherent(cache', mem', stale')
  BY ProgramKeeps DEF FlashCartridge
<1>2. hart' = hart /\ lines' = lines /\ open' = open /\ owed' = owed
  BY DEF FlashCartridge
<1> QED BY <1>1, <1>2 DEF CpuInv, TrapsOwe

(* A set of addresses has a first one.                                        *)
LEMMA FirstOfIs ==
    ASSUME NEW set \in SUBSET Addresses32, set # {}
    PROVE  FirstOf(set) \in set
<1> DEFINE order == OpToRel(<, Nat)
<1>1. set \subseteq Nat
  BY Sizes32 DEF Addresses32
<1>2. IsWellFoundedOn(order, Nat)
  BY NatLessThanWellFounded
<1>3. \A x, y \in Nat : <<x, y>> \in order <=> x < y
  BY DEF OpToRel
<1> HIDE DEF order
<1>4. PICK a \in set : \A b \in set : ~(<<b, a>> \in order)
  BY <1>1, <1>2, WFMin
<1>5. ASSUME NEW b \in set PROVE a <= b
  <2>1. a \in Nat /\ b \in Nat /\ ~(b < a)
    BY <1>1, <1>3, <1>4
  <2> QED BY <2>1
<1> QED BY <1>4, <1>5 DEF FirstOf

LEMMA ListWordKeeps ==
    ASSUME CpuInv, ListWord
    PROVE  CpuInv'
<1> DEFINE addr == FirstOf(listing)
<1>1. /\ listing \subseteq Mapped /\ listing # {} /\ cache' = Decoded(cache, addr, mem[addr])
      /\ listing' = listing \ {addr} /\ CacheShaped(cache) /\ Coherent(cache, mem, stale)
      /\ mem' = mem /\ stale' = stale /\ hart' = hart /\ lines' = lines /\ open' = open /\ owed' = owed
  BY DEF CpuInv, ListWord
<1>2. addr \in listing /\ addr \in Addresses32 /\ addr \in Mapped
  <2>1. listing \in SUBSET Addresses32
    BY <1>1, CpuAssumption
  <2>2. addr \in listing
    BY <1>1, <2>1, FirstOfIs
  <2> QED BY <1>1, <2>1, <2>2
<1> HIDE DEF addr
<1>3. CacheShaped(cache') /\ Coherent(cache', mem', stale')
  <2>1. CacheShaped(Decoded(cache, addr, mem[addr])) /\ Coherent(Decoded(cache, addr, mem[addr]), mem, stale)
    BY <1>1, <1>2, DecodedKeeps
  <2> QED BY <1>1, <2>1
<1> QED BY <1>1, <1>3 DEF CpuInv, TrapsOwe

LEMMA CpuStep == CpuInv /\ [CpuNext]_cpuVars => CpuInv'
<1> SUFFICES ASSUME CpuInv, [CpuNext]_cpuVars PROVE CpuInv'
  OBVIOUS
<1>1. CASE Step
  BY <1>1, StepKeeps
<1>2. CASE StopOrRun
  BY <1>2 DEF StopOrRun, CpuInv, TrapsOwe
<1>3. CASE ListWord
  BY <1>3, ListWordKeeps
<1>4. ASSUME NEW s \in Sources, SetLine(s) \/ ClearLine(s)
      PROVE  CpuInv'
  BY <1>4 DEF SetLine, ClearLine, CpuInv, TrapsOwe
<1>5. ASSUME NEW p \in Programs, FlashFirmware(p)
      PROVE  CpuInv'
  BY <1>5, FlashFirmwareKeeps
<1>6. ASSUME NEW p \in Programs, FlashCartridge(p)
      PROVE  CpuInv'
  BY <1>6, FlashCartridgeKeeps
<1>7. CASE UNCHANGED cpuVars
  BY <1>7 DEF cpuVars, CpuInv, TrapsOwe
<1> QED BY <1>1, <1>2, <1>3, <1>4, <1>5, <1>6, <1>7 DEF CpuNext

LEMMA CacheHolds == CpuInv => CacheInv
<1> SUFFICES ASSUME CpuInv PROVE CacheInv
  OBVIOUS
<1>1. CpuTypeOK
  BY DEF CpuInv, CpuTypeOK, CacheShaped, HartSet
<1>2. FetchIsByAddress
  <2> SUFFICES ASSUME NEW k \in 0..SubTotal-1
               PROVE  SubFor(cache, k * SubSize) = k * SubSize
    BY DEF FetchIsByAddress
  <2>1. k * SubSize \in Addresses32 /\ SubBlockAddr(k * SubSize) = k * SubSize
    <3>1. /\ SubSize \in Nat \ {0} /\ SubTotal \in Nat \ {0} /\ k \in Int /\ 0 <= k /\ k < SubTotal
          /\ WordCount = SubTotal * SubSize
      BY Sizes32 DEF WordCount
    <3>2. k * SubSize \in Int /\ 0 * SubSize <= k * SubSize /\ k * SubSize < SubTotal * SubSize
          /\ (k * SubSize) \div SubSize = k
      BY <3>1, Multiples
    <3>3. 0 * SubSize = 0
      BY <3>1
    <3> DEFINE x == k * SubSize
    <3>4. x \in Int /\ 0 <= x /\ x < WordCount /\ WordCount \in Nat
      BY <3>1, <3>2, <3>3, Sizes32
    <3>5. x % SubSize = 0
      BY <3>1
    <3> HIDE DEF x
    <3>6. x - (x % SubSize) = x
      BY <3>4, <3>5
    <3> QED BY <3>4, <3>6 DEF Addresses32, SubBlockAddr, x
  <2> HIDE DEF CacheInv
  <2> QED BY <2>1, FollowsAddress DEF CpuInv
<1>3. CacheIsCoherent
  BY DEF CpuInv, CacheIsCoherent, Coherent
<1> QED BY <1>1, <1>2, <1>3 DEF CacheInv

(* The instruction cache is transparent for every size of its blocks and of   *)
(* the address space: whatever the hart executes, the window programs and     *)
(* lists, a fetch looks into the sub-block of its address, and what it finds  *)
(* there is what the memory holds, but for the words a guest has overwritten. *)
THEOREM CacheSafe == CpuSpec => []CacheInv
<1>1. CpuInit => CpuInv
  BY CpuInitially
<1>2. CpuInv /\ [CpuNext]_cpuVars => CpuInv'
  BY CpuStep
<1>3. CpuInv => CacheInv
  BY CacheHolds
<1> QED BY <1>1, <1>2, <1>3, PTL DEF CpuSpec

(* Traps are precise and transparent for every program: when the handler has  *)
(* returned, the hart is at the instruction it owed, unless the handler       *)
(* trapped itself or enabled interrupts.                                      *)
THEOREM TrapsSafe == CpuSpec => []TrapsAreTransparent
<1>1. CpuInit => CpuInv
  BY CpuInitially
<1>2. CpuInv /\ [CpuNext]_cpuVars => CpuInv'
  BY CpuStep
<1>3. CpuInv => TrapsAreTransparent
  BY DEF CpuInv, TrapsOwe, TrapsAreTransparent
<1> QED BY <1>1, <1>2, <1>3, PTL DEF CpuSpec

-----------------------------------------------------------------------------
(* The listing. What the console may have loaded, and all the lines of it.    *)
Fw == FirmwarePrograms \cup {NoLines}
Cr == CartridgePrograms \cup {NoLines}
All(f, c) == f.lines \o c.lines

LEMMA ProgramIs ==
    ASSUME NEW p \in Fw \cup Cr
    PROVE  /\ p.lines \in Seq({Source} \cup Int) /\ p.labels \in Seq(STRING \X Int)
           /\ \A i, j \in DOMAIN p.lines : i # j /\ p.lines[i] = p.lines[j] => p.lines[i] = Source
           /\ \A i, j \in DOMAIN p.labels : i <= j => p.labels[i][2] <= p.labels[j][2]
           /\ Len(p.lines) \in Nat /\ DOMAIN p.lines = 1..Len(p.lines)
           /\ Len(p.labels) \in Nat /\ DOMAIN p.labels = 1..Len(p.labels)
           /\ ListedAddresses(p) \subseteq Int
<1>1. /\ p.lines \in Seq({Source} \cup Int) /\ p.labels \in Seq(STRING \X Int)
      /\ \A i, j \in DOMAIN p.lines : i # j /\ p.lines[i] = p.lines[j] => p.lines[i] = Source
      /\ \A i, j \in DOMAIN p.labels : i <= j => p.labels[i][2] <= p.labels[j][2]
  <2>1. CASE p \in FirmwarePrograms \cup CartridgePrograms
    BY <2>1, ListingAssumption
  <2>2. CASE p = NoLines
    <3>1. p.lines = <<>> /\ p.labels = <<>>
      BY <2>2 DEF NoLines
    <3>2. <<>> \in Seq({Source} \cup Int) /\ <<>> \in Seq(STRING \X Int)
      OBVIOUS
    <3>3. \A i, j \in DOMAIN p.lines : FALSE
      BY <3>1
    <3>4. \A i, j \in DOMAIN p.labels : FALSE
      BY <3>1
    <3> QED BY <3>1, <3>2, <3>3, <3>4
  <2> QED BY <2>1, <2>2 DEF Fw, Cr
<1>2. /\ Len(p.lines) \in Nat /\ DOMAIN p.lines = 1..Len(p.lines)
      /\ Len(p.labels) \in Nat /\ DOMAIN p.labels = 1..Len(p.labels)
  BY <1>1
<1>3. ListedAddresses(p) \subseteq Int
  BY <1>1, <1>2 DEF ListedAddresses
<1> QED BY <1>1, <1>2, <1>3

LEMMA LinesAre ==
    ASSUME NEW f \in Fw, NEW c \in Cr
    PROVE  /\ All(f, c) \in Seq({Source} \cup Int) /\ Len(All(f, c)) = Len(f.lines) + Len(c.lines)
           /\ Len(All(f, c)) \in Nat /\ DOMAIN All(f, c) = 1..Len(All(f, c))
           /\ \A i \in 1..Len(f.lines) : All(f, c)[i] = f.lines[i]
           /\ \A i \in 1..Len(c.lines) : All(f, c)[Len(f.lines) + i] = c.lines[i]
           /\ \A i, j \in 1..Len(All(f, c)) : All(f, c)[i] = All(f, c)[j] /\ All(f, c)[i] # Source => i = j
           /\ \A i \in 1..Len(All(f, c)) :
                All(f, c)[i] # Source => All(f, c)[i] \in ListedAddresses(f) \cup ListedAddresses(c)
<1> DEFINE all == All(f, c)
           m == Len(f.lines)
           n == Len(c.lines)
<1>1. /\ f.lines \in Seq({Source} \cup Int) /\ c.lines \in Seq({Source} \cup Int)
      /\ \A i, j \in DOMAIN f.lines : i # j /\ f.lines[i] = f.lines[j] => f.lines[i] = Source
      /\ \A i, j \in DOMAIN c.lines : i # j /\ c.lines[i] = c.lines[j] => c.lines[i] = Source
      /\ m \in Nat /\ n \in Nat /\ DOMAIN f.lines = 1..m /\ DOMAIN c.lines = 1..n
  BY ProgramIs
<1>2. /\ all \in Seq({Source} \cup Int) /\ Len(all) = m + n
      /\ Len(all) \in Nat /\ DOMAIN all = 1..Len(all)
      /\ \A i \in 1..m : all[i] = f.lines[i]
      /\ \A i \in 1..n : all[m + i] = c.lines[i]
  <2> DEFINE s == f.lines
             t == c.lines
  <2>1. s \in Seq({Source} \cup Int) /\ t \in Seq({Source} \cup Int)
        /\ Len(s) = m /\ Len(t) = n /\ m \in Nat /\ n \in Nat
    BY <1>1
  <2>2. all = s \o t
    BY DEF All
  <2> HIDE DEF s, t, all, m, n
  <2>3. /\ s \o t \in Seq({Source} \cup Int) /\ Len(s \o t) = m + n
        /\ \A i \in 1..m+n : (s \o t)[i] = IF i <= m THEN s[i] ELSE t[i - m]
    BY <2>1, ConcatProperties
  <2>4. all \in Seq({Source} \cup Int) /\ Len(all) = m + n /\ Len(all) \in Nat /\ DOMAIN all = 1..Len(all)
    BY <2>1, <2>2, <2>3
  <2>5. \A i \in 1..m : all[i] = s[i]
    BY <2>1, <2>2, <2>3
  <2>6. ASSUME NEW i \in 1..n PROVE all[m + i] = t[i]
    <3>1. m + i \in 1..m+n /\ ~(m + i <= m) /\ (m + i) - m = i
      BY <2>1
    <3> QED BY <2>2, <2>3, <3>1
  <2> QED BY <2>4, <2>5, <2>6 DEF s, t
<1>3. \A a \in ListedAddresses(f) : a \notin ListedAddresses(c)
  <2>1. ListedAddresses(NoLines) = {}
    BY DEF ListedAddresses, NoLines
  <2> QED BY <2>1, ListingAssumption DEF Fw, Cr
<1> HIDE DEF all, m, n
<1>4. \A i \in 1..Len(all) : i \in 1..m \/ \E k \in 1..n : i = m + k
  <2> SUFFICES ASSUME NEW i \in 1..Len(all), i \notin 1..m
               PROVE  \E k \in 1..n : i = m + k
    OBVIOUS
  <2>1. i - m \in 1..n /\ i = m + (i - m)
    BY <1>1, <1>2
  <2> QED BY <2>1
<1>5. /\ \A i \in 1..m : f.lines[i] # Source => f.lines[i] \in ListedAddresses(f)
      /\ \A i \in 1..n : c.lines[i] # Source => c.lines[i] \in ListedAddresses(c)
  BY <1>1 DEF ListedAddresses
<1>6. ASSUME NEW i \in 1..Len(all), NEW j \in 1..Len(all), all[i] = all[j], all[i] # Source
      PROVE  i = j
  <2>1. CASE i \in 1..m /\ j \in 1..m
    BY <1>1, <1>2, <1>6, <2>1
  <2>2. ASSUME NEW k \in 1..n, NEW l \in 1..n, i = m + k, j = m + l
        PROVE  i = j
    <3>1. c.lines[k] = c.lines[l] /\ c.lines[k] # Source
      BY <1>2, <1>6, <2>2
    <3>2. k = l
      BY <1>1, <3>1
    <3> QED BY <2>2, <3>2
  <2>3. ASSUME NEW k \in 1..n, i \in 1..m, j = m + k
        PROVE  FALSE
    BY <1>2, <1>3, <1>5, <1>6, <2>3
  <2>4. ASSUME NEW k \in 1..n, j \in 1..m, i = m + k
        PROVE  FALSE
    BY <1>2, <1>3, <1>5, <1>6, <2>4
  <2> QED BY <1>4, <2>1, <2>2, <2>3, <2>4
<1>7. \A i \in 1..Len(all) : all[i] # Source => all[i] \in ListedAddresses(f) \cup ListedAddresses(c)
  BY <1>2, <1>4, <1>5
<1> QED BY <1>2, <1>6, <1>7 DEF all, m, n

(* An index has the addresses of the programs, each with its line.            *)
IsIndex(index, f, c) ==
    /\ DOMAIN index = ListedAddresses(f) \cup ListedAddresses(c)
    /\ \A a \in DOMAIN index : index[a] \in 1..Len(All(f, c)) /\ All(f, c)[index[a]] = a /\ a # Source
LEMMA IndicesAre ==
    ASSUME NEW f \in Fw, NEW c \in Cr
    PROVE  IsIndex(Indices(f, c), f, c)
<1> DEFINE index == Indices(f, c)
<1>1. DOMAIN index = ListedAddresses(f) \cup ListedAddresses(c)
  BY DEF Indices
<1>2. ASSUME NEW a \in ListedAddresses(c)
      PROVE  index[a] \in 1..Len(All(f, c)) /\ All(f, c)[index[a]] = a
  <2>1. index[a] = Len(f.lines) + IndexIn(c, a)
    BY <1>2 DEF Indices
  <2>2. IndexIn(c, a) \in 1..Len(c.lines) /\ c.lines[IndexIn(c, a)] = a
    <3>1. \E i \in DOMAIN c.lines : c.lines[i] = a
      BY <1>2 DEF ListedAddresses
    <3>2. IndexIn(c, a) \in DOMAIN c.lines /\ c.lines[IndexIn(c, a)] = a
      BY <3>1 DEF IndexIn
    <3> QED BY <3>2, ProgramIs
  <2>3. Len(f.lines) \in Nat /\ Len(c.lines) \in Nat
    BY ProgramIs
  <2>4. Len(All(f, c)) = Len(f.lines) + Len(c.lines)
        /\ \A i \in 1..Len(c.lines) : All(f, c)[Len(f.lines) + i] = c.lines[i]
    BY LinesAre
  <2> DEFINE k == IndexIn(c, a)
             m == Len(f.lines)
             n == Len(c.lines)
             total == Len(All(f, c))
  <2> HIDE DEF k, m, n, total, index
  <2>5. k \in 1..n /\ m \in Nat /\ n \in Nat /\ total = m + n
    BY <2>2, <2>3, <2>4 DEF k, m, n, total
  <2>6. All(f, c)[m + k] = a
    BY <2>2, <2>4 DEF k, m
  <2>7. m + k \in 1..total
    BY <2>5
  <2> QED BY <2>1, <2>6, <2>7 DEF k, m, total
<1>3. ASSUME NEW a \in ListedAddresses(f), a \notin ListedAddresses(c)
      PROVE  index[a] \in 1..Len(All(f, c)) /\ All(f, c)[index[a]] = a
  <2>1. index[a] = IndexIn(f, a)
    BY <1>3 DEF Indices
  <2>2. IndexIn(f, a) \in 1..Len(f.lines) /\ f.lines[IndexIn(f, a)] = a
    <3>1. \E i \in DOMAIN f.lines : f.lines[i] = a
      BY <1>3 DEF ListedAddresses
    <3>2. IndexIn(f, a) \in DOMAIN f.lines /\ f.lines[IndexIn(f, a)] = a
      BY <3>1 DEF IndexIn
    <3> QED BY <3>2, ProgramIs
  <2>3. Len(f.lines) \in Nat /\ Len(c.lines) \in Nat
    BY ProgramIs
  <2>4. Len(All(f, c)) = Len(f.lines) + Len(c.lines)
        /\ \A i \in 1..Len(f.lines) : All(f, c)[i] = f.lines[i]
    BY LinesAre
  <2> DEFINE k == IndexIn(f, a)
             m == Len(f.lines)
             n == Len(c.lines)
             total == Len(All(f, c))
  <2> HIDE DEF k, m, n, total, index
  <2>5. k \in 1..m /\ m \in Nat /\ n \in Nat /\ total = m + n
    BY <2>2, <2>3, <2>4 DEF k, m, n, total
  <2>6. All(f, c)[k] = a
    BY <2>2, <2>4 DEF k
  <2>7. k \in 1..total
    BY <2>5
  <2> QED BY <2>1, <2>6, <2>7 DEF k, total
<1>4. \A a \in ListedAddresses(f) \cup ListedAddresses(c) : a # Source
  BY DEF ListedAddresses
<1> QED BY <1>1, <1>2, <1>3, <1>4 DEF IsIndex

(* The console's lines, and the window's, are those of the programs, and with *)
(* the marks of breaks where they are instructions.                           *)
Shows(l, f, c) ==
    /\ l \in [1..Len(All(f, c)) -> [addr : {Source} \cup Int, mark : BOOLEAN]]
    /\ \A i \in 1..Len(All(f, c)) : l[i].addr = All(f, c)[i]
MarksOf(l, breaks) == \A i \in DOMAIN l : l[i].addr # Source => (l[i].mark <=> l[i].addr \in breaks)
LEMMA MarkedAre ==
    ASSUME NEW f \in Fw, NEW c \in Cr, NEW breaks
    PROVE  /\ Shows(Marked(All(f, c), Indices(f, c), breaks), f, c)
           /\ MarksOf(Marked(All(f, c), Indices(f, c), breaks), breaks)
<1> DEFINE all == All(f, c)
           index == Indices(f, c)
           m == Marked(all, index, breaks)
<1>1. /\ all \in Seq({Source} \cup Int) /\ Len(all) \in Nat /\ DOMAIN all = 1..Len(all)
      /\ \A i, j \in 1..Len(all) : all[i] = all[j] /\ all[i] # Source => i = j
      /\ \A i \in 1..Len(all) : all[i] # Source => all[i] \in ListedAddresses(f) \cup ListedAddresses(c)
  BY LinesAre
<1>2. /\ DOMAIN index = ListedAddresses(f) \cup ListedAddresses(c)
      /\ \A a \in DOMAIN index : index[a] \in 1..Len(all) /\ all[index[a]] = a /\ a # Source
  BY IndicesAre DEF IsIndex
<1>3. m = [i \in 1..Len(all) |-> [addr |-> all[i], mark |-> \E a \in breaks \cap DOMAIN index : index[a] = i]]
  BY <1>1 DEF Marked
<1> HIDE DEF all, index, m
<1>4. DOMAIN m = 1..Len(all) /\ \A i \in 1..Len(all) :
          m[i].addr = all[i] /\ (m[i].mark <=> \E a \in breaks \cap DOMAIN index : index[a] = i)
  BY <1>3
<1>5. m \in [1..Len(all) -> [addr : {Source} \cup Int, mark : BOOLEAN]]
  <2>1. \A i \in 1..Len(all) : all[i] \in {Source} \cup Int
    BY <1>1
  <2>2. \A i \in 1..Len(all) : (\E a \in breaks \cap DOMAIN index : index[a] = i) \in BOOLEAN
    OBVIOUS
  <2> QED BY <1>3, <2>1, <2>2
<1>6. ASSUME NEW i \in 1..Len(all), all[i] # Source
      PROVE  (\E a \in breaks \cap DOMAIN index : index[a] = i) <=> all[i] \in breaks
  <2>1. all[i] \in DOMAIN index /\ index[all[i]] = i
    BY <1>1, <1>2, <1>6
  <2>2. \A a \in DOMAIN index : index[a] = i => a = all[i]
    BY <1>2
  <2> QED BY <2>1, <2>2
<1> QED BY <1>4, <1>5, <1>6 DEF Shows, MarksOf, all, index, m

(* What the listing is at every moment; the labels, as long as no program has *)
(* taken the place of another.                                                *)
BoldIsOf(index, at, high, tags) ==
    tags \subseteq {high} /\ (at \in DOMAIN index => high = index[at] /\ tags = {high})
LabelsAre ==
    ~reloaded =>
        /\ fwLabelAddresses = AddressesOf(firmware)
        /\ \E c \in Cr : crLabelAddresses = AddressesOf(c) /\ (cartridge # NoLines => c = cartridge)
ListInv ==
    /\ firmware \in Fw /\ cartridge \in Cr
    /\ Shows(strings, firmware, cartridge) /\ Shows(shown, firmware, cartridge)
    /\ IsIndex(indices, firmware, cartridge)
    /\ names = AllNames(firmware, cartridge)
    /\ labelAddresses = fwLabelAddresses \o crLabelAddresses
    /\ ~failed => MarksOf(shown, breakpointSet)
    /\ BoldIsOf(indices, seen, highlighted, bold)
    /\ LabelsAre

LEMMA HighlightIs ==
    ASSUME NEW f \in Fw, NEW c \in Cr, NEW index, IsIndex(index, f, c), NEW l, Shows(l, f, c),
           NEW tags, NEW old, tags \subseteq {old}, NEW at, Highlight(l, tags, old, LineIn(index, at))
    PROVE  BoldIsOf(index, at, highlighted', bold')
<1> DEFINE line == LineIn(index, at)
<1>1. DOMAIN l = 1..Len(All(f, c))
  BY DEF Shows
<1>2. CASE at \in DOMAIN index
  <2>1. line = index[at] /\ line \in DOMAIN l
    BY <1>1, <1>2 DEF LineIn, IsIndex
  <2>2. highlighted' = line /\ bold' = (tags \ {old}) \cup {line}
    BY <2>1 DEF Highlight
  <2> QED BY <1>2, <2>1, <2>2 DEF BoldIsOf
<1>3. CASE at \notin DOMAIN index
  <2>1. line = 0 /\ 0 \notin 1..Len(All(f, c))
    <3>1. Len(All(f, c)) \in Nat
      BY LinesAre
    <3> QED BY <1>3, <3>1 DEF LineIn, Nowhere
  <2>2. highlighted' = old /\ bold' = tags \ {old}
    BY <1>1, <2>1 DEF Highlight
  <2> QED BY <1>3, <2>2 DEF BoldIsOf
<1> QED BY <1>2, <1>3

LEMMA ListedIs ==
    ASSUME NEW f \in Fw, NEW c \in Cr, Listed(f, c), NEW at, SetLines(at, strings', LineIn(indices', at))
    PROVE  /\ firmware' = f /\ cartridge' = c /\ names' = AllNames(f, c) /\ seen' = at
           /\ Shows(strings', f, c) /\ Shows(shown', f, c) /\ IsIndex(indices', f, c)
           /\ MarksOf(shown', breakpointSet)
           /\ BoldIsOf(indices', at, highlighted', bold')
<1>1. /\ firmware' = f /\ cartridge' = c /\ names' = AllNames(f, c)
      /\ indices' = Indices(f, c)
      /\ strings' = Marked(All(f, c), Indices(f, c), breakpointSet)
  BY DEF Listed, All
<1>2. shown' = strings' /\ seen' = at /\ Highlight(strings', {}, Nowhere, LineIn(indices', at))
  BY DEF SetLines
<1>3. IsIndex(indices', f, c) /\ Shows(strings', f, c) /\ MarksOf(strings', breakpointSet)
  BY <1>1, IndicesAre, MarkedAre
<1>4. BoldIsOf(indices', at, highlighted', bold')
  BY <1>2, <1>3, HighlightIs
<1> QED BY <1>1, <1>2, <1>3, <1>4

(* Nothing is listed at the start.                                            *)
LEMMA NothingListed ==
    /\ DOMAIN AddressesOf(NoLines) = {} /\ AddressesOf(NoLines) = <<>>
    /\ All(NoLines, NoLines) = <<>> /\ AllNames(NoLines, NoLines) = <<>>
    /\ ListedAddresses(NoLines) = {}
<1>1. NoLines.lines = <<>> /\ NoLines.labels = <<>> /\ DOMAIN NoLines.labels = {} /\ DOMAIN NoLines.lines = {}
  BY DEF NoLines
<1>2. AddressesOf(NoLines) \in [{} -> {}] /\ NamesOf(NoLines) \in [{} -> {}]
  BY <1>1 DEF AddressesOf, NamesOf
<1>3. \A e \in [{} -> {}] : e = <<>>
  <2> SUFFICES ASSUME NEW e \in [{} -> {}] PROVE e = <<>>
    OBVIOUS
  <2>1. e \in Seq({}) /\ Len(e) = 0
    <3>1. {} = 1..0 /\ 0 \in Nat
      OBVIOUS
    <3>2. e \in [1..0 -> {}]
      BY <3>1
    <3> QED BY <3>1, <3>2
  <2> QED BY <2>1, EmptySeq
<1>4. AddressesOf(NoLines) = <<>> /\ NamesOf(NoLines) = <<>>
  BY <1>2, <1>3
<1>5. <<>> \o <<>> = <<>>
  BY ConcatEmptySeq
<1>6. ListedAddresses(NoLines) = {}
  BY <1>1 DEF ListedAddresses
<1> QED BY <1>1, <1>4, <1>5, <1>6 DEF All, AllNames

LEMMA ListingInitially == ListingInit => ListInv
<1> SUFFICES ASSUME ListingInit PROVE ListInv
  OBVIOUS
<1>1. /\ firmware = NoLines /\ cartridge = NoLines /\ strings = <<>> /\ indices = <<>> /\ names = <<>>
      /\ fwLabelAddresses = <<>> /\ crLabelAddresses = <<>> /\ labelAddresses = <<>>
      /\ shown = <<>> /\ bold = {} /\ breakpointSet = {}
  BY DEF ListingInit
<1>2. DOMAIN indices = {} /\ DOMAIN shown = {}
  BY <1>1
<1>3. Shows(<<>>, NoLines, NoLines)
  <2>1. 1..Len(<<>>) = {}
    OBVIOUS
  <2>2. 1..Len(All(NoLines, NoLines)) = {}
    BY <2>1, NothingListed
  <2>3. <<>> \in [{} -> [addr : {Source} \cup Int, mark : BOOLEAN]]
    OBVIOUS
  <2> QED BY <2>2, <2>3 DEF Shows
<1>4. IsIndex(indices, firmware, cartridge)
  BY <1>1, <1>2, NothingListed DEF IsIndex
<1>5. MarksOf(shown, breakpointSet)
  BY <1>2 DEF MarksOf
<1>6. labelAddresses = fwLabelAddresses \o crLabelAddresses
  BY <1>1, ConcatEmptySeq
<1>7. LabelsAre
  BY <1>1, NothingListed DEF LabelsAre, Cr
<1>8. BoldIsOf(indices, seen, highlighted, bold)
  BY <1>1, <1>2 DEF BoldIsOf
<1> QED BY <1>1, <1>3, <1>4, <1>5, <1>6, <1>7, <1>8, NothingListed DEF ListInv, Fw, Cr

LEMMA ProgramListed ==
    ASSUME ListInv, NEW p \in FirmwarePrograms, ProgramFirmware(p)
    PROVE  ListInv'
<1>1. p \in Fw /\ cartridge \in Cr /\ firmware' = p /\ cartridge' = cartridge
  BY DEF ListInv, Fw, ProgramFirmware, Listed
<1>2. /\ names' = AllNames(p, cartridge) /\ seen' = EntryPoint
      /\ Shows(strings', p, cartridge) /\ Shows(shown', p, cartridge) /\ IsIndex(indices', p, cartridge)
      /\ MarksOf(shown', breakpointSet)
      /\ BoldIsOf(indices', EntryPoint, highlighted', bold')
  BY <1>1, ListedIs DEF ProgramFirmware
<1>3. /\ fwLabelAddresses' = fwLabelAddresses \o AddressesOf(p) /\ crLabelAddresses' = crLabelAddresses
      /\ labelAddresses' = fwLabelAddresses' \o crLabelAddresses'
      /\ breakpointSet' = breakpointSet /\ reloaded' = (reloaded \/ fwLabelAddresses # <<>>)
  BY DEF ProgramFirmware
<1>4. LabelsAre'
  <2> SUFFICES ASSUME ~reloaded' PROVE LabelsAre'
    BY DEF LabelsAre
  <2>1. ~reloaded /\ fwLabelAddresses = <<>>
    BY <1>3
  <2>2. AddressesOf(p) \in Seq(Int)
    <3>1. p.labels \in Seq(STRING \X Int)
      BY <1>1, ProgramIs
    <3> QED BY <3>1 DEF AddressesOf
  <2>3. fwLabelAddresses' = AddressesOf(p)
    BY <1>3, <2>1, <2>2, ConcatEmptySeq
  <2>4. \E c \in Cr : crLabelAddresses = AddressesOf(c) /\ (cartridge # NoLines => c = cartridge)
    BY <2>1 DEF ListInv, LabelsAre
  <2> QED BY <1>1, <1>3, <2>3, <2>4 DEF LabelsAre
<1> QED BY <1>1, <1>2, <1>3, <1>4 DEF ListInv

LEMMA CartridgeListed ==
    ASSUME ListInv, NEW p \in CartridgePrograms, InsertCartridge(p)
    PROVE  ListInv'
<1>1. firmware \in Fw /\ p \in Cr /\ firmware' = firmware /\ cartridge' = p
  BY DEF ListInv, Cr, InsertCartridge, Listed
<1>2. /\ names' = AllNames(firmware, p) /\ seen' = counter
      /\ Shows(strings', firmware, p) /\ Shows(shown', firmware, p) /\ IsIndex(indices', firmware, p)
      /\ MarksOf(shown', breakpointSet)
      /\ BoldIsOf(indices', counter, highlighted', bold')
  BY <1>1, ListedIs DEF InsertCartridge
<1>3. /\ crLabelAddresses' = crLabelAddresses \o AddressesOf(p) /\ fwLabelAddresses' = fwLabelAddresses
      /\ labelAddresses' = fwLabelAddresses' \o crLabelAddresses'
      /\ breakpointSet' = breakpointSet /\ reloaded' = (reloaded \/ crLabelAddresses # <<>>)
  BY DEF InsertCartridge
<1>4. LabelsAre'
  <2> SUFFICES ASSUME ~reloaded' PROVE LabelsAre'
    BY DEF LabelsAre
  <2>1. ~reloaded /\ crLabelAddresses = <<>>
    BY <1>3
  <2>2. AddressesOf(p) \in Seq(Int)
    <3>1. p.labels \in Seq(STRING \X Int)
      BY <1>1, ProgramIs
    <3> QED BY <3>1 DEF AddressesOf
  <2>3. crLabelAddresses' = AddressesOf(p)
    BY <1>3, <2>1, <2>2, ConcatEmptySeq
  <2>4. fwLabelAddresses = AddressesOf(firmware)
    BY <2>1 DEF ListInv, LabelsAre
  <2> QED BY <1>1, <1>3, <2>3, <2>4 DEF LabelsAre
<1> QED BY <1>1, <1>2, <1>3, <1>4 DEF ListInv

LEMMA CartridgeRemoved ==
    ASSUME ListInv, RemoveCartridge
    PROVE  ListInv'
<1>1. firmware \in Fw /\ NoLines \in Cr /\ firmware' = firmware /\ cartridge' = NoLines
  BY DEF ListInv, Cr, RemoveCartridge, Listed
<1>2. /\ names' = AllNames(firmware, NoLines) /\ seen' = counter
      /\ Shows(strings', firmware, NoLines) /\ Shows(shown', firmware, NoLines)
      /\ IsIndex(indices', firmware, NoLines)
      /\ MarksOf(shown', breakpointSet)
      /\ BoldIsOf(indices', counter, highlighted', bold')
  BY <1>1, ListedIs DEF RemoveCartridge
<1>3. /\ crLabelAddresses' = crLabelAddresses /\ fwLabelAddresses' = fwLabelAddresses
      /\ labelAddresses' = labelAddresses /\ breakpointSet' = breakpointSet /\ reloaded' = reloaded
  BY DEF RemoveCartridge
<1>4. LabelsAre'
  BY <1>1, <1>3 DEF ListInv, LabelsAre
<1> QED BY <1>1, <1>2, <1>3, <1>4 DEF ListInv

LEMMA RefusedListed ==
    ASSUME ListInv, RefusedCartridge
    PROVE  ListInv'
<1>1. /\ firmware \in Fw /\ cartridge \in Cr /\ IsIndex(indices, firmware, cartridge)
      /\ Shows(strings, firmware, cartridge)
  BY DEF ListInv
<1>2. /\ firmware' = firmware /\ cartridge' = cartridge /\ strings' = strings /\ indices' = indices
      /\ names' = names /\ fwLabelAddresses' = fwLabelAddresses /\ crLabelAddresses' = crLabelAddresses
      /\ labelAddresses' = labelAddresses /\ breakpointSet' = breakpointSet
      /\ failed' = TRUE /\ reloaded' = reloaded
      /\ shown' = strings /\ seen' = counter
      /\ Highlight(strings, {}, Nowhere, LineOf(counter))
  BY DEF RefusedCartridge, SetLines, console
<1>3. LineOf(counter) = LineIn(indices, counter)
  BY DEF LineOf, LineIn
<1>4. BoldIsOf(indices, counter, highlighted', bold')
  BY <1>1, <1>2, <1>3, HighlightIs
<1> QED BY <1>1, <1>2, <1>4 DEF ListInv, LabelsAre

LEMMA RunListed ==
    ASSUME ListInv, NEW a, RunAndStop(a)
    PROVE  ListInv'
<1>1. /\ firmware \in Fw /\ cartridge \in Cr /\ IsIndex(indices, firmware, cartridge)
      /\ Shows(shown, firmware, cartridge) /\ bold \subseteq {highlighted}
  BY DEF ListInv, BoldIsOf
<1>2. /\ firmware' = firmware /\ cartridge' = cartridge /\ strings' = strings /\ indices' = indices
      /\ names' = names /\ fwLabelAddresses' = fwLabelAddresses /\ crLabelAddresses' = crLabelAddresses
      /\ labelAddresses' = labelAddresses /\ breakpointSet' = breakpointSet
      /\ failed' = failed /\ reloaded' = reloaded
      /\ shown' = shown /\ seen' = a
      /\ Highlight(shown, bold, highlighted, LineOf(a))
  BY DEF RunAndStop, Refresh, console
<1>3. LineOf(a) = LineIn(indices, a)
  BY DEF LineOf, LineIn
<1>4. BoldIsOf(indices, a, highlighted', bold')
  BY <1>1, <1>2, <1>3, HighlightIs
<1> QED BY <1>1, <1>2, <1>4 DEF ListInv, LabelsAre

(* What the double click and the Clear button leave alone.                    *)
ListingStands ==
    /\ firmware' = firmware /\ cartridge' = cartridge /\ indices' = indices /\ names' = names
    /\ fwLabelAddresses' = fwLabelAddresses /\ crLabelAddresses' = crLabelAddresses
    /\ labelAddresses' = labelAddresses /\ highlighted' = highlighted /\ seen' = seen
    /\ failed' = failed /\ reloaded' = reloaded

LEMMA ToggledListed ==
    ASSUME ListInv, NEW i, InstructionBoxButtonEvent(i)
    PROVE  ListInv'
<1> DEFINE n == Len(All(firmware, cartridge))
           a == shown[i].addr
<1>1. /\ firmware \in Fw /\ cartridge \in Cr /\ Shows(shown, firmware, cartridge) /\ n \in Nat
      /\ \A k \in 1..n, j \in 1..n : All(firmware, cartridge)[k] = All(firmware, cartridge)[j]
             /\ All(firmware, cartridge)[k] # Source => k = j
  BY LinesAre DEF ListInv
<1>2. /\ ListingStands /\ strings' = strings /\ i \in DOMAIN shown /\ a # Source
      /\ shown' = [shown EXCEPT ![i].mark = ~@] /\ bold' = Rebolded(i)
      /\ breakpointSet' = IF shown[i].mark THEN breakpointSet \ {a} ELSE breakpointSet \cup {a}
  BY DEF InstructionBoxButtonEvent, ListingStands, Rewritten
<1>3. /\ DOMAIN shown = 1..n /\ shown \in [1..n -> [addr : {Source} \cup Int, mark : BOOLEAN]]
      /\ \A k \in 1..n : shown[k].addr = All(firmware, cartridge)[k]
  BY <1>1 DEF Shows
<1> HIDE DEF n
<1>4. /\ DOMAIN shown' = 1..n /\ shown' \in [1..n -> [addr : {Source} \cup Int, mark : BOOLEAN]]
      /\ shown'[i].addr = a /\ shown'[i].mark = ~shown[i].mark
      /\ \A k \in 1..n : k # i => shown'[k] = shown[k]
  BY <1>2, <1>3
<1>5. Shows(shown', firmware, cartridge)
  BY <1>3, <1>4 DEF Shows, n
<1>6. ASSUME ~failed, NEW k \in 1..n, shown'[k].addr # Source
      PROVE  shown'[k].mark <=> shown'[k].addr \in breakpointSet'
  <2>1. MarksOf(shown, breakpointSet)
    BY <1>6 DEF ListInv
  <2>2. CASE k = i
    BY <1>2, <1>3, <1>4, <2>1, <2>2 DEF MarksOf
  <2>3. CASE k # i
    <3>1. shown[k].addr # a /\ shown'[k] = shown[k]
      BY <1>1, <1>2, <1>3, <1>4, <1>6, <2>3
    <3>2. shown[k].addr \in breakpointSet' <=> shown[k].addr \in breakpointSet
      BY <1>2, <3>1
    <3> QED BY <1>3, <1>6, <2>1, <3>1, <3>2 DEF MarksOf
  <2> QED BY <2>2, <2>3
<1>7. BoldIsOf(indices, seen, highlighted, bold')
  BY <1>2 DEF ListInv, BoldIsOf, Rebolded
<1>8. ~failed => MarksOf(shown', breakpointSet')
  BY <1>4, <1>6 DEF MarksOf
<1> QED BY <1>2, <1>5, <1>7, <1>8 DEF ListInv, LabelsAre, ListingStands

LEMMA UnmarkedShows ==
    ASSUME NEW f \in Fw, NEW c \in Cr, NEW l, Shows(l, f, c), NEW set
    PROVE  /\ Shows(Unmarked(l, set), f, c)
           /\ \A i \in DOMAIN l : Unmarked(l, set)[i].mark <=> i \notin set /\ l[i].mark
<1> DEFINE n == Len(All(f, c))
           u == Unmarked(l, set)
           R == [addr : {Source} \cup Int, mark : BOOLEAN]
<1>1. l \in [1..n -> R] /\ \A i \in 1..n : l[i].addr = All(f, c)[i]
  BY DEF Shows
<1>2. u = [i \in 1..n |-> IF i \in set THEN [l[i] EXCEPT !.mark = FALSE] ELSE l[i]]
  BY <1>1 DEF Unmarked
<1> HIDE DEF u, n
<1>3. ASSUME NEW r \in R
      PROVE  [r EXCEPT !.mark = FALSE] \in R /\ [r EXCEPT !.mark = FALSE].addr = r.addr
             /\ [r EXCEPT !.mark = FALSE].mark = FALSE
  OBVIOUS
<1> HIDE DEF R
<1>4. \A i \in 1..n : /\ l[i] \in R /\ u[i] \in R /\ u[i].addr = l[i].addr
                      /\ u[i].mark <=> i \notin set /\ l[i].mark
  BY <1>1, <1>2, <1>3
<1>5. u \in [1..n -> R]
  BY <1>2, <1>4
<1> QED BY <1>1, <1>4, <1>5 DEF Shows, n, u, R

LEMMA ClearedListed ==
    ASSUME ListInv, ClearButtonClickEvent
    PROVE  ListInv'
<1> DEFINE set == {indices[a] : a \in breakpointSet \cap DOMAIN indices}
           n == Len(All(firmware, cartridge))
<1>1. /\ ListingStands /\ shown' = Unmarked(shown, set) /\ strings' = Unmarked(strings, set)
      /\ bold' = (bold \ set) \cup (set \cap {highlighted}) /\ breakpointSet' = {}
  BY DEF ClearButtonClickEvent, ListingStands
<1>2. /\ firmware \in Fw /\ cartridge \in Cr
      /\ Shows(shown, firmware, cartridge) /\ Shows(strings, firmware, cartridge)
  BY DEF ListInv
<1>3. /\ Shows(shown', firmware, cartridge) /\ Shows(strings', firmware, cartridge)
      /\ \A i \in DOMAIN shown : shown'[i].mark <=> i \notin set /\ shown[i].mark
  BY <1>1, <1>2, UnmarkedShows
<1>4. /\ DOMAIN shown = 1..n /\ DOMAIN shown' = 1..n
      /\ \A i \in 1..n : shown[i].addr = All(firmware, cartridge)[i] /\ shown'[i].addr = shown[i].addr
  BY <1>2, <1>3 DEF Shows
<1>5. ASSUME ~failed, NEW i \in 1..n, shown'[i].addr # Source
      PROVE  ~shown'[i].mark
  <2> DEFINE a == shown[i].addr
  <2>1. a # Source /\ a = All(firmware, cartridge)[i] /\ (shown[i].mark <=> a \in breakpointSet)
    BY <1>4, <1>5 DEF ListInv, MarksOf
  <2>2. a \in DOMAIN indices /\ indices[a] = i
    <3>1. a \in ListedAddresses(firmware) \cup ListedAddresses(cartridge)
      BY <1>2, <2>1, LinesAre
    <3>2. a \in DOMAIN indices /\ indices[a] \in 1..n /\ All(firmware, cartridge)[indices[a]] = a
      BY <3>1 DEF ListInv, IsIndex
    <3>3. \A k, j \in 1..n : All(firmware, cartridge)[k] = All(firmware, cartridge)[j]
              /\ All(firmware, cartridge)[k] # Source => k = j
      BY <1>2, LinesAre
    <3> HIDE DEF n
    <3> QED BY <2>1, <3>2, <3>3
  <2> HIDE DEF a
  <2>3. a \in breakpointSet => i \in set
    BY <2>2
  <2> QED BY <1>3, <1>4, <2>1, <2>3
<1>6. ~failed => MarksOf(shown', breakpointSet')
  BY <1>1, <1>4, <1>5 DEF MarksOf
<1>7. BoldIsOf(indices, seen, highlighted, bold')
  BY <1>1 DEF ListInv, BoldIsOf
<1> QED BY <1>1, <1>3, <1>6, <1>7 DEF ListInv, LabelsAre, ListingStands

LEMMA ListingStep == ListInv /\ [ListingNext]_listingVars => ListInv'
<1> SUFFICES ASSUME ListInv, [ListingNext]_listingVars PROVE ListInv'
  OBVIOUS
<1>1. ASSUME NEW p \in FirmwarePrograms, ProgramFirmware(p) PROVE ListInv'
  BY <1>1, ProgramListed
<1>2. ASSUME NEW p \in CartridgePrograms, InsertCartridge(p) PROVE ListInv'
  BY <1>2, CartridgeListed
<1>3. CASE RefusedCartridge
  BY <1>3, RefusedListed
<1>4. CASE RemoveCartridge
  BY <1>4, CartridgeRemoved
<1>5. CASE ClearButtonClickEvent
  BY <1>5, ClearedListed
<1>6. ASSUME NEW i \in DOMAIN shown, InstructionBoxButtonEvent(i) PROVE ListInv'
  BY <1>6, ToggledListed
<1>7. ASSUME NEW a \in Counters, RunAndStop(a) PROVE ListInv'
  BY <1>7, RunListed
<1>8. CASE UNCHANGED listingVars
  BY <1>8 DEF listingVars, console, window, ListInv, LabelsAre
<1> QED BY <1>1, <1>2, <1>3, <1>4, <1>5, <1>6, <1>7, <1>8 DEF ListingNext

(* The last of some lines, and the labels of a program as two sequences.      *)
LEMMA LatestIn ==
    ASSUME NEW n \in Nat, NEW T \in SUBSET (0..n), T # {}
    PROVE  \E x \in T : \A y \in T : y <= x
<1> DEFINE R == OpToRel(<, Nat)
           U == {n - x : x \in T}
<1>1. IsWellFoundedOn(R, Nat)
  BY NatLessThanWellFounded
<1>2. \A x, y \in Nat : <<x, y>> \in R <=> x < y
  BY DEF OpToRel
<1> HIDE DEF R
<1>3. U \in SUBSET Nat /\ U # {}
  <2>1. \A x \in T : n - x \in Nat
    OBVIOUS
  <2>2. U \in SUBSET Nat
    BY <2>1
  <2>3. PICK x \in T : TRUE
    OBVIOUS
  <2>4. n - x \in U
    BY <2>3
  <2> QED BY <2>2, <2>4
<1>4. PICK u \in U : \A v \in U : ~(<<v, u>> \in R)
  BY <1>1, <1>3, WFMin
<1>5. PICK x \in T : u = n - x
  OBVIOUS
<1>6. ASSUME NEW y \in T PROVE y <= x
  <2>1. n - y \in U /\ ~(<<n - y, u>> \in R)
    BY <1>4
  <2>2. n - y \in Nat /\ u \in Nat
    BY <1>3, <2>1
  <2>3. ~(n - y < n - x)
    BY <1>2, <1>5, <2>1, <2>2
  <2> QED BY <2>3
<1> QED BY <1>6

LEMMA LabelsOf ==
    ASSUME NEW p \in Fw \cup Cr
    PROVE  /\ AddressesOf(p) \in Seq(Int) /\ Len(AddressesOf(p)) = Len(p.labels)
           /\ NamesOf(p) \in Seq(STRING) /\ Len(NamesOf(p)) = Len(p.labels)
           /\ \A i \in 1..Len(p.labels) :
                AddressesOf(p)[i] = p.labels[i][2] /\ NamesOf(p)[i] = p.labels[i][1]
           /\ Len(p.labels) \in Nat
<1> DEFINE l == p.labels
<1>1. l \in Seq(STRING \X Int)
  BY ProgramIs
<1>2. /\ AddressesOf(p) = [i \in DOMAIN l |-> l[i][2]]
      /\ NamesOf(p) = [i \in DOMAIN l |-> l[i][1]]
  BY DEF AddressesOf, NamesOf
<1> HIDE DEF l
<1>3. /\ AddressesOf(p) \in Seq(Int) /\ Len(AddressesOf(p)) = Len(l)
      /\ NamesOf(p) \in Seq(STRING) /\ Len(NamesOf(p)) = Len(l)
      /\ \A i \in 1..Len(l) : AddressesOf(p)[i] = l[i][2] /\ NamesOf(p)[i] = l[i][1]
      /\ Len(l) \in Nat
  <2> DEFINE n == Len(l)
             s == AddressesOf(p)
             t == NamesOf(p)
  <2>1. n \in Nat /\ DOMAIN l = 1..n /\ \A i \in 1..n : l[i] \in STRING \X Int
    BY <1>1
  <2>2. s = [i \in 1..n |-> l[i][2]] /\ t = [i \in 1..n |-> l[i][1]]
    BY <1>2, <2>1
  <2> HIDE DEF n, s, t
  <2>3. \A i \in 1..n : l[i][2] \in Int /\ l[i][1] \in STRING
    BY <2>1
  <2>4. s \in [1..n -> Int] /\ t \in [1..n -> STRING]
    BY <2>2, <2>3
  <2>5. s \in Seq(Int) /\ Len(s) = n /\ t \in Seq(STRING) /\ Len(t) = n
    BY <2>1, <2>4
  <2> QED BY <2>1, <2>2, <2>5 DEF n, s, t
<1> QED BY <1>3 DEF l

(* The label FindLabelFromAddress finds, when it is the last of best's.       *)
LEMMA LabelIs ==
    ASSUME NEW a, NEW best \in DOMAIN labelAddresses, best \in Nat, labelAddresses[best] <= a,
           DOMAIN labelAddresses \subseteq Nat,
           \A j \in DOMAIN labelAddresses : labelAddresses[j] <= a => j <= best,
           Len(names) \in Nat, best <= Len(names)
    PROVE  LabelOf(a) = names[best]
<1> DEFINE before == {i \in DOMAIN labelAddresses : labelAddresses[i] <= a}
           last == CHOOSE i \in before : \A j \in before : j <= i
<1>1. best \in before /\ \A j \in before : j <= best
  OBVIOUS
<1>2. last = best
  <2>1. last \in before /\ \A j \in before : j <= last
    BY <1>1
  <2>2. last <= best /\ best <= last /\ last \in Nat
    BY <1>1, <2>1
  <2> HIDE DEF last
  <2> QED BY <2>2
<1>3. LabelOf(a) = IF before = {} \/ last > Len(names) THEN "" ELSE names[last]
  BY DEF LabelOf
<1> HIDE DEF before, last
<1>4. before # {} /\ ~(last > Len(names))
  BY <1>1, <1>2
<1> QED BY <1>2, <1>3, <1>4

LEMMA NamesHold == ListInv => NamesAreTheirs
<1> SUFFICES ASSUME ListInv, ~reloaded, NEW p \in {firmware, cartridge}, NEW a \in ListedAddresses(p),
                    {i \in DOMAIN p.labels : p.labels[i][2] <= a} # {}
             PROVE  \E i \in {l \in DOMAIN p.labels : p.labels[l][2] <= a} :
                        /\ \A j \in {l \in DOMAIN p.labels : p.labels[l][2] <= a} :
                               p.labels[j][2] <= p.labels[i][2]
                        /\ LabelOf(a) = p.labels[i][1]
  BY DEF NamesAreTheirs
<1>1. PICK c \in Cr : crLabelAddresses = AddressesOf(c) /\ (cartridge # NoLines => c = cartridge)
  BY DEF ListInv, LabelsAre
<1>2. /\ firmware \in Fw /\ cartridge \in Cr /\ fwLabelAddresses = AddressesOf(firmware)
      /\ labelAddresses = AddressesOf(firmware) \o AddressesOf(c)
      /\ names = NamesOf(firmware) \o NamesOf(cartridge)
  BY <1>1 DEF ListInv, LabelsAre, AllNames
<1> DEFINE F == firmware.labels
           C == c.labels
           N == cartridge.labels
           m == Len(F)
           k == Len(C)
           n == Len(N)
<1>3. /\ m \in Nat /\ DOMAIN F = 1..m /\ F \in Seq(STRING \X Int)
      /\ k \in Nat /\ DOMAIN C = 1..k /\ C \in Seq(STRING \X Int)
      /\ n \in Nat /\ DOMAIN N = 1..n
      /\ \A i, j \in DOMAIN F : i <= j => F[i][2] <= F[j][2]
      /\ \A i, j \in DOMAIN C : i <= j => C[i][2] <= C[j][2]
  BY <1>2, ProgramIs
<1> DEFINE all == labelAddresses
<1>4. /\ DOMAIN all = 1..m+k /\ \A i \in 1..m : all[i] = F[i][2]
      /\ \A j \in 1..k : all[m + j] = C[j][2]
  <2> DEFINE s == AddressesOf(firmware)
             t == AddressesOf(c)
  <2>1. /\ s \in Seq(Int) /\ t \in Seq(Int) /\ Len(s) = m /\ Len(t) = k
        /\ (\A i \in 1..m : s[i] = F[i][2]) /\ (\A i \in 1..k : t[i] = C[i][2])
    BY <1>2, LabelsOf
  <2>2. all = s \o t
    BY <1>2
  <2> HIDE DEF s, t, m, k, F, C, all
  <2>3. /\ s \o t \in Seq(Int) /\ Len(s \o t) = m + k
        /\ \A i \in 1..m+k : (s \o t)[i] = IF i <= m THEN s[i] ELSE t[i - m]
    BY <2>1, ConcatProperties
  <2>4. DOMAIN all = 1..m+k
    BY <2>2, <2>3
  <2>5. \A i \in 1..m : all[i] = s[i]
    BY <1>3, <2>2, <2>3
  <2>6. ASSUME NEW i \in 1..k PROVE all[m + i] = t[i]
    <3>1. m + i \in 1..m+k /\ ~(m + i <= m) /\ (m + i) - m = i
      BY <1>3
    <3> QED BY <2>2, <2>3, <3>1
  <2> QED BY <2>1, <2>4, <2>5, <2>6
<1>5. /\ Len(names) = m + n /\ \A i \in 1..m : names[i] = F[i][1]
      /\ \A j \in 1..n : names[m + j] = N[j][1]
  <2> DEFINE s == NamesOf(firmware)
             t == NamesOf(cartridge)
  <2>1. /\ s \in Seq(STRING) /\ t \in Seq(STRING) /\ Len(s) = m /\ Len(t) = n
        /\ (\A i \in 1..m : s[i] = F[i][1]) /\ (\A i \in 1..n : t[i] = N[i][1])
    BY <1>2, LabelsOf
  <2>2. names = s \o t
    BY <1>2
  <2> HIDE DEF s, t, m, n, F, N
  <2>3. /\ s \o t \in Seq(STRING) /\ Len(s \o t) = m + n
        /\ \A i \in 1..m+n : (s \o t)[i] = IF i <= m THEN s[i] ELSE t[i - m]
    BY <2>1, ConcatProperties
  <2>4. Len(names) = m + n
    BY <2>2, <2>3
  <2>5. \A i \in 1..m : names[i] = s[i]
    BY <1>3, <2>2, <2>3
  <2>6. ASSUME NEW i \in 1..n PROVE names[m + i] = t[i]
    <3>1. m + i \in 1..m+n /\ ~(m + i <= m) /\ (m + i) - m = i
      BY <1>3
    <3> QED BY <2>2, <2>3, <3>1
  <2> QED BY <2>1, <2>4, <2>5, <2>6
<1>6. \A i \in 1..m+k : i \in 1..m \/ \E j \in 1..k : i = m + j
  <2> HIDE DEF m, k
  <2> SUFFICES ASSUME NEW i \in 1..m+k, i \notin 1..m
               PROVE  \E j \in 1..k : i = m + j
    OBVIOUS
  <2>1. i - m \in 1..k /\ i = m + (i - m)
    BY <1>3
  <2> QED BY <2>1
<1>7. a \in Int
  BY <1>2, ProgramIs
<1>8. CASE p = firmware
  <2> DEFINE before == {i \in 1..m : F[i][2] <= a}
  <2>1. before # {} /\ a \in ListedAddresses(firmware)
    BY <1>3, <1>8
  <2>2. \A j \in 1..k : a < C[j][2]
    <3>1. CASE c = NoLines
      <4>1. C = <<>>
        BY <3>1 DEF NoLines
      <4>2. 1..k = {}
        BY <4>1
      <4> QED BY <4>2
    <3>2. CASE c # NoLines
      <4>1. firmware # NoLines
        BY <2>1, NothingListed
      <4>2. firmware \in FirmwarePrograms /\ c \in CartridgePrograms
        BY <1>2, <3>2, <4>1 DEF Fw, Cr
      <4> QED BY <1>3, <2>1, <4>2, ListingAssumption
    <3> QED BY <3>1, <3>2
  <2> HIDE DEF m, k, n, F, C, N, all
  <2>3. before \in SUBSET (0..m)
    BY <1>3
  <2>4. PICK best \in before : \A j \in before : j <= best
    BY <1>3, <2>1, <2>3, LatestIn
  <2> HIDE DEF before
  <2>5. best \in 1..m /\ F[best][2] <= a /\ \A j \in 1..m : F[j][2] <= a => j <= best
    BY <2>4 DEF before
  <2>6. ASSUME NEW j \in 1..m+k, all[j] <= a
        PROVE  j <= best
    <3>1. CASE j \in 1..m
      BY <1>4, <2>5, <2>6, <3>1
    <3>2. ASSUME NEW l \in 1..k, j = m + l PROVE FALSE
      <4>1. C[l][2] <= a /\ a < C[l][2] /\ C[l][2] \in Int
        BY <1>3, <1>4, <2>2, <2>6, <3>2
      <4> QED BY <1>7, <4>1
    <3> QED BY <1>6, <3>1, <3>2
  <2>7. LabelOf(a) = names[best]
    <3>1. best \in 1..m+k /\ best \in Nat /\ best <= m + n /\ m + n \in Nat
      BY <1>3, <2>5
    <3>2. DOMAIN labelAddresses = 1..m+k /\ 1..m+k \subseteq Nat /\ labelAddresses[best] <= a
      BY <1>4, <2>5 DEF all
    <3> QED BY <1>5, <2>6, <3>1, <3>2, LabelIs DEF all
  <2>8. \A j \in 1..m : F[j][2] <= a => F[j][2] <= F[best][2]
    BY <1>3, <2>5
  <2>9. names[best] = F[best][1]
    BY <1>5, <2>5
  <2> QED BY <1>3, <1>8, <2>5, <2>7, <2>8, <2>9 DEF F
<1>9. CASE p = cartridge
  <2>1. a \in ListedAddresses(cartridge) /\ cartridge # NoLines
    BY <1>9, NothingListed
  <2>2. c = cartridge
    BY <1>1, <2>1
  <2> DEFINE before == {i \in 1..k : C[i][2] <= a}
  <2>3. before # {}
    BY <1>3, <1>9, <2>2
  <2>4. n = k /\ N = C
    BY <2>2
  <2> HIDE DEF m, k, n, F, C, N, all
  <2>5. before \in SUBSET (0..k)
    BY <1>3
  <2>6. PICK i \in before : \A j \in before : j <= i
    BY <1>3, <2>3, <2>5, LatestIn
  <2> HIDE DEF before
  <2>7. i \in 1..k /\ C[i][2] <= a /\ \A j \in 1..k : C[j][2] <= a => j <= i
    BY <2>6 DEF before
  <2>8. ASSUME NEW j \in 1..m+k, all[j] <= a
        PROVE  j <= m + i
    <3>1. CASE j \in 1..m
      BY <1>3, <2>7, <3>1
    <3>2. ASSUME NEW l \in 1..k, j = m + l PROVE j <= m + i
      <4>1. C[l][2] <= a
        BY <1>4, <2>8, <3>2
      <4>2. l <= i
        BY <2>7, <4>1
      <4> QED BY <1>3, <2>7, <3>2, <4>2
    <3> QED BY <1>6, <3>1, <3>2
  <2> DEFINE best == m + i
  <2>9. /\ best \in 1..m+k /\ best \in Nat /\ best <= m + n /\ m + n \in Nat
    BY <1>3, <2>4, <2>7
  <2>10. all[best] <= a /\ names[best] = C[i][1]
    BY <1>4, <1>5, <2>4, <2>7
  <2> HIDE DEF best
  <2>11. LabelOf(a) = names[best]
    <3>1. \A j \in 1..m+k : all[j] <= a => j <= best
      BY <2>8 DEF best
    <3>2. DOMAIN labelAddresses = 1..m+k /\ 1..m+k \subseteq Nat /\ labelAddresses[best] <= a
      BY <1>4, <2>10 DEF all
    <3> QED BY <1>5, <2>9, <3>1, <3>2, LabelIs DEF all
  <2>12. \A j \in 1..k : C[j][2] <= a => C[j][2] <= C[i][2]
    BY <1>3, <2>7
  <2> QED BY <1>3, <1>9, <2>2, <2>7, <2>10, <2>11, <2>12 DEF C
<1> QED BY <1>8, <1>9

LEMMA ListHolds == ListInv => ListingInv
<1> SUFFICES ASSUME ListInv PROVE ListingInv
  OBVIOUS
<1>1. MarksAreBreakpoints
  BY DEF ListInv, MarksAreBreakpoints, Marks, MarksOf
<1>2. IndicesFindTheirLines
  BY DEF ListInv, IndicesFindTheirLines, IsIndex, Shows
<1>3. CurrentIsBold
  BY DEF ListInv, CurrentIsBold, BoldIsOf
<1> QED BY <1>1, <1>2, <1>3, NamesHold DEF ListingInv

(* For all programs whose addresses and labels are in order: whatever was     *)
(* programmed, inserted, refused and removed, the window marks the lines of   *)
(* the breakpoints, finds the line of every address, has the current one in   *)
(* bold and names every address by a label of its own program, up to the two  *)
(* exceptions the property states.                                            *)
THEOREM ListingSafe == ListingSpec => []ListingInv
<1>1. ListingInit => ListInv
  BY ListingInitially
<1>2. ListInv /\ [ListingNext]_listingVars => ListInv'
  BY ListingStep
<1>3. ListInv => ListingInv
  BY ListHolds
<1> QED BY <1>1, <1>2, <1>3, PTL DEF ListingSpec

-----------------------------------------------------------------------------
LEMMA LeastIn ==
    ASSUME NEW T \in SUBSET Nat, T # {}
    PROVE  \E x \in T : \A y \in T : x <= y
<1> DEFINE order == OpToRel(<, Nat)
<1>1. IsWellFoundedOn(order, Nat)
  BY NatLessThanWellFounded
<1>2. \A x, y \in Nat : <<x, y>> \in order <=> x < y
  BY DEF OpToRel
<1> HIDE DEF order
<1>3. PICK a \in T : \A b \in T : ~(<<b, a>> \in order)
  BY <1>1, WFMin
<1>4. ASSUME NEW b \in T PROVE a <= b
  <2>1. a \in Nat /\ b \in Nat /\ ~(b < a)
    BY <1>2, <1>3
  <2> QED BY <2>1
<1> QED BY <1>4

-----------------------------------------------------------------------------
(* The memory view. The lines of the memory are as many as LineTotal, and the *)
(* number of a line is how many are before it.                                *)
LEMMA MemoryIsFinite ==
    IsFiniteSet(MemoryLines) /\ MemoryLines \subseteq Nat /\ LineTotal \in Nat
<1> DEFINE n == Len(Regions)
           LinesOf(i) == Regions[i][1]..Regions[i][1]+Regions[i][2]-1
           all == {LinesOf(i) : i \in 1..n}
           f == [i \in 1..n |-> LinesOf(i)]
<1>1. n \in Nat /\ DOMAIN Regions = 1..n /\ \A i \in 1..n : Regions[i] \in Nat \X (Nat \ {0})
  BY BoxAssumption
<1>2. MemoryLines = UNION all
  BY <1>1 DEF MemoryLines
<1>3. \A i \in 1..n : Regions[i][1] \in Nat /\ Regions[i][2] \in Nat
  BY <1>1
<1>4. \A i \in 1..n : IsFiniteSet(LinesOf(i)) /\ LinesOf(i) \subseteq Nat
  <2> SUFFICES ASSUME NEW i \in 1..n PROVE IsFiniteSet(LinesOf(i)) /\ LinesOf(i) \subseteq Nat
    OBVIOUS
  <2> DEFINE a == Regions[i][1]
             b == Regions[i][1]+Regions[i][2]-1
  <2>1. a \in Nat /\ b \in Int
    BY <1>3
  <2>2. LinesOf(i) = a..b
    OBVIOUS
  <2> HIDE DEF a, b, LinesOf
  <2>3. a..b \subseteq Nat
    BY <2>1
  <2>4. IsFiniteSet(a..b)
    BY <2>1, FS_Interval
  <2> QED BY <2>2, <2>3, <2>4
<1> HIDE DEF LinesOf, n
<1>5. f \in Surjection(1..n, all)
  BY DEF Surjection
<1>6. IsFiniteSet(1..n)
  BY <1>1, FS_Interval
<1> HIDE DEF f
<1>7. IsFiniteSet(all)
  BY <1>5, <1>6, FS_Surjection
<1>8. IsFiniteSet(UNION all) /\ UNION all \subseteq Nat
  BY <1>4, <1>7, FS_UNION
<1> QED BY <1>2, <1>8, FS_CardinalityType DEF LineTotal

LEMMA LinesBeforeIs ==
    ASSUME NEW a
    PROVE  /\ LinesBefore(a) \in 0..LineTotal
           /\ a \in MemoryLines => LinesBefore(a) \in 0..LineTotal-1
<1> DEFINE before == {m \in MemoryLines : m < a}
<1>1. before \in SUBSET MemoryLines /\ LinesBefore(a) = Cardinality(before)
  BY DEF LinesBefore
<1> HIDE DEF before
<1>2. IsFiniteSet(before) /\ Cardinality(before) <= LineTotal
      /\ (Cardinality(before) = LineTotal => before = MemoryLines)
  BY <1>1, MemoryIsFinite, FS_Subset DEF LineTotal
<1>3. Cardinality(before) \in Nat
  BY <1>2, FS_CardinalityType
<1>4. ASSUME a \in MemoryLines PROVE a \notin before
  BY <1>4, MemoryIsFinite DEF before
<1>5. a \in MemoryLines => Cardinality(before) # LineTotal
  BY <1>2, <1>4
<1> QED BY <1>1, <1>2, <1>3, <1>5, MemoryIsFinite

(* One more line is before the next one, and none before the first.           *)
LEMMA NextLine ==
    ASSUME NEW m \in MemoryLines, NEW n \in MemoryLines, m < n,
           \A x \in MemoryLines : x < n => x <= m
    PROVE  LinesBefore(n) = LinesBefore(m) + 1
<1> DEFINE before == {x \in MemoryLines : x < m}
<1>1. {x \in MemoryLines : x < n} = before \cup {m}
  <2>1. \A x \in MemoryLines : x \in Nat
    BY MemoryIsFinite
  <2>2. \A x \in MemoryLines : x < n <=> (x < m \/ x = m)
    BY <2>1
  <2> QED BY <2>2
<1>2. IsFiniteSet(before) /\ m \notin before
  BY MemoryIsFinite, FS_Subset
<1> HIDE DEF before
<1>3. Cardinality(before \cup {m}) = Cardinality(before) + 1
  BY <1>2, FS_AddElement
<1> QED BY <1>1, <1>3 DEF LinesBefore, before

LEMMA BeforeIsMonotone ==
    ASSUME NEW m \in MemoryLines, NEW n \in MemoryLines, m < n
    PROVE  LinesBefore(m) < LinesBefore(n)
<1> DEFINE first == {x \in MemoryLines : x < m}
           second == {x \in MemoryLines : x < n}
<1>1. first \in SUBSET second /\ m \in second /\ m \notin first
  <2>1. \A x \in MemoryLines : x \in Nat
    BY MemoryIsFinite
  <2>2. ~(m < m) /\ \A x \in MemoryLines : x < m => x < n
    BY <2>1
  <2> QED BY <2>2
<1>2. IsFiniteSet(second)
  BY MemoryIsFinite, FS_Subset
<1>3. LinesBefore(m) = Cardinality(first) /\ LinesBefore(n) = Cardinality(second)
  BY DEF LinesBefore
<1> HIDE DEF first, second
<1>4. Cardinality(first) <= Cardinality(second) /\ Cardinality(first) # Cardinality(second)
      /\ IsFiniteSet(first)
  BY <1>1, <1>2, FS_Subset
<1>5. Cardinality(first) \in Nat /\ Cardinality(second) \in Nat
  BY <1>2, <1>4, FS_CardinalityType
<1> QED BY <1>3, <1>4, <1>5

LEMMA LaterLine ==
    ASSUME NEW m \in MemoryLines, LinesBefore(m) + 1 < LineTotal
    PROVE  \E n \in MemoryLines : /\ m < n /\ \A x \in MemoryLines : m < x => n <= x
                                  /\ LinesBefore(n) = LinesBefore(m) + 1
<1> DEFINE later == {x \in MemoryLines : m < x}
           before == {x \in MemoryLines : x < m}
<1>1. later # {}
  <2> SUFFICES ASSUME later = {} PROVE FALSE
    OBVIOUS
  <2>1. MemoryLines = before \cup {m}
    <3>1. \A x \in MemoryLines : x \in Nat
      BY MemoryIsFinite
    <3>2. \A x \in MemoryLines : ~(m < x)
      OBVIOUS
    <3>3. \A x \in MemoryLines : x < m \/ x = m
      BY <3>1, <3>2
    <3> QED BY <3>3
  <2>2. IsFiniteSet(before) /\ m \notin before
    BY MemoryIsFinite, FS_Subset
  <2> HIDE DEF before
  <2>3. Cardinality(MemoryLines) = Cardinality(before) + 1
    BY <2>1, <2>2, FS_AddElement
  <2>4. LinesBefore(m) = Cardinality(before) /\ Cardinality(before) \in Nat
    BY <2>2, FS_CardinalityType DEF LinesBefore, before
  <2> QED BY <2>3, <2>4 DEF LineTotal
<1>2. later \in SUBSET Nat
  BY MemoryIsFinite
<1>3. PICK n \in later : \A x \in later : n <= x
  BY <1>1, <1>2, LeastIn
<1>4. n \in MemoryLines /\ m < n /\ \A x \in MemoryLines : m < x => n <= x
  BY <1>3
<1>5. \A x \in MemoryLines : x < n => x <= m
  BY <1>4, MemoryIsFinite
<1> QED BY <1>4, <1>5, NextLine

LEMMA EveryNumber ==
    ASSUME NEW k \in 0..LineTotal-1
    PROVE  \E m \in MemoryLines : LinesBefore(m) = k
<1> DEFINE missing == {j \in 0..LineTotal-1 : \A m \in MemoryLines : LinesBefore(m) # j}
<1> SUFFICES ASSUME missing # {} PROVE FALSE
  OBVIOUS
<1>1. LineTotal \in Nat /\ missing \in SUBSET Nat
  BY MemoryIsFinite
<1>2. PICK j \in missing : \A i \in missing : j <= i
  BY <1>1, LeastIn
<1>3. CASE j = 0
  <2>1. MemoryLines # {}
    <3>1. LineTotal # 0
      BY <1>1, <1>2
    <3> QED BY <3>1, FS_EmptySet DEF LineTotal
  <2>2. PICK m \in MemoryLines : \A n \in MemoryLines : m <= n
    BY <2>1, MemoryIsFinite, LeastIn
  <2>3. {x \in MemoryLines : x < m} = {}
    <3>1. \A x \in MemoryLines : x \in Nat
      BY MemoryIsFinite
    <3>2. \A x \in MemoryLines : ~(x < m)
      BY <2>2, <3>1
    <3> QED BY <3>2
  <2>4. LinesBefore(m) = 0
    BY <2>3, FS_EmptySet DEF LinesBefore
  <2> QED BY <1>2, <1>3, <2>4
<1>4. CASE j # 0
  <2>1. j - 1 \in 0..LineTotal-1 /\ j - 1 \notin missing
    BY <1>1, <1>2, <1>4
  <2>2. PICK m \in MemoryLines : LinesBefore(m) = j - 1
    BY <2>1
  <2>3. LinesBefore(m) + 1 = j /\ j < LineTotal
    BY <1>1, <1>2, <2>2
  <2>4. \E n \in MemoryLines : LinesBefore(n) = j
    BY <2>3, LaterLine
  <2> QED BY <1>2, <2>4
<1> QED BY <1>3, <1>4

LEMMA LineAddressIs ==
    ASSUME NEW k \in 0..LineTotal-1
    PROVE  /\ LineAddress(k) \in MemoryLines /\ LinesBefore(LineAddress(k)) = k
           /\ k + 1 < LineTotal => Above(LineAddress(k)) = LineAddress(k + 1)
<1>1. \A j \in 0..LineTotal-1 : LineAddress(j) \in MemoryLines /\ LinesBefore(LineAddress(j)) = j
  BY EveryNumber DEF LineAddress
<1>2. ASSUME k + 1 < LineTotal PROVE Above(LineAddress(k)) = LineAddress(k + 1)
  <2> DEFINE m == LineAddress(k)
             later == {x \in MemoryLines : x > m}
  <2>1. m \in MemoryLines /\ LinesBefore(m) = k
    BY <1>1
  <2> HIDE DEF m
  <2>2. PICK n \in MemoryLines : /\ m < n /\ \A x \in MemoryLines : m < x => n <= x
                                 /\ LinesBefore(n) = k + 1
    BY <1>2, <2>1, LaterLine
  <2>3. n \in later /\ \A x \in later : n <= x
    BY <2>1, <2>2, MemoryIsFinite
  <2>4. Above(m) = n
    <3>1. \A y \in later : (\A x \in later : y <= x) => y = n
      BY <2>3, MemoryIsFinite
    <3>2. Above(m) = CHOOSE y \in later : \A x \in later : y <= x
      BY <2>3 DEF Above
    <3> QED BY <2>3, <3>1, <3>2
  <2>5. LineAddress(k + 1) = n
    <3>1. k + 1 \in 0..LineTotal-1
      BY <1>2, MemoryIsFinite
    <3>2. LineAddress(k + 1) \in MemoryLines /\ LinesBefore(LineAddress(k + 1)) = k + 1
      BY <1>1, <3>1
    <3>3. \A x \in MemoryLines : LinesBefore(x) = k + 1 => x = n
      <4> SUFFICES ASSUME NEW x \in MemoryLines, LinesBefore(x) = k + 1 PROVE x = n
        OBVIOUS
      <4>1. x \in Nat /\ n \in Nat
        BY MemoryIsFinite
      <4>2. ~(x < n) /\ ~(n < x)
        BY <2>2, <4>1, BeforeIsMonotone
      <4> QED BY <4>1, <4>2
    <3> QED BY <3>2, <3>3
  <2> QED BY <2>4, <2>5 DEF m
<1> QED BY <1>1, <1>2

LEMMA AddressOfLine ==
    ASSUME NEW a \in MemoryLines
    PROVE  LineAddress(LinesBefore(a)) = a
<1> DEFINE x == LineAddress(LinesBefore(a))
<1>1. LinesBefore(a) \in 0..LineTotal-1
  BY LinesBeforeIs
<1>2. x \in MemoryLines /\ LinesBefore(x) = LinesBefore(a)
  BY <1>1, LineAddressIs
<1> HIDE DEF x
<1>3. x \in Nat /\ a \in Nat /\ LinesBefore(a) \in Nat
  BY <1>1, <1>2, MemoryIsFinite
<1>4. ~(x < a) /\ ~(a < x)
  BY <1>2, <1>3, BeforeIsMonotone
<1> QED BY <1>3, <1>4 DEF x

(* The view: the scroll bar is in its range, each label has the line that is  *)
(* as far from the first one as it is, and what was asked for decided where.  *)
LineOfLabel(v, asc, i) == IF asc THEN v + i - 1 ELSE LineTotal - v - i
View(v, asc) == [i \in 1..Labels |-> LineAddress(LineOfLabel(v, asc, i))]
ViewInv ==
    /\ value \in 0..LineTotal-Labels /\ ascending \in BOOLEAN
    /\ rows = View(value, ascending)
    /\ wanted # <<>> => /\ wanted[2] = ascending
                        /\ wanted[1] \in MemoryLines => value = Clamp(LineFor(wanted[1], ascending))

LEMMA Sizes ==
    LineTotal \in Nat /\ Labels \in Nat \ {0} /\ Labels <= LineTotal
BY MemoryIsFinite, BoxAssumption, LabelsAssumption

LEMMA LinesInView ==
    ASSUME NEW v \in 0..LineTotal-Labels, NEW asc \in BOOLEAN, NEW i \in 1..Labels
    PROVE  LineOfLabel(v, asc, i) \in 0..LineTotal-1
BY Sizes DEF LineOfLabel

LEMMA ClampIs ==
    ASSUME NEW v \in Nat
    PROVE  /\ Clamp(v) \in 0..LineTotal-Labels
           /\ Clamp(v) = IF v <= LineTotal - Labels THEN v ELSE LineTotal - Labels
BY Sizes DEF Clamp

LEMMA SetBaseLineIs ==
    ASSUME value \in 0..LineTotal-Labels, NEW line
    PROVE  /\ AfterSetBaseLine(line) \in 0..LineTotal-Labels
           /\ line \in 0..LineTotal-1 => AfterSetBaseLine(line) = Clamp(line)
<1>1. CASE line \in 0..LineTotal-1
  <2>1. line \in Nat
    BY <1>1, Sizes
  <2> QED BY <1>1, <2>1, ClampIs DEF AfterSetBaseLine
<1>2. CASE line \notin 0..LineTotal-1
  BY <1>2 DEF AfterSetBaseLine
<1> QED BY <1>1, <1>2

LEMMA FirstLineIs ==
    ASSUME NEW v \in 0..LineTotal-Labels, NEW asc \in BOOLEAN
    PROVE  FirstLine(v, asc) = IF asc THEN v ELSE LineTotal - v - Labels
BY Sizes DEF FirstLine

LEMMA RefreshIs ==
    ASSUME NEW v \in 0..LineTotal-Labels, NEW asc \in BOOLEAN, NEW old
    PROVE  RowsFrom(old, FirstLine(v, asc), asc) = View(v, asc)
<1> DEFINE first == FirstLine(v, asc)
<1>1. first = IF asc THEN v ELSE LineTotal - v - Labels
  BY FirstLineIs
<1> HIDE DEF first
<1>2. ASSUME NEW i \in 1..Labels
      PROVE  /\ first + (IF asc THEN i - 1 ELSE Labels - i) = LineOfLabel(v, asc, i)
             /\ LineOfLabel(v, asc, i) < LineTotal
  <2>1. LineOfLabel(v, asc, i) \in 0..LineTotal-1
    BY LinesInView
  <2>2. first + (IF asc THEN i - 1 ELSE Labels - i) = LineOfLabel(v, asc, i)
    <3>1. CASE asc
      BY <1>1, <3>1, Sizes DEF LineOfLabel
    <3>2. CASE ~asc
      BY <1>1, <3>2, Sizes DEF LineOfLabel
    <3> QED BY <3>1, <3>2
  <2> QED BY <2>1, <2>2, Sizes
<1>3. RowsFrom(old, first, asc) = [i \in 1..Labels |->
          IF first + (IF asc THEN i - 1 ELSE Labels - i) < LineTotal
          THEN LineAddress(first + (IF asc THEN i - 1 ELSE Labels - i)) ELSE old[i]]
  BY DEF RowsFrom
<1>4. RowsFrom(old, first, asc) = [i \in 1..Labels |-> LineAddress(LineOfLabel(v, asc, i))]
  BY <1>2, <1>3
<1> QED BY <1>4 DEF View, first

LEMMA LineForIs ==
    ASSUME NEW a \in MemoryLines, NEW asc \in BOOLEAN
    PROVE  LineFor(a, asc) \in 0..LineTotal-1
<1> DEFINE k == LinesBefore(a)
           line == LineTotal - k - 1
<1>1. k \in 0..LineTotal-1 /\ line \in 0..LineTotal-1
  BY LinesBeforeIs, Sizes
<1>2. LineFor(a, asc) = IF asc THEN k ELSE IF line \in 0..Labels-1 THEN 0 ELSE line - Labels
  BY DEF LineFor
<1> HIDE DEF k, line
<1> QED BY <1>1, <1>2, Sizes

LEMMA BoxInitially == BoxInit => ViewInv
<1> SUFFICES ASSUME BoxInit PROVE ViewInv
  OBVIOUS
<1>1. value = 0 /\ ascending = TRUE /\ wanted = <<>> /\ rows = [i \in 1..Labels |-> LineAddress(i - 1)]
  BY DEF BoxInit
<1>2. \A i \in 1..Labels : LineOfLabel(0, TRUE, i) = i - 1
  BY Sizes DEF LineOfLabel
<1>3. rows = View(0, TRUE)
  BY <1>1, <1>2 DEF View
<1>4. 0 \in 0..LineTotal-Labels
  BY Sizes
<1>5. TRUE \in BOOLEAN
  OBVIOUS
<1> QED BY <1>1, <1>3, <1>4, <1>5 DEF ViewInv

LEMMA AskedKeeps ==
    ASSUME ViewInv, NEW a, NEW asc \in BOOLEAN, SetBaseAddress(a, asc)
    PROVE  ViewInv'
<1> DEFINE v == AfterSetBaseLine(LineFor(a, asc))
<1>1. /\ ascending' = asc /\ value' = v /\ wanted' = <<a, asc>>
      /\ Follows(asc, v) => rows' = RowsFrom(rows, FirstLine(v, asc), asc)
      /\ ~Follows(asc, v) => rows' = rows
  BY DEF SetBaseAddress, RefreshLabels
<1>2. v \in 0..LineTotal-Labels /\ (a \in MemoryLines => v = Clamp(LineFor(a, asc)))
  BY SetBaseLineIs, LineForIs DEF ViewInv
<1> HIDE DEF v
<1>3. rows' = View(v, asc)
  <2>1. CASE Follows(asc, v)
    BY <1>1, <1>2, <2>1, RefreshIs
  <2>2. CASE ~Follows(asc, v)
    BY <1>1, <2>2 DEF Follows, ViewInv
  <2> QED BY <2>1, <2>2
<1>4. wanted'[1] = a /\ wanted'[2] = ascending'
  BY <1>1
<1> QED BY <1>1, <1>2, <1>3, <1>4 DEF ViewInv

LEMMA ScrollKeeps ==
    ASSUME ViewInv, NEW v \in 0..Clamp(LineTotal), Scroll(v)
    PROVE  ViewInv'
<1>1. Clamp(LineTotal) = LineTotal - Labels
  BY ClampIs, Sizes
<1>2. v \in 0..LineTotal-Labels /\ ascending \in BOOLEAN
  BY <1>1 DEF ViewInv
<1>3. /\ value' = v /\ wanted' = <<>> /\ ascending' = ascending
      /\ rows' = RowsFrom(rows, FirstLine(v, ascending), ascending)
  BY DEF Scroll, RefreshLabels
<1>4. rows' = View(v, ascending)
  BY <1>2, <1>3, RefreshIs
<1> QED BY <1>2, <1>3, <1>4 DEF ViewInv

LEMMA BoxStep == ViewInv /\ [BoxNext]_boxVars => ViewInv'
<1> SUFFICES ASSUME ViewInv, [BoxNext]_boxVars PROVE ViewInv'
  OBVIOUS
<1>1. ASSUME NEW a \in AskedLines, NEW asc \in BOOLEAN, SetBaseAddress(a, asc) PROVE ViewInv'
  BY <1>1, AskedKeeps
<1>2. ASSUME NEW v \in 0..Clamp(LineTotal), Scroll(v) PROVE ViewInv'
  BY <1>2, ScrollKeeps
<1>3. CASE UNCHANGED boxVars
  BY <1>3 DEF boxVars, ViewInv
<1> QED BY <1>1, <1>2, <1>3 DEF BoxNext

LEMMA ViewFollows == ViewInv => RowsFollow
<1> SUFFICES ASSUME ViewInv PROVE RowsFollow
  OBVIOUS
<1>1. /\ value \in 0..LineTotal-Labels /\ ascending \in BOOLEAN
      /\ \A i \in 1..Labels : rows[i] = LineAddress(LineOfLabel(value, ascending, i))
  BY DEF ViewInv, View
<1>2. \A i \in 1..Labels : LineOfLabel(value, ascending, i) \in 0..LineTotal-1
  BY <1>1, LinesInView
<1>3. ASSUME NEW i \in 1..Labels-1
      PROVE  IF ascending THEN rows[i+1] = Above(rows[i]) ELSE rows[i] = Above(rows[i+1])
  <2> DEFINE k == LineOfLabel(value, ascending, i)
             l == LineOfLabel(value, ascending, i + 1)
  <2>1. i \in 1..Labels /\ i + 1 \in 1..Labels
    BY Sizes
  <2>2. k \in 0..LineTotal-1 /\ l \in 0..LineTotal-1
        /\ rows[i] = LineAddress(k) /\ rows[i+1] = LineAddress(l)
    BY <1>1, <1>2, <2>1
  <2>3. IF ascending THEN l = k + 1 ELSE k = l + 1
    BY <1>1, Sizes DEF LineOfLabel
  <2> HIDE DEF k, l
  <2>4. (l = k + 1 => k + 1 < LineTotal) /\ (k = l + 1 => l + 1 < LineTotal)
    BY <2>2, Sizes
  <2>5. (l = k + 1 => rows[i+1] = Above(rows[i])) /\ (k = l + 1 => rows[i] = Above(rows[i+1]))
    BY <2>2, <2>4, LineAddressIs
  <2> QED BY <2>3, <2>5
<1>4. LinesBefore(rows[1]) = IF ascending THEN value ELSE LineTotal - value - 1
  <2> DEFINE k == LineOfLabel(value, ascending, 1)
  <2>1. 1 \in 1..Labels
    BY Sizes
  <2>2. rows[1] = LineAddress(k) /\ k \in 0..LineTotal-1
    BY <1>1, <1>2, <2>1
  <2>3. k = IF ascending THEN value ELSE LineTotal - value - 1
    BY <1>1, Sizes DEF LineOfLabel
  <2> HIDE DEF k
  <2> QED BY <2>2, <2>3, LineAddressIs
<1> QED BY <1>3, <1>4 DEF RowsFollow

LEMMA ViewShows == ViewInv => AskedIsShown
<1> SUFFICES ASSUME ViewInv, wanted # <<>>, wanted[1] \in MemoryLines
             PROVE  IF wanted[2]
                    THEN /\ \E i \in 1..Labels : rows[i] = wanted[1]
                         /\ value < Clamp(LineTotal) => rows[1] = wanted[1]
                    ELSE IF LinesBefore(wanted[1]) + Labels < LineTotal THEN rows[Labels] = Above(wanted[1])
                         ELSE \E i \in 1..Labels : rows[i] = wanted[1]
  BY DEF AskedIsShown
<1> DEFINE a == wanted[1]
           k == LinesBefore(a)
<1>1. /\ wanted[2] = ascending /\ a \in MemoryLines /\ value = Clamp(LineFor(a, ascending))
      /\ value \in 0..LineTotal-Labels /\ ascending \in BOOLEAN
      /\ \A i \in 1..Labels : rows[i] = LineAddress(LineOfLabel(value, ascending, i))
  BY DEF ViewInv, View
<1> HIDE DEF a
<1>2. k \in 0..LineTotal-1 /\ LineAddress(k) = a
  BY <1>1, LinesBeforeIs, AddressOfLine
<1>3. (k + 1 < LineTotal => Above(a) = LineAddress(k + 1))
  BY <1>2, LineAddressIs
<1>4. CASE ascending
  <2>1. value = Clamp(k)
    BY <1>1, <1>4 DEF LineFor
  <2> HIDE DEF k
  <2>2. value = IF k <= LineTotal - Labels THEN k ELSE LineTotal - Labels
    BY <1>2, <2>1, Sizes, ClampIs
  <2>3. k - value + 1 \in 1..Labels /\ LineOfLabel(value, ascending, k - value + 1) = k
    <3>1. k \in Nat /\ k < LineTotal /\ LineTotal \in Nat /\ Labels \in Nat \ {0} /\ Labels <= LineTotal
      BY <1>2, Sizes
    <3> DEFINE i == k - value + 1
    <3>2. i \in 1..Labels /\ value + i - 1 = k
      BY <1>1, <2>2, <3>1
    <3> HIDE DEF i
    <3>3. LineOfLabel(value, ascending, i) = k
      BY <1>4, <3>2 DEF LineOfLabel
    <3> QED BY <3>2, <3>3 DEF i
  <2>4. \E i \in 1..Labels : rows[i] = a
    BY <1>1, <1>2, <2>3
  <2>5. Clamp(LineTotal) = LineTotal - Labels
    BY ClampIs, Sizes
  <2>6. ASSUME value < Clamp(LineTotal) PROVE rows[1] = a
    <3>1. k - value + 1 = 1
      BY <1>1, <1>2, <2>2, <2>5, <2>6, Sizes
    <3> QED BY <1>1, <1>2, <2>3, <3>1
  <2> QED BY <1>1, <1>4, <2>4, <2>6 DEF a
<1>5. CASE ~ascending
  <2> DEFINE line == LineTotal - k - 1
  <2>1. LineFor(a, ascending) = IF line \in 0..Labels-1 THEN 0 ELSE line - Labels
    BY <1>5 DEF LineFor
  <2> HIDE DEF k
  <2>2. k \in Nat /\ LineTotal \in Nat /\ Labels \in Nat \ {0} /\ Labels <= LineTotal /\ k < LineTotal
    BY <1>2, Sizes
  <2>3. value = IF line < Labels THEN 0 ELSE line - Labels
    <3>1. LineFor(a, ascending) = IF line < Labels THEN 0 ELSE line - Labels
      BY <2>1, <2>2
    <3>2. LineFor(a, ascending) \in Nat /\ LineFor(a, ascending) <= LineTotal - Labels
      BY <2>2, <3>1
    <3> QED BY <1>1, <3>1, <3>2, ClampIs
  <2>4. ASSUME k + Labels < LineTotal PROVE rows[Labels] = Above(a)
    <3>1. Labels \in 1..Labels /\ LineTotal - value - Labels = k + 1 /\ k + 1 < LineTotal
      BY <2>2, <2>3, <2>4
    <3>2. LineOfLabel(value, ascending, Labels) = k + 1
      BY <1>5, <3>1 DEF LineOfLabel
    <3> QED BY <1>1, <1>3, <3>1, <3>2
  <2>5. ASSUME ~(k + Labels < LineTotal) PROVE \E i \in 1..Labels : rows[i] = a
    <3> DEFINE i == LineTotal - k
    <3>1. i \in 1..Labels /\ LineTotal - value - i = k
      BY <2>2, <2>3, <2>5
    <3> HIDE DEF i
    <3>2. LineOfLabel(value, ascending, i) = k
      BY <1>5, <3>1 DEF LineOfLabel
    <3> QED BY <1>1, <1>2, <3>1, <3>2
  <2> QED BY <1>1, <1>5, <2>4, <2>5 DEF a, k
<1> QED BY <1>1, <1>4, <1>5

(* For all memories and any number of labels they have lines for: no label is *)
(* left over from an earlier view, a region's address is shown, at the top as *)
(* long as the end of the memory is not closer, and SP begins the view one    *)
(* line after that of sp, with the last lines of the memory as the exception. *)
THEOREM BoxSafe == BoxSpec => []BoxInv
<1>1. BoxInit => ViewInv
  BY BoxInitially
<1>2. ViewInv /\ [BoxNext]_boxVars => ViewInv'
  BY BoxStep
<1>3. ViewInv => BoxInv
  BY ViewFollows, ViewShows DEF BoxInv
<1> QED BY <1>1, <1>2, <1>3, PTL DEF BoxSpec

-----------------------------------------------------------------------------
(* The memory. An address is a place in a region, and its neighbours in the   *)
(* region are the places next to it.                                          *)
LEMMA RegionIs ==
    ASSUME NEW a \in Nat
    PROVE  /\ Region(a) \in Nat /\ Offset(a) \in 0..RegionSize-1
           /\ Region(a) * RegionSize \in Nat /\ a = Region(a) * RegionSize + Offset(a)
<1>1. RegionSize \in Nat \ {0}
  BY MapAssumption
<1> DEFINE s == RegionSize
<1> HIDE DEF s
<1>2. s \in Nat \ {0}
  BY <1>1 DEF s
<1>3. /\ a \div s \in Nat /\ a % s \in 0..s-1
      /\ (a \div s) * s \in Nat /\ a = (a \div s) * s + (a % s)
  BY <1>2
<1> QED BY <1>3 DEF Region, Offset, s

LEMMA InRegion ==
    ASSUME NEW r \in Nat, NEW o \in 0..RegionSize-1
    PROVE  /\ r * RegionSize \in Nat /\ r * RegionSize + o \in Nat
           /\ Region(r * RegionSize + o) = r /\ Offset(r * RegionSize + o) = o
<1> DEFINE s == RegionSize
<1>1. s \in Nat \ {0} /\ o \in Nat /\ o < s
  BY MapAssumption
<1> HIDE DEF s
<1>2. r * s \in Nat
  BY <1>1
<1>3. (r * s + o) \div s = r /\ (r * s + o) % s = o
  BY <1>1
<1> QED BY <1>1, <1>2, <1>3 DEF Region, Offset, s

LEMMA Neighbour ==
    ASSUME NEW a \in Nat, NEW d \in Int, 0 <= Offset(a) + d, Offset(a) + d < RegionSize
    PROVE  a + d \in Nat /\ Region(a + d) = Region(a) /\ Offset(a + d) = Offset(a) + d
<1>1. RegionSize \in Nat \ {0}
  BY MapAssumption
<1> DEFINE r == Region(a)
           o == Offset(a)
           x == r * RegionSize
<1>2. r \in Nat /\ o \in 0..RegionSize-1 /\ x \in Nat /\ a = x + o
  BY RegionIs
<1>3. o + d \in 0..RegionSize-1
  BY <1>1, <1>2
<1>4. x + (o + d) \in Nat /\ Region(x + (o + d)) = r /\ Offset(x + (o + d)) = o + d
  BY <1>2, <1>3, InRegion
<1> HIDE DEF x, o, r
<1>5. a + d = x + (o + d)
  BY <1>1, <1>2
<1> QED BY <1>4, <1>5 DEF o, r

LEMMA PlacesAre ==
    ASSUME NEW p \in Nat
    PROVE  p \in Places <=> Region(p) \in DOMAIN DeviceSizes /\ Offset(p) < DeviceSizes[Region(p)]
<1> SUFFICES ASSUME Region(p) \in DOMAIN DeviceSizes, Offset(p) < DeviceSizes[Region(p)]
             PROVE  p \in Tried
  BY DEF Places
<1> DEFINE r == Region(p)
           x == r * RegionSize
           o == Offset(p)
           n == DeviceSizes[r]
<1>1. r \in Nat /\ o \in 0..RegionSize-1 /\ x \in Nat /\ p = x + o /\ RegionSize \in Nat
  BY RegionIs, MapAssumption
<1>2. n \in 1..RegionSize /\ x..x+n-1 \subseteq Tried /\ o < n
  BY MapAssumption
<1> HIDE DEF r, x, o, n
<1> QED BY <1>1, <1>2

(* What is inside a device are places of its region, and only that is.        *)
LEMMA InsideIs ==
    ASSUME NEW a \in Nat, NEW n \in Nat \ {0}
    PROVE  /\ Inside(a, n) => \A p \in a..a+n-1 : p \in Places /\ Region(p) = Region(a)
           /\ ~Inside(a, n) => \E p \in a..a+n-1 : p \notin Places \/ Region(p) # Region(a)
<1> DEFINE r == Region(a)
           o == Offset(a)
           s == DeviceSizes[r]
<1>1. r \in Nat /\ o \in 0..RegionSize-1 /\ RegionSize \in Nat \ {0}
  BY RegionIs, MapAssumption
<1>2. r \in DOMAIN DeviceSizes => s \in 1..RegionSize
  BY MapAssumption
<1>3. Inside(a, n) <=> r \in DOMAIN DeviceSizes /\ o < s /\ o + n <= s
  BY DEF Inside
<1>4. ASSUME Inside(a, n), NEW p \in a..a+n-1
      PROVE  p \in Places /\ Region(p) = Region(a)
  <2> DEFINE d == p - a
  <2>1. d \in Int /\ 0 <= d /\ d < n /\ a + d = p
    OBVIOUS
  <2> HIDE DEF d, r, o, s
  <2>2. 0 <= o + d /\ o + d < s /\ o + d < RegionSize
    BY <1>1, <1>2, <1>3, <1>4, <2>1
  <2>3. p \in Nat /\ Region(p) = r /\ Offset(p) = o + d
    BY <2>1, <2>2, Neighbour DEF r, o
  <2> QED BY <1>3, <1>4, <2>2, <2>3, PlacesAre DEF r, s
<1>5. ASSUME ~Inside(a, n)
      PROVE  \E p \in a..a+n-1 : p \notin Places \/ Region(p) # Region(a)
  <2>1. CASE r \notin DOMAIN DeviceSizes \/ ~(o < s)
    <3>1. a \in a..a+n-1 /\ a \notin Places
      BY <2>1, PlacesAre
    <3> QED BY <3>1
  <2>2. CASE r \in DOMAIN DeviceSizes /\ o < s
    <3> DEFINE p == a + (s - o)
    <3> HIDE DEF r, o, s
    <3>1. s \in 1..RegionSize /\ o + n > s
      BY <1>1, <1>2, <1>3, <1>5, <2>2
    <3>2. p \in a..a+n-1 /\ p \in Nat
      BY <1>1, <2>2, <3>1
    <3>3. ASSUME p \in Places, Region(p) = r PROVE FALSE
      <4>1. Offset(p) < s
        BY <3>3 DEF Places, s, r
      <4>2. CASE s < RegionSize
        <5>1. s - o \in Int /\ 0 <= o + (s - o) /\ o + (s - o) < RegionSize /\ o + (s - o) = s
          BY <1>1, <3>1, <4>2
        <5>2. Offset(a + (s - o)) = o + (s - o)
          BY <5>1, Neighbour DEF o
        <5>3. s \in Int
          BY <3>1
        <5>4. p = a + (s - o)
          BY DEF p
        <5> HIDE DEF p
        <5>5. Offset(p) = s
          BY <5>1, <5>2, <5>4
        <5> QED BY <4>1, <5>3, <5>5
      <4>3. CASE s = RegionSize
        <5>1. /\ r * RegionSize \in Nat /\ a = r * RegionSize + o
              /\ p = r * RegionSize + Offset(p) /\ Offset(p) \in 0..RegionSize-1
          BY <3>2, <3>3, RegionIs DEF r, o
        <5> DEFINE x == r * RegionSize
        <5>2. x \in Nat /\ a = x + o /\ p = x + Offset(p)
          BY <5>1
        <5> HIDE DEF x
        <5>3. p = x + RegionSize
          BY <1>1, <4>3, <5>2
        <5> HIDE DEF p
        <5> QED BY <1>1, <5>1, <5>2, <5>3
      <4> QED BY <1>1, <3>1, <4>2, <4>3
    <3> QED BY <3>2, <3>3 DEF r
  <2> QED BY <2>1, <2>2
<1> QED BY <1>4, <1>5

(* The addresses of a word have the same alignment in their region.           *)
LEMMA WordIs ==
    ASSUME NEW a \in Nat
    PROVE  /\ a % 4 \in 0..3 /\ WordOf(a) \in Nat /\ WordOf(a) % 4 = 0 /\ WordOf(a) <= a /\ a <= WordOf(a) + 3
           /\ \A p \in Nat : p \in WordOf(a)..WordOf(a)+3 <=> WordOf(p) = WordOf(a)
BY DEF WordOf

LEMMA OffsetAligned ==
    ASSUME NEW a \in Nat
    PROVE  a % 4 <= Offset(a)
<1>1. RegionSize \in Nat \ {0} /\ RegionSize % 4 = 0
  BY MapAssumption
<1>2. PICK q \in Nat : RegionSize = 4 * q
  <2> DEFINE s == RegionSize
             q == s \div 4
  <2> HIDE DEF s
  <2>1. q \in Nat /\ s = 4 * q
    BY <1>1 DEF s
  <2> QED BY <2>1 DEF s
<1> DEFINE r == Region(a)
           o == Offset(a)
<1>3. r \in Nat /\ o \in 0..RegionSize-1 /\ r * RegionSize \in Nat /\ a = r * RegionSize + o
  BY RegionIs
<1> HIDE DEF r, o
<1>4. r * RegionSize = 4 * (r * q)
  BY <1>2, <1>3
<1> DEFINE x == r * q
<1>5. x \in Nat
  BY <1>2, <1>3
<1>6. a = 4 * x + o
  BY <1>3, <1>4
<1>7. o \in Nat
  BY <1>1, <1>3
<1> HIDE DEF x
<1>8. a % 4 = o % 4
  BY <1>5, <1>6, <1>7
<1> QED BY <1>7, <1>8 DEF o

LEMMA ReadCovers ==
    ASSUME NEW a \in Nat, NEW n \in Nat \ {0}
    PROVE  /\ a..a+n-1 \subseteq ReadBytes(a, n)
           /\ (a + n) % 4 = 0 => ReadBytes(a, n) = WordOf(a)..a+n-1
<1> DEFINE w == WordOf(a)
           c == WordsRead(a, n)
<1>1. w \in Nat /\ w % 4 = 0 /\ w <= a /\ a <= w + 3
  BY WordIs
<1>2. c \in Nat /\ a + n <= w + 4 * c
  BY DEF WordsRead, WordOf
<1>3. (a + n) % 4 = 0 => a + n = w + 4 * c
  BY DEF WordsRead, WordOf
<1>4. ReadBytes(a, n) = w..w + 4 * c - 1
  BY DEF ReadBytes
<1> HIDE DEF w, c
<1>5. a..a+n-1 \subseteq w..w + 4 * c - 1
  BY <1>1, <1>2
<1>6. ASSUME (a + n) % 4 = 0 PROVE w..w + 4 * c - 1 = w..a+n-1
  <2>1. w + 4 * c - 1 = a + n - 1
    BY <1>1, <1>2, <1>3, <1>6
  <2> QED BY <2>1
<1> QED BY <1>4, <1>5, <1>6 DEF w

(* A block of registers that ends with a whole word is read inside the block. *)
LEMMA WholeWords ==
    ASSUME NEW a \in Nat, NEW n \in Nat \ {0}, Inside(a, n), (a + n) % 4 = 0
    PROVE  ReadBytes(a, n) \subseteq Places
<1>1. /\ WordOf(a) = a - (a % 4) /\ a % 4 \in 0..3 /\ a % 4 <= Offset(a)
      /\ Offset(a) \in 0..RegionSize-1 /\ RegionSize \in Nat \ {0}
  BY RegionIs, OffsetAligned, MapAssumption DEF WordOf
<1>2. Region(a) \in DOMAIN DeviceSizes /\ Offset(a) < DeviceSizes[Region(a)]
      /\ DeviceSizes[Region(a)] \in 1..RegionSize
  BY MapAssumption DEF Inside
<1> SUFFICES ASSUME NEW p \in WordOf(a)..a+n-1 PROVE p \in Places
  BY ReadCovers
<1>3. CASE p >= a
  <2>1. p \in a..a+n-1
    BY <1>1, <1>3
  <2> QED BY <2>1, InsideIs
<1>4. CASE p < a
  <2> DEFINE d == p - a
             o == Offset(a)
             s == DeviceSizes[Region(a)]
  <2>1. d \in Int /\ -(a % 4) <= d /\ d < 0 /\ a + d = p
    BY <1>1, <1>4
  <2> HIDE DEF d, o, s
  <2>2. o \in Int /\ s \in Int /\ a % 4 <= o /\ o < s /\ s <= RegionSize /\ a % 4 \in Int
    BY <1>1, <1>2 DEF o, s
  <2>3. 0 <= o + d /\ o + d < RegionSize /\ o + d < s
    BY <1>1, <2>1, <2>2
  <2>4. p \in Nat /\ Region(p) = Region(a) /\ Offset(p) = o + d
    BY <2>1, <2>3, Neighbour DEF o
  <2> QED BY <1>2, <2>3, <2>4, PlacesAre DEF s
<1> QED BY <1>1, <1>3, <1>4

(* An access that starts in the registers and does not end there overruns.    *)
LEMMA PastTheRegisters ==
    ASSUME NEW a \in Nat, NEW n \in Nat \ {0},
           IsIn(a, BlockRegion), Inside(a, 1), ~Inside(a, n)
    PROVE  Overruns(a, n)
<1> DEFINE s == DeviceSizes[BlockRegion]
           o == Offset(a)
           p == a + (s - o)
<1>1. Region(a) = BlockRegion /\ BlockRegion \in DOMAIN DeviceSizes
  BY DEF IsIn
<1>2. o \in 0..RegionSize-1 /\ RegionSize \in Nat \ {0} /\ s \in 1..RegionSize /\ BlockRegion \in Nat
  BY <1>1, RegionIs, MapAssumption
<1>3. o < s /\ o + n > s
  BY <1>1, <1>2 DEF Inside
<1>4. p \in Nat /\ p \in a..a+n-1
  <2> HIDE DEF s, o
  <2> QED BY <1>2, <1>3
<1>5. p \notin Places
  <2>1. CASE s < RegionSize
    <3> DEFINE d == s - o
    <3>1. d \in Int /\ 0 <= o + d /\ o + d < RegionSize /\ o + d = s
      <4> HIDE DEF s, o
      <4> QED BY <1>2, <1>3, <2>1
    <3> HIDE DEF d
    <3>2. Region(a + d) = Region(a) /\ Offset(a + d) = s
      BY <3>1, Neighbour
    <3>3. p = a + d
      BY DEF d
    <3> HIDE DEF p
    <3> QED BY <1>1, <1>2, <3>2, <3>3 DEF Places
  <2>2. CASE s = RegionSize
    <3>1. BlockRegion + 1 \notin DOMAIN DeviceSizes
      BY <1>2, <2>2, MapAssumption
    <3>2. BlockRegion * RegionSize \in Nat /\ a = BlockRegion * RegionSize + o
      BY <1>1, RegionIs
    <3> DEFINE x == BlockRegion * RegionSize
    <3>3. p = x + RegionSize /\ x \in Nat
      <4> HIDE DEF s, o, x
      <4>1. x \in Nat /\ a = x + o
        BY <3>2 DEF x
      <4> QED BY <1>2, <2>2, <4>1
    <3>4. (BlockRegion + 1) * RegionSize = x + RegionSize
      BY <1>2
    <3>5. Region((BlockRegion + 1) * RegionSize + 0) = BlockRegion + 1
      BY <1>2, InRegion
    <3>6. (BlockRegion + 1) * RegionSize + 0 = p
      <4> HIDE DEF x, p
      <4> QED BY <1>2, <3>3, <3>4
    <3>7. Region(p) = BlockRegion + 1
      BY <3>5, <3>6
    <3> HIDE DEF p
    <3> QED BY <3>1, <3>7 DEF Places
  <2> QED BY <1>2, <2>1, <2>2
<1>6. p \in ReadBytes(a, n)
  BY <1>4, ReadCovers
<1> QED BY <1>5, <1>6 DEF Overruns

LEMMA FaultsHold ==
    FaultsExactlyOutside
<1> SUFFICES ASSUME NEW a \in Tried, NEW n \in 1..6
             PROVE  LET outside == \E p \in a..a+n-1 : p \notin Places \/ Region(p) # Region(a) IN
                    /\ n \in {1, 2, 4} => (LoadFaults(a, n) <=> outside)
                    /\ n \in {1, 2, 4} => (StoreFaults(a, n) <=> outside /\ ~IsIn(a, FlashRegion))
                    /\ LoadDataFaults(a, n) => outside
                    /\ outside /\ ~LoadDataFaults(a, n) => Overruns(a, n)
                    /\ ~outside /\ (a + n) % 4 = 0 => ~Overruns(a, n)
  BY DEF FaultsExactlyOutside
<1> DEFINE outside == \E p \in a..a+n-1 : p \notin Places \/ Region(p) # Region(a)
<1>1. a \in Nat /\ n \in Nat \ {0}
  BY MapAssumption
<1>2. outside <=> ~Inside(a, n)
  BY <1>1, InsideIs
<1> HIDE DEF outside
<1>3. LoadFaults(a, n) <=> outside
  BY <1>2 DEF LoadFaults
<1>4. StoreFaults(a, n) <=> outside /\ ~IsIn(a, FlashRegion)
  BY <1>2 DEF StoreFaults
<1>5. ~Inside(a, 1) => ~Inside(a, n)
  <2>1. Offset(a) \in Nat
    BY <1>1, RegionIs, MapAssumption
  <2>2. \A r \in DOMAIN DeviceSizes : DeviceSizes[r] \in Int
    BY MapAssumption
  <2> QED BY <1>1, <2>1, <2>2 DEF Inside
<1>6. LoadDataFaults(a, n) => outside
  BY <1>2, <1>5 DEF LoadDataFaults
<1>7. ASSUME outside, ~LoadDataFaults(a, n) PROVE Overruns(a, n)
  <2>1. IsIn(a, BlockRegion) /\ Inside(a, 1)
    BY <1>2, <1>7 DEF LoadDataFaults
  <2> QED BY <1>1, <1>2, <1>7, <2>1, PastTheRegisters
<1>8. ASSUME ~outside, (a + n) % 4 = 0 PROVE ~Overruns(a, n)
  BY <1>1, <1>2, <1>8, WholeWords DEF Overruns
<1> QED BY <1>3, <1>4, <1>6, <1>7, <1>8 DEF outside

-----------------------------------------------------------------------------
(* While no store went across a register the two memories are one, and the    *)
(* scratch buffer is as long as the block of registers.                       *)
MapIInv ==
    /\ DOMAIN scratch = {p \in Places : IsIn(p, BlockRegion)}
    /\ ~overrun /\ ~odd => bytes = flat /\ flat = [p \in Places |-> flat[p]]

LEMMA LoadsHold ==
    ASSUME DOMAIN scratch = {p \in Places : IsIn(p, BlockRegion)}, bytes = flat
    PROVE  LoadsAreExact
<1> SUFFICES ASSUME NEW a \in Tried, NEW n \in 1..6, Inside(a, n)
             PROVE  /\ ~Overruns(a, n) => LoadedData(a, n) = Take(flat, a, n)
                    /\ n \in {1, 2, 4} /\ (IsIn(a, BlockRegion) => a % n = 0)
                       => LoadOf(a, n) = Take(flat, a, n)
  BY DEF LoadsAreExact
<1>1. a \in Nat /\ n \in Nat \ {0}
  BY MapAssumption
<1>2. ASSUME IsIn(a, BlockRegion) PROVE Take(Refreshed(a, n), a, n) = Take(bytes, a, n)
  <2> SUFFICES ASSUME NEW k \in 1..n PROVE Refreshed(a, n)[a + k - 1] = bytes[a + k - 1]
    BY DEF Take
  <2> DEFINE p == a + k - 1
  <2>1. p \in a..a+n-1
    BY <1>1
  <2> HIDE DEF p
  <2>2. p \in Places /\ Region(p) = Region(a) /\ p \in ReadBytes(a, n)
    BY <1>1, <2>1, InsideIs, ReadCovers
  <2>3. p \in DOMAIN scratch
    BY <1>2, <2>2 DEF IsIn
  <2> QED BY <2>2, <2>3 DEF Refreshed, p
<1>3. LoadedData(a, n) = Take(flat, a, n)
  BY <1>2 DEF LoadedData
<1>4. ASSUME IsIn(a, BlockRegion) => a % n = 0 PROVE LoadOf(a, n) = Take(flat, a, n)
  <2>1. IsIn(a, BlockRegion) => a - (a % n) = a
    BY <1>1, <1>4
  <2> QED BY <2>1 DEF LoadOf
<1> QED BY <1>3, <1>4

LEMMA MapIInvSuffices ==
    MapIInv => MemoryInv
BY FaultsHold, LoadsHold DEF MapIInv, MemoryInv, MemoryIsFlat, LoadsAreExact

LEMMA MapInitIInv ==
    MapInit => MapIInv
<1> SUFFICES ASSUME MapInit PROVE MapIInv
  OBVIOUS
<1>1. bytes = [p \in Places |-> 0] \/ bytes = [p \in Places |-> 1]
  BY DEF MapInit
<1>2. flat = [p \in Places |-> flat[p]]
  BY <1>1 DEF MapInit
<1> QED BY <1>2 DEF MapInit, MapIInv

-----------------------------------------------------------------------------
(* What is inside a device is inside the region of its first byte.            *)
LEMMA InsideRegion ==
    ASSUME NEW a \in Nat, NEW n \in Nat \ {0}, Inside(a, n), NEW r, IsIn(a, r)
    PROVE  \A p \in a..a+n-1 : p \in Nat /\ p \in Places /\ IsIn(p, r)
<1> SUFFICES ASSUME NEW p \in a..a+n-1 PROVE p \in Nat /\ p \in Places /\ IsIn(p, r)
  OBVIOUS
<1> QED BY InsideIs DEF IsIn

LEMMA PlainOverlay ==
    ASSUME NEW m, NEW a \in Nat, NEW vals \in Patterns,
           Inside(a, Len(vals)), ~IsIn(a, BlockRegion)
    PROVE  Overlay(m, a, vals) = FlatStore(m, a, vals)
<1> DEFINE n == Len(vals)
<1>1. n \in Nat \ {0}
  BY MapAssumption, EmptySeq
<1>2. \A p \in a..a+n-1 : Region(p) = Region(a)
  BY <1>1, InsideIs
<1> SUFFICES ASSUME NEW p \in Places
             PROVE  Overlay(m, a, vals)[p] = FlatStore(m, a, vals)[p]
  BY DEF Overlay, FlatStore
<1>3. CASE p \in a..a+n-1
  <2>1. ~IsIn(p, BlockRegion)
    BY <1>2, <1>3 DEF IsIn
  <2> QED BY <2>1 DEF Overlay, FlatStore
<1>4. CASE p \notin a..a+n-1
  BY <1>4 DEF Overlay, FlatStore
<1> QED BY <1>3, <1>4

(* w is register r in memory m2, overlaid with vals from a on; m2 and m have  *)
(* the same register.                                                         *)
WordFrom(m, a, vals, m2, r, w) ==
    \A p \in Places : p \in r..r+3 =>
        /\ m2[p] = m[p]
        /\ w[p] = IF p \in a..a+Len(vals)-1 THEN vals[p - a + 1] ELSE m[p]

Touches(r, a, vals) == \E p \in r..r+3 : p \in a..a+Len(vals)-1

WordStored(m, a, vals, m2, r, m3) ==
    \A p \in Places : m3[p] = IF p \in r..r+3 THEN FlatStore(m, a, vals)[p] ELSE m2[p]

(* A store of one word makes its register what plain stores of the bytes      *)
(* would have, and leaves the others alone.                                   *)
LEMMA RegisterIs ==
    ASSUME NEW m, NEW a \in Nat, NEW vals \in Patterns,
           Inside(a, Len(vals)), IsIn(a, BlockRegion), ~PartOf(a, Len(vals)),
           NEW r \in Nat, r % 4 = 0, Touches(r, a, vals),
           NEW m2, NEW w, WordFrom(m, a, vals, m2, r, w)
    PROVE  WordStored(m, a, vals, m2, r, RegisterStore(m2, r, w))
<1> DEFINE n == Len(vals)
<1>1. n \in Nat \ {0}
  BY MapAssumption, EmptySeq
<1>2. \A p \in a..a+n-1 : IsIn(p, BlockRegion)
  BY <1>1, InsideRegion
<1> SUFFICES ASSUME NEW p \in Places
             PROVE  RegisterStore(m2, r, w)[p] = IF p \in r..r+3 THEN FlatStore(m, a, vals)[p] ELSE m2[p]
  BY DEF WordStored
<1>3. CASE p \notin r..r+3
  BY <1>3 DEF RegisterStore
<1>4. CASE p \in r..r+3
  <2>1. p \in Nat /\ WordOf(p) = r
    <3>1. p = r \/ p = r + 1 \/ p = r + 2 \/ p = r + 3
      BY <1>4
    <3>2. PICK q \in Nat : r = 4 * q
      <4> DEFINE q == r \div 4
      <4> HIDE DEF q
      <4>1. q \in Nat /\ r = 4 * q
        BY DEF q
      <4> QED BY <4>1
    <3>3. p % 4 = p - r
      BY <3>1, <3>2
    <3> QED BY <3>1, <3>3 DEF WordOf
  <2>2. CASE p \in a..a+n-1
    BY <1>2, <1>4, <2>1, <2>2 DEF RegisterStore, FlatStore, WordFrom
  <2>3. CASE p \notin a..a+n-1
    <3>1. r \notin Acknowledge
      <4> DEFINE both == r..r+3 \cap a..a+Len(vals)-1
      <4>1. p \notin both /\ both # {}
        BY <2>3 DEF Touches
      <4>2. both \notin {{}, r..r+3}
        BY <1>4, <4>1
      <4> QED BY <4>2 DEF PartOf
    <3>2. FlatStore(m, a, vals)[p] = m[p]
      BY <2>3 DEF FlatStore
    <3> QED BY <1>4, <2>3, <3>1, <3>2 DEF RegisterStore, WordFrom
  <2> QED BY <2>2, <2>3
<1> QED BY <1>3, <1>4

LEMMA OneRegister ==
    ASSUME NEW m, NEW a \in Nat, NEW vals \in Patterns,
           Inside(a, Len(vals)), IsIn(a, BlockRegion), ~PartOf(a, Len(vals)),
           NEW r \in Nat, r % 4 = 0, a \in a..a+Len(vals)-1, a..a+Len(vals)-1 \subseteq r..r+3,
           NEW w, WordFrom(m, a, vals, m, r, w)
    PROVE  RegisterStore(m, r, w) = FlatStore(m, a, vals)
<1>1. Touches(r, a, vals)
  BY DEF Touches
<1>3. WordStored(m, a, vals, m, r, RegisterStore(m, r, w))
  BY <1>1, RegisterIs
<1>4. \A p \in Places : p \notin r..r+3 => FlatStore(m, a, vals)[p] = m[p]
  BY DEF FlatStore
<1>5. FlatStore(m, a, vals) = [p \in Places |-> FlatStore(m, a, vals)[p]]
  BY DEF FlatStore
<1>6. RegisterStore(m, r, w) = [p \in Places |-> RegisterStore(m, r, w)[p]]
  BY DEF RegisterStore
<1> QED BY <1>3, <1>4, <1>5, <1>6 DEF WordStored

LEMMA AlignedBytes ==
    ASSUME NEW a \in Nat, NEW n \in {1, 2, 4}, a % n = 0
    PROVE  a \in a..a+n-1 /\ a..a+n-1 \subseteq WordOf(a)..WordOf(a)+3
<1> DEFINE r == WordOf(a)
<1>1. r \in Nat /\ r <= a /\ a <= r + 3 /\ n \in Nat \ {0}
  BY WordIs
<1>2. a + n - 1 <= r + 3
  <2>1. CASE n = 1
    BY <1>1, <2>1
  <2>2. CASE n = 2
    BY <2>2 DEF WordOf
  <2>3. CASE n = 4
    BY <2>3 DEF WordOf
  <2> QED BY <2>1, <2>2, <2>3
<1> HIDE DEF r
<1>3. a \in a..a+n-1 /\ a..a+n-1 \subseteq r..r+3
  <2>1. \A p \in a..a+n-1 : p \in r..r+3
    BY <1>1, <1>2
  <2> QED BY <1>1, <2>1
<1> QED BY <1>3 DEF r

(* An aligned store of a guest is a plain store.                              *)
LEMMA AlignedStore ==
    ASSUME NEW m, NEW a \in Nat, NEW vals \in Patterns,
           Inside(a, Len(vals)), IsIn(a, BlockRegion), ~PartOf(a, Len(vals)),
           Len(vals) \in {1, 2, 4}, a % Len(vals) = 0
    PROVE  BlockStore(m, a, vals) = FlatStore(m, a, vals)
<1> DEFINE n == Len(vals)
           r == WordOf(a)
           Plain(w) == \A p \in Places : p \in r..r+3 =>
                          w[p] = IF p \in a..a+n-1 THEN vals[p - a + 1] ELSE m[p]
<1>1. r \in Nat /\ r % 4 = 0 /\ a \in a..a+n-1 /\ a..a+n-1 \subseteq r..r+3
  BY WordIs, AlignedBytes
<1>3. ASSUME NEW w, Plain(w) PROVE RegisterStore(m, r, w) = FlatStore(m, a, vals)
  <2>1. WordFrom(m, a, vals, m, r, w)
    BY <1>3 DEF WordFrom
  <2> HIDE DEF r
  <2> QED BY <1>1, <2>1, OneRegister
<1>4. CASE n = 1
  <2>1. Plain(Overlay(m, a, vals))
    BY DEF Overlay
  <2>2. BlockStore(m, a, vals) = RegisterStore(m, r, Overlay(m, a, vals))
    BY <1>4 DEF BlockStore
  <2> QED BY <1>3, <2>1, <2>2
<1>5. CASE n = 2
  <2> DEFINE w == [p \in r..r+3 |->
                     LET kept == IF p \in HalfOf(a)..HalfOf(a)+1 THEN 0 ELSE m[p]
                     IN IF p \in a..a+1 /\ vals[p - a + 1] = 1 THEN 1 ELSE kept]
  <2>1. HalfOf(a) = a
    BY <1>5 DEF HalfOf
  <2>2. \A p \in a..a+1 : vals[p - a + 1] \in {0, 1}
    <3> SUFFICES ASSUME NEW p \in a..a+1 PROVE vals[p - a + 1] \in {0, 1}
      OBVIOUS
    <3>1. p - a + 1 \in 1..n
      BY <1>5
    <3>2. vals \in Seq({0, 1})
      BY MapAssumption
    <3> QED BY <3>1, <3>2
  <2>3. Plain(w)
    <3> SUFFICES ASSUME NEW p \in r..r+3
                 PROVE  w[p] = IF p \in a..a+n-1 THEN vals[p - a + 1] ELSE m[p]
      OBVIOUS
    <3>1. a..a+n-1 = a..a+1
      BY <1>5
    <3> HIDE DEF r
    <3>2. w[p] = IF p \in a..a+1 /\ vals[p - a + 1] = 1 THEN 1
                 ELSE IF p \in a..a+1 THEN 0 ELSE m[p]
      BY <2>1
    <3> HIDE DEF w, n
    <3> QED BY <2>2, <3>1, <3>2
  <2>4. BlockStore(m, a, vals) = RegisterStore(m, r, w)
    BY <1>5 DEF BlockStore, HalfStore
  <2> QED BY <1>3, <2>3, <2>4
<1>6. CASE n = 4
  <2>1. r = a
    BY <1>6 DEF WordOf
  <2>2. Plain(Overlay(m, r, vals))
    BY <2>1 DEF Overlay
  <2>3. BlockStore(m, a, vals) = RegisterStore(m, r, Overlay(m, r, vals))
    BY <1>6 DEF BlockStore
  <2> QED BY <1>3, <2>2, <2>3
<1> QED BY <1>4, <1>5, <1>6

(* DMA's block is stored word by word; after word k the memory is that of     *)
(* plain stores up to it.                                                     *)
LEMMA BlockWords ==
    ASSUME NEW m, m = [p \in Places |-> m[p]], NEW a \in Nat, NEW vals \in Patterns,
           Inside(a, Len(vals)), IsIn(a, BlockRegion), ~PartOf(a, Len(vals))
    PROVE  BlockStoreData(m, a, vals) = FlatStore(m, a, vals)
<1> DEFINE n == Len(vals)
           r == WordOf(a)
           last == WordOf(a + n - 1)
           N == (last - r) \div 4
           Upto(k) == [p \in Places |-> IF p \in r..r + 4 * k + 3 THEN FlatStore(m, a, vals)[p] ELSE m[p]]
           Next4(g, k) == RegisterStore(g, r + 4 * k, Overlay(g, a, vals))
           Tower(f) == f = [k \in -1..N |-> IF k = -1 THEN m ELSE Next4(f[k-1], k)]
<1>1. n \in Nat \ {0} /\ a + n - 1 \in Nat
  BY MapAssumption, EmptySeq
<1>2. /\ r \in Nat /\ r % 4 = 0 /\ r <= a /\ a <= r + 3
      /\ last \in Nat /\ last % 4 = 0 /\ last <= a + n - 1 /\ a + n - 1 <= last + 3
  BY <1>1, WordIs
<1>3. N \in Nat /\ last = r + 4 * N
  <2> DEFINE x == last \div 4
             y == r \div 4
  <2> HIDE DEF r, last
  <2>1. r <= last + 3
    BY <1>1, <1>2
  <2>2. x \in Nat /\ last = 4 * x
    <3> HIDE DEF N
    <3> QED BY <1>2
  <2>3. y \in Nat /\ r = 4 * y
    <3> HIDE DEF N
    <3> QED BY <1>2
  <2> HIDE DEF x, y
  <2>4. last - r = 4 * (x - y) /\ x - y \in Nat
    BY <2>1, <2>2, <2>3
  <2>5. N = x - y
    BY <2>4
  <2> HIDE DEF N
  <2> QED BY <2>2, <2>3, <2>4, <2>5
<1> HIDE DEF N, last, r
<1>4. m = Upto(-1)
  <2>1. \A p : p \notin r..r + 4 * (-1) + 3
    BY <1>2
  <2> QED BY <2>1
<1>5. ASSUME NEW k \in 0..N PROVE Next4(Upto(k-1), k) = Upto(k)
  <2> DEFINE s == r + 4 * k
             g == Upto(k-1)
             w == Overlay(g, a, vals)
  <2>0. r \in Nat /\ N \in Nat
    BY <1>2, <1>3
  <2>1. k \in Nat /\ k <= N /\ s \in Nat /\ s = r + 4 * k
    <3>1. k \in Nat /\ k <= N
      BY <2>0
    <3> QED BY <2>0, <3>1
  <2>12. s % 4 = 0
    <3> HIDE DEF s, g
    <3> QED BY <1>2, <2>1
  <2>2. Touches(s, a, vals)
    <3>1. CASE k = 0
      <4>1. a \in s..s+3 /\ a \in a..a+n-1
        BY <1>1, <1>2, <3>1
      <4> QED BY <4>1 DEF Touches
    <3>2. CASE k # 0
      <4>1. s <= a + n - 1 /\ a <= s
        <5> HIDE DEF s, n
        <5>1. k >= 1
          BY <2>1, <3>2
        <5>2. s <= last /\ r + 4 <= s
          BY <1>2, <1>3, <2>0, <2>1, <5>1
        <5>3. last \in Nat /\ last <= a + n - 1 /\ a <= r + 3
          BY <1>2
        <5> QED BY <1>1, <2>0, <2>1, <5>2, <5>3
      <4>2. s \in s..s+3 /\ s \in a..a+n-1
        BY <2>1, <4>1
      <4> QED BY <4>2 DEF Touches
    <3> QED BY <3>1, <3>2
  <2>3. \A p \in Places : p \in s..s+3 => p \notin r..r + 4 * (k-1) + 3
    <3> HIDE DEF s
    <3> QED BY <2>0, <2>1
  <2>4. \A p \in Places : p \in s..s+3 => g[p] = m[p]
    BY <2>3
  <2>5. WordFrom(m, a, vals, g, s, w)
    <3> HIDE DEF g, s
    <3> QED BY <2>4 DEF WordFrom, Overlay
  <2>6. WordStored(m, a, vals, g, s, RegisterStore(g, s, w))
    <3> HIDE DEF g, s, w
    <3> QED BY <2>1, <2>2, <2>5, <2>12, RegisterIs
  <2>7. \A p \in Places : p \in r..r + 4 * k + 3 <=> p \in s..s+3 \/ p \in r..r + 4 * (k-1) + 3
    <3> HIDE DEF s
    <3> QED BY <2>0, <2>1
  <2>8. \A p \in Places : RegisterStore(g, s, w)[p] = Upto(k)[p]
    <3> SUFFICES ASSUME NEW p \in Places PROVE RegisterStore(g, s, w)[p] = Upto(k)[p]
      OBVIOUS
    <3>1. RegisterStore(g, s, w)[p] = IF p \in s..s+3 THEN FlatStore(m, a, vals)[p] ELSE g[p]
      BY <2>6 DEF WordStored
    <3>2. g[p] = IF p \in r..r + 4 * (k-1) + 3 THEN FlatStore(m, a, vals)[p] ELSE m[p]
      OBVIOUS
    <3>3. Upto(k)[p] = IF p \in r..r + 4 * k + 3 THEN FlatStore(m, a, vals)[p] ELSE m[p]
      OBVIOUS
    <3> HIDE DEF g, w, s, Upto
    <3> QED BY <2>7, <3>1, <3>2, <3>3
  <2>9. RegisterStore(g, s, w) = [p \in Places |-> RegisterStore(g, s, w)[p]]
    BY DEF RegisterStore
  <2>10. Upto(k) = [p \in Places |-> Upto(k)[p]]
    OBVIOUS
  <2>11. Next4(Upto(k-1), k) = RegisterStore(g, s, w)
    OBVIOUS
  <2> HIDE DEF g, w, s, Upto, Next4
  <2> QED BY <2>8, <2>9, <2>10, <2>11
<1> DEFINE f0 == [k \in -1..N |-> Upto(k)]
           tower == CHOOSE f : Tower(f)
<1>6. Tower(f0)
  <2>1. \A k \in -1..N : f0[k] = IF k = -1 THEN m ELSE Next4(f0[k-1], k)
    <3> SUFFICES ASSUME NEW k \in -1..N PROVE f0[k] = IF k = -1 THEN m ELSE Next4(f0[k-1], k)
      OBVIOUS
    <3>1. f0[k] = Upto(k)
      OBVIOUS
    <3>2. CASE k = -1
      <4> HIDE DEF Upto, Next4, f0
      <4> QED BY <1>4, <3>1, <3>2
    <3>3. CASE k # -1
      <4>1. k \in 0..N /\ k-1 \in -1..N
        BY <1>3, <3>3
      <4>2. f0[k-1] = Upto(k-1)
        BY <4>1
      <4>3. Next4(Upto(k-1), k) = Upto(k)
        BY <1>5, <4>1
      <4> HIDE DEF Upto, Next4, f0
      <4> QED BY <3>1, <3>3, <4>2, <4>3
    <3> QED BY <3>2, <3>3
  <2>2. f0 = [k \in -1..N |-> f0[k]]
    OBVIOUS
  <2> HIDE DEF Upto, Next4, f0
  <2> QED BY <2>1, <2>2
<1>7. Tower(tower)
  <2> HIDE DEF Tower
  <2> QED BY <1>6
<1> HIDE DEF tower
<1>8. ASSUME NEW k \in -1..N PROVE tower[k] = Upto(k)
  <2> DEFINE bad == {k2 \in 0..N+1 : tower[k2-1] # Upto(k2-1)}
  <2>1. CASE bad = {}
    <3>1. k + 1 \in 0..N+1 /\ (k + 1) - 1 = k
      BY <1>3
    <3>2. tower[(k + 1) - 1] = Upto((k + 1) - 1)
      <4> HIDE DEF Upto
      <4> QED BY <2>1, <3>1
    <3> HIDE DEF Upto
    <3> QED BY <3>1, <3>2
  <2>2. CASE bad # {}
    <3>1. bad \in SUBSET Nat
      BY <1>3
    <3>2. PICK l \in bad : \A y \in bad : l <= y
      <4> HIDE DEF bad
      <4> QED BY <2>2, <3>1, LeastIn
    <3> DEFINE j == l - 1
    <3>3. l \in 0..N+1 /\ l \in Nat /\ j \in -1..N
      BY <1>3, <3>2
    <3>4. tower[j] # Upto(j)
      <4> HIDE DEF Upto
      <4> QED BY <3>2
    <3>5. tower[j] = IF j = -1 THEN m ELSE Next4(tower[j-1], j)
      <4> HIDE DEF Next4, j
      <4> QED BY <1>7, <3>3
    <3>6. CASE j = -1
      <4>1. tower[j] = m /\ Upto(j) = m
        <5> HIDE DEF Next4, Upto, j
        <5> QED BY <1>4, <3>5, <3>6
      <4> HIDE DEF Next4, Upto, j
      <4> QED BY <3>4, <4>1
    <3>7. CASE j # -1
      <4>1. j \in 0..N /\ j \in 0..N+1 /\ j < l
        BY <1>3, <3>3, <3>7
      <4>2. j \notin bad
        <5> HIDE DEF j, bad
        <5> QED BY <3>1, <3>2, <3>3, <4>1
      <4>3. tower[j-1] = Upto(j-1)
        <5> HIDE DEF j, Upto
        <5> QED BY <4>1, <4>2
      <4>4. Next4(Upto(j-1), j) = Upto(j)
        <5> HIDE DEF j, Upto, Next4
        <5> QED BY <1>5, <4>1
      <4> HIDE DEF j, Upto, Next4
      <4> QED BY <3>4, <3>5, <3>7, <4>3, <4>4
    <3> QED BY <3>6, <3>7
  <2> QED BY <2>1, <2>2
<1>9. BlockStoreData(m, a, vals) = tower[N]
  BY DEF BlockStoreData, tower, N, last, r, Tower
<1>10. N \in -1..N
  BY <1>3
<1>11. Upto(N) = FlatStore(m, a, vals)
  <2>1. a..a+n-1 \subseteq r..r + 4 * N + 3
    <3>1. \A p \in a..a+n-1 : p \in r..r + 4 * N + 3
      <4> HIDE DEF n
      <4>1. a + n - 1 <= r + 4 * N + 3 /\ r \in Nat /\ r <= a
        BY <1>1, <1>2, <1>3
      <4> QED BY <1>1, <1>3, <4>1
    <3> QED BY <3>1
  <2>2. \A p \in Places : p \notin r..r + 4 * N + 3 => FlatStore(m, a, vals)[p] = m[p]
    BY <2>1 DEF FlatStore
  <2>3. FlatStore(m, a, vals) = [p \in Places |-> FlatStore(m, a, vals)[p]]
    BY DEF FlatStore
  <2> QED BY <2>2, <2>3
<1> HIDE DEF Upto
<1> QED BY <1>8, <1>9, <1>10, <1>11

-----------------------------------------------------------------------------
LEMMA FlatShape ==
    ASSUME NEW m, NEW a, NEW vals
    PROVE  FlatStore(m, a, vals) = [p \in Places |-> FlatStore(m, a, vals)[p]]
BY DEF FlatStore

(* What a device takes is in one of the three regions.                        *)
LEMMA InSomeRegion ==
    ASSUME NEW a \in Nat, NEW n \in Nat, Inside(a, n), ~IsIn(a, FlashRegion)
    PROVE  \/ IsIn(a, RamRegion) /\ ~IsIn(a, BlockRegion)
           \/ IsIn(a, BlockRegion) /\ ~IsIn(a, RamRegion)
BY MapAssumption DEF Inside, IsIn

LEMMA StoreIInv ==
    ASSUME MapIInv, NEW a \in Tried, NEW vals \in Patterns, Store(a, vals)
    PROVE  MapIInv'
<1>1. a \in Nat /\ Len(vals) \in Nat \ {0}
  BY MapAssumption, EmptySeq
<1>2. scratch' = scratch /\ Inside(a, Len(vals)) /\ ~IsIn(a, FlashRegion)
  BY DEF Store, StoreFaults
<1>3. ASSUME ~overrun', ~odd'
      PROVE  bytes' = flat' /\ flat' = [p \in Places |-> flat'[p]]
  <2>1. ~overrun /\ ~odd /\ bytes = flat /\ flat' = FlatStore(flat, a, vals)
    BY <1>3 DEF Store, MapIInv
  <2>2. CASE IsIn(a, RamRegion) /\ ~IsIn(a, BlockRegion)
    <3>1. bytes' = Overlay(bytes, a, vals)
      BY <2>2 DEF Store
    <3> QED BY <1>1, <1>2, <2>1, <2>2, <3>1, PlainOverlay, FlatShape
  <2>3. CASE IsIn(a, BlockRegion) /\ ~IsIn(a, RamRegion)
    <3>1. bytes' = BlockStore(bytes, a, vals) /\ Len(vals) \in {1, 2, 4}
      BY <2>3 DEF Store
    <3>2. a % Len(vals) = 0 /\ ~PartOf(a, Len(vals))
      BY <1>3, <2>3 DEF Store
    <3>3. BlockStore(bytes, a, vals) = FlatStore(bytes, a, vals)
      BY <1>1, <1>2, <2>3, <3>1, <3>2, AlignedStore
    <3> QED BY <2>1, <3>1, <3>3, FlatShape
  <2> QED BY <1>1, <1>2, <2>2, <2>3, InSomeRegion
<1> QED BY <1>2, <1>3 DEF MapIInv

LEMMA StoreDataIInv ==
    ASSUME MapIInv, NEW a \in Tried, NEW vals \in Patterns, StoreData(a, vals)
    PROVE  MapIInv'
<1>1. a \in Nat /\ Len(vals) \in Nat \ {0}
  BY MapAssumption, EmptySeq
<1>2. scratch' = scratch /\ ~IsIn(a, FlashRegion)
  BY DEF StoreData
<1>3. ASSUME ~overrun', ~odd'
      PROVE  bytes' = flat' /\ flat' = [p \in Places |-> flat'[p]]
  <2>1. ~overrun /\ ~odd /\ flat' = FlatStore(flat, a, vals) /\ Inside(a, Len(vals))
    BY <1>3 DEF StoreData, Counted
  <2>4. bytes = flat /\ flat = [p \in Places |-> flat[p]]
    BY <2>1 DEF MapIInv
  <2>2. CASE IsIn(a, RamRegion) /\ ~IsIn(a, BlockRegion)
    <3>1. bytes' = Overlay(bytes, a, vals)
      BY <2>2 DEF StoreData
    <3> QED BY <1>1, <2>1, <2>2, <2>4, <3>1, PlainOverlay, FlatShape
  <2>3. CASE IsIn(a, BlockRegion) /\ ~IsIn(a, RamRegion)
    <3>1. bytes' = BlockStoreData(bytes, a, vals)
      BY <2>3 DEF StoreData
    <3>2. ~PartOf(a, Len(vals))
      BY <1>3, <2>3 DEF StoreData
    <3>3. BlockStoreData(bytes, a, vals) = FlatStore(bytes, a, vals)
      BY <1>1, <2>1, <2>3, <2>4, <3>2, BlockWords
    <3> QED BY <2>1, <2>4, <3>1, <3>3, FlatShape
  <2> QED BY <1>1, <1>2, <2>1, <2>2, <2>3, InSomeRegion
<1> QED BY <1>2, <1>3 DEF MapIInv

LEMMA ProgramFlashIInv ==
    ASSUME MapIInv, NEW a \in Tried, NEW vals \in Patterns, ProgramFlash(a, vals)
    PROVE  MapIInv'
<1>1. a \in Nat /\ Len(vals) \in Nat \ {0}
  BY MapAssumption, EmptySeq
<1>2. scratch' = scratch /\ Inside(a, Len(vals)) /\ IsIn(a, FlashRegion)
  BY DEF ProgramFlash
<1>3. ASSUME ~overrun', ~odd'
      PROVE  bytes' = flat' /\ flat' = [p \in Places |-> flat'[p]]
  <2>1. bytes = flat
    BY <1>3 DEF ProgramFlash, MapIInv
  <2>2. flat' = [p \in Places |-> IF IsIn(p, FlashRegion) THEN bytes'[p] ELSE flat[p]]
    BY DEF ProgramFlash
  <2>3. bytes' = Overlay([p \in Places |-> IF IsIn(p, FlashRegion) THEN 0 ELSE bytes[p]], a, vals)
    BY DEF ProgramFlash
  <2>4. bytes' = [p \in Places |-> bytes'[p]]
    BY <2>3 DEF Overlay
  <2>5. \A p \in Places : ~IsIn(p, FlashRegion) => bytes'[p] = bytes[p]
    <3> SUFFICES ASSUME NEW p \in Places, ~IsIn(p, FlashRegion) PROVE bytes'[p] = bytes[p]
      OBVIOUS
    <3>1. p \notin a..a+Len(vals)-1
      BY <1>1, <1>2, InsideRegion
    <3> QED BY <2>3, <3>1 DEF Overlay
  <2>6. \A p \in Places : flat'[p] = bytes'[p]
    BY <2>1, <2>2, <2>5
  <2>7. flat' = [p \in Places |-> flat'[p]]
    BY <2>2
  <2> QED BY <2>4, <2>6, <2>7
<1> QED BY <1>2, <1>3 DEF MapIInv

LEMMA LoadDataIInv ==
    ASSUME MapIInv, NEW a \in Tried, NEW n \in 1..6, LoadData(a, n)
    PROVE  MapIInv'
<1>1. DOMAIN scratch' = DOMAIN scratch
  BY DEF LoadData, Refreshed
<1>2. bytes' = bytes /\ flat' = flat /\ odd' = odd /\ ~overrun
  BY DEF LoadData
<1>3. ~overrun' /\ ~odd' => bytes' = flat' /\ flat' = [p \in Places |-> flat'[p]]
  BY <1>2 DEF MapIInv
<1> QED BY <1>1, <1>3 DEF MapIInv

(* Every byte of the devices is what plain byte stores would have made it,    *)
(* loads of every width return just that, and exactly the accesses that leave *)
(* their device fault, up to the exceptions MemoryInv names.                  *)
THEOREM MemorySafe ==
    MapSpec => []MemoryInv
<1>1. MapIInv /\ [MapNext]_mapVars => MapIInv'
  <2> SUFFICES ASSUME MapIInv, [MapNext]_mapVars PROVE MapIInv'
    OBVIOUS
  <2>1. ASSUME NEW a \in Tried, NEW v \in Patterns, Store(a, v) PROVE MapIInv'
    BY <2>1, StoreIInv
  <2>2. ASSUME NEW a \in Tried, NEW v \in Patterns, StoreData(a, v) PROVE MapIInv'
    BY <2>2, StoreDataIInv
  <2>3. ASSUME NEW a \in Tried, NEW v \in Patterns, ProgramFlash(a, v) PROVE MapIInv'
    BY <2>3, ProgramFlashIInv
  <2>4. ASSUME NEW a \in Tried, NEW n \in 1..6, LoadData(a, n) PROVE MapIInv'
    BY <2>4, LoadDataIInv
  <2>5. CASE UNCHANGED mapVars
    <3>1. bytes' = bytes /\ flat' = flat /\ scratch' = scratch /\ overrun' = overrun /\ odd' = odd
      BY <2>5 DEF mapVars
    <3> QED BY <3>1 DEF MapIInv
  <2> QED BY <2>1, <2>2, <2>3, <2>4, <2>5 DEF MapNext
<1> QED BY <1>1, MapInitIInv, MapIInvSuffices, PTL DEF MapSpec
-----------------------------------------------------------------------------
(* The video memory. A recursive sum is what satisfies its equation.          *)
LEMMA LeastIndex == ASSUME NEW S \in SUBSET Nat, S # {} PROVE \E x \in S : \A y \in S : x <= y
<1> DEFINE R == OpToRel(<, Nat)
<1>1. IsWellFoundedOn(R, Nat)
  BY NatLessThanWellFounded
<1>2. \A x, y \in Nat : <<x, y>> \in R <=> x < y
  BY DEF OpToRel
<1> HIDE DEF R
<1>3. PICK x \in S : \A y \in S : ~(<<y, x>> \in R)
  BY <1>1, WFMin
<1>4. ASSUME NEW y \in S PROVE x <= y
  <2>1. x \in Nat /\ y \in Nat /\ ~(<<y, x>> \in R)
    BY <1>3
  <2>2. ~(y < x)
    BY <1>2, <2>1
  <2> QED BY <2>1, <2>2
<1> QED BY <1>4

SumAt(word, at, g, k) ==
    IF k = 0 THEN 0 ELSE g[k-1] + (IF at + k - 1 \in word THEN 2^(k-1) ELSE 0)
Sums(word, at, width, g) == g = [k \in 0..width |-> SumAt(word, at, g, k)]

LEMMA FieldIsSum ==
    ASSUME NEW word, NEW at, NEW width \in Nat, NEW g, Sums(word, at, width, g)
    PROVE  FieldOf(word, at, width) = g[width]
<1> DEFINE h == CHOOSE f : Sums(word, at, width, f)
           bad == {k \in 0..width : g[k] # h[k]}
<1>1. Sums(word, at, width, h)
  OBVIOUS
<1>2. FieldOf(word, at, width) = h[width]
  BY DEF FieldOf, Sums, SumAt
<1> HIDE DEF h
<1>3. bad = {}
  <2> SUFFICES ASSUME bad # {} PROVE FALSE
    OBVIOUS
  <2>1. PICK k \in bad : \A y \in bad : k <= y
    <3>1. bad \in SUBSET Nat
      OBVIOUS
    <3> HIDE DEF bad
    <3> QED BY <3>1, LeastIndex
  <2>2. k \in 0..width /\ g[k] # h[k]
    BY <2>1
  <2>3. g[k] = SumAt(word, at, g, k) /\ h[k] = SumAt(word, at, h, k)
    BY <1>1, <2>2 DEF Sums
  <2>4. k # 0
    BY <2>2, <2>3 DEF SumAt
  <2>5. k - 1 \in 0..width /\ k - 1 \notin bad
    <3>1. k - 1 \in 0..width /\ ~(k <= k - 1)
      BY <2>2, <2>4
    <3> HIDE DEF bad
    <3> QED BY <2>1, <3>1
  <2>6. g[k - 1] = h[k - 1]
    BY <2>5
  <2>7. SumAt(word, at, g, k) = SumAt(word, at, h, k)
    BY <2>6 DEF SumAt
  <2> QED BY <2>2, <2>3, <2>7
<1>4. width \in 0..width /\ width \notin bad
  BY <1>3
<1> QED BY <1>2, <1>4

(* A number by its lowest bits.                                               *)
Bit(n, k) == (n \div 2^k) % 2 = 1
LowerBits(n, k) ==
    /\ n % 2^k \in Nat
    /\ Bit(n, k) => n % 2^(k+1) = (n % 2^k) + 2^k
    /\ ~Bit(n, k) => n % 2^(k+1) = n % 2^k
LEMMA BitByBit == ASSUME NEW n \in Nat PROVE n % 2^0 = 0 /\ \A k \in 0..9 : LowerBits(n, k)
<1>1. n % 2^0 = 0
  OBVIOUS
<1>2. LowerBits(n, 0)
  BY DEF LowerBits, Bit
<1>3. LowerBits(n, 1)
  BY DEF LowerBits, Bit
<1>4. LowerBits(n, 2)
  BY DEF LowerBits, Bit
<1>5. LowerBits(n, 3)
  BY DEF LowerBits, Bit
<1>6. LowerBits(n, 4)
  BY DEF LowerBits, Bit
<1>7. LowerBits(n, 5)
  BY DEF LowerBits, Bit
<1>8. LowerBits(n, 6)
  BY DEF LowerBits, Bit
<1>9. LowerBits(n, 7)
  BY DEF LowerBits, Bit
<1>10. LowerBits(n, 8)
  BY DEF LowerBits, Bit
<1>11. LowerBits(n, 9)
  BY DEF LowerBits, Bit
<1>12. \A k \in 0..9 : k \in {0, 1, 2, 3, 4, 5, 6, 7, 8, 9}
  OBVIOUS
<1> QED BY <1>1, <1>2, <1>3, <1>4, <1>5, <1>6, <1>7, <1>8, <1>9, <1>10, <1>11, <1>12

(* A field that holds the bits of a number reads as the number, modulo.       *)
Modulo(n, width) == n % 2^width
Holds(word, at, width, n) == \A k \in 0..width-1 : at + k \in word <=> Bit(n, k)
LEMMA FieldReads ==
    ASSUME NEW n \in Nat, NEW at \in Nat, NEW width \in 0..10, NEW word, Holds(word, at, width, n)
    PROVE  FieldOf(word, at, width) = Modulo(n, width)
<1> DEFINE g == [k \in 0..width |-> n % 2^k]
<1>1. ASSUME NEW k \in 0..width PROVE g[k] = SumAt(word, at, g, k)
  <2>1. CASE k = 0
    BY <2>1, BitByBit DEF SumAt
  <2>2. CASE k # 0
    <3>1. PICK j : j = k - 1
      OBVIOUS
    <3>2. j \in 0..9 /\ j \in 0..width-1 /\ j \in 0..width /\ k = j + 1 /\ at + k - 1 = at + j
      BY <2>2, <3>1
    <3>3. LowerBits(n, j)
      BY <3>2, BitByBit
    <3>4. at + j \in word <=> Bit(n, j)
      BY <3>2 DEF Holds
    <3>5. g[k] = n % 2^(j + 1) /\ g[j] = n % 2^j
      BY <3>2
    <3> HIDE DEF g
    <3>6. SumAt(word, at, g, k) = g[j] + (IF at + j \in word THEN 2^j ELSE 0)
      BY <2>2, <3>1, <3>2 DEF SumAt
    <3> QED BY <3>3, <3>4, <3>5, <3>6 DEF LowerBits
  <2> QED BY <2>1, <2>2
<1>2. g = [k \in 0..width |-> g[k]]
  OBVIOUS
<1>3. g[width] = n % 2^width
  OBVIOUS
<1> HIDE DEF g
<1>4. Sums(word, at, width, g)
  BY <1>1, <1>2 DEF Sums
<1>5. width \in Nat
  OBVIOUS
<1> QED BY <1>3, <1>4, <1>5, FieldIsSum DEF Modulo

(* The words of the controls. Fields at other places do not disturb one.      *)
LEMMA BitsAre ==
    ASSUME NEW n \in Nat, NEW at \in Nat, NEW width \in Nat
    PROVE  /\ Bits(n, at, width) \subseteq at..at+width-1
           /\ \A k \in 0..width-1 : at + k \in Bits(n, at, width) <=> Bit(n, k)
<1>1. \A k \in 0..width-1 : at + k \in Bits(n, at, width) <=> Bit(n, k)
  <2> SUFFICES ASSUME NEW k \in 0..width-1 PROVE at + k \in Bits(n, at, width) <=> Bit(n, k)
    OBVIOUS
  <2>1. \A j \in 0..width-1 : at + j = at + k <=> j = k
    OBVIOUS
  <2> QED BY <2>1 DEF Bits, Bit
<1>2. Bits(n, at, width) \subseteq at..at+width-1
  <2>1. \A k \in 0..width-1 : at + k \in at..at+width-1
    OBVIOUS
  <2> QED BY <2>1 DEF Bits
<1> QED BY <1>1, <1>2

Beside(other, at, width) == \A k \in 0..width-1 : at + k \notin other
LEMMA HeldBeside ==
    ASSUME NEW n \in Nat, NEW at \in Nat, NEW width \in 0..10, NEW other, Beside(other, at, width)
    PROVE  /\ Holds(Bits(n, at, width) \cup other, at, width, n)
           /\ FieldOf(Bits(n, at, width) \cup other, at, width) = Modulo(n, width)
<1>1. Holds(Bits(n, at, width) \cup other, at, width, n)
  <2> SUFFICES ASSUME NEW k \in 0..width-1
               PROVE  at + k \in Bits(n, at, width) \cup other <=> Bit(n, k)
    BY DEF Holds
  <2>1. at + k \in Bits(n, at, width) <=> Bit(n, k)
    BY BitsAre
  <2>2. at + k \notin other
    BY DEF Beside
  <2> QED BY <2>1, <2>2
<1>2. FieldOf(Bits(n, at, width) \cup other, at, width) = Modulo(n, width)
  BY <1>1, FieldReads
<1> QED BY <1>1, <1>2

(* What the library takes apart of the coordinates and the sizes is what the  *)
(* controller puts together.                                                  *)
SpriteKinds == {"large", "small"}
LEMMA MarginsAre ==
    ASSUME NEW kind \in Kinds
    PROVE  Margin[kind][1] \in 1..512 /\ Margin[kind][2] \in 1..288 /\ YBits[kind] \in 9..10
BY DEF Kinds, Margin, YBits, ScreenWidth, ScreenHeight

LEMMA KindsAre ==
    /\ \A kind \in SpriteKinds : /\ SizeBits[kind] \in 4..5 /\ Smallest[kind] \in Nat
                                 /\ Margin[kind][1] = Margin[kind][2]
                                 /\ YBits[kind] = 9
    /\ Kinds = SpriteKinds \cup {"background"} /\ "background" \notin SpriteKinds
    /\ YBits["background"] = 10 /\ Margin["background"] = <<512, 288>>
BY DEF Kinds, SpriteKinds, Margin, YBits, SizeBits, Smallest, ScreenWidth, ScreenHeight

LEMMA SizesFit ==
    ASSUME NEW kind \in SpriteKinds, NEW w, NEW h, Fits(kind, w, h)
    PROVE  /\ SizeBits[kind] \in 4..5
           /\ w - Smallest[kind] \in Nat /\ Modulo(w - Smallest[kind], SizeBits[kind]) = w - Smallest[kind]
           /\ h - Smallest[kind] \in Nat /\ Modulo(h - Smallest[kind], SizeBits[kind]) = h - Smallest[kind]
<1>1. w \in Smallest[kind]..Margin[kind][1] /\ h \in Smallest[kind]..Margin[kind][1]
  BY DEF Fits, SpriteKinds
<1>2. CASE kind = "large"
  <2>1. Smallest[kind] = 33 /\ Margin[kind][1] = 64 /\ SizeBits[kind] = 5
    BY <1>2 DEF Smallest, Margin, SizeBits
  <2>2. w \in 33..64 /\ h \in 33..64
    BY <1>1, <2>1
  <2>3. \A v \in 33..64 : v - 33 \in Nat /\ Modulo(v - 33, 5) = v - 33
    BY DEF Modulo
  <2> QED BY <2>1, <2>2, <2>3
<1>3. CASE kind = "small"
  <2>1. Smallest[kind] = 1 /\ Margin[kind][1] = 16 /\ SizeBits[kind] = 4
    BY <1>3 DEF Smallest, Margin, SizeBits
  <2>2. w \in 1..16 /\ h \in 1..16
    BY <1>1, <2>1
  <2>3. \A v \in 1..16 : v - 1 \in Nat /\ Modulo(v - 1, 4) = v - 1
    BY DEF Modulo
  <2> QED BY <2>1, <2>2, <2>3
<1> QED BY <1>2, <1>3 DEF SpriteKinds

(* The fields one by one: s is the number of bits of a size.                  *)
SpriteWord(mx, my, dw, dh, s) ==
    Bits(mx, 2, 10) \cup Bits(my, 12, 9) \cup (Bits(dw, 21, s) \cup Bits(dh, 21 + s, s))
LEMMA FourFields ==
    ASSUME NEW mx \in Nat, NEW my \in Nat, NEW dw \in Nat, NEW dh \in Nat, NEW s \in 4..5
    PROVE  LET word == SpriteWord(mx, my, dw, dh, s) IN
           /\ FieldOf(word, 2, 10) = Modulo(mx, 10) /\ FieldOf(word, 12, 9) = Modulo(my, 9)
           /\ FieldOf(word, 21, s) = Modulo(dw, s) /\ FieldOf(word, 21 + s, s) = Modulo(dh, s)
<1> DEFINE A == Bits(mx, 2, 10)
           B == Bits(my, 12, 9)
           C == Bits(dw, 21, s)
           D == Bits(dh, 21 + s, s)
           word == A \cup B \cup (C \cup D)
<1>1. A \subseteq 2..11
  <2>1. A \subseteq 2..2+10-1
    BY BitsAre
  <2> QED BY <2>1
<1>2. B \subseteq 12..20
  <2>1. B \subseteq 12..12+9-1
    BY BitsAre
  <2> QED BY <2>1
<1>3. C \subseteq 21..21+s-1
  BY BitsAre
<1>4. D \subseteq 21+s..21+s+s-1
  <2>1. 21 + s \in Nat /\ s \in Nat
    OBVIOUS
  <2> QED BY <2>1, BitsAre
<1> HIDE DEF A, B, C, D
<1>5. /\ Beside(B \cup C \cup D, 2, 10) /\ Beside(A \cup C \cup D, 12, 9)
      /\ Beside(A \cup B \cup D, 21, s) /\ Beside(A \cup B \cup C, 21 + s, s)
  <2>1. Beside(B \cup C \cup D, 2, 10)
    BY <1>2, <1>3, <1>4 DEF Beside
  <2>2. Beside(A \cup C \cup D, 12, 9)
    BY <1>1, <1>3, <1>4 DEF Beside
  <2>3. Beside(A \cup B \cup D, 21, s)
    BY <1>1, <1>2, <1>4 DEF Beside
  <2>4. Beside(A \cup B \cup C, 21 + s, s)
    BY <1>1, <1>2, <1>3 DEF Beside
  <2> QED BY <2>1, <2>2, <2>3, <2>4
<1>6. /\ word = A \cup (B \cup C \cup D) /\ word = B \cup (A \cup C \cup D)
      /\ word = C \cup (A \cup B \cup D) /\ word = D \cup (A \cup B \cup C)
  OBVIOUS
<1>7. 10 \in 0..10 /\ 9 \in 0..10 /\ s \in 0..10 /\ 2 \in Nat /\ 12 \in Nat /\ 21 \in Nat /\ 21 + s \in Nat
  OBVIOUS
<1> HIDE DEF word
<1>8. FieldOf(word, 2, 10) = Modulo(mx, 10)
  BY <1>5, <1>6, <1>7, HeldBeside DEF A
<1>9. FieldOf(word, 12, 9) = Modulo(my, 9)
  BY <1>5, <1>6, <1>7, HeldBeside DEF B
<1>10. FieldOf(word, 21, s) = Modulo(dw, s)
  BY <1>5, <1>6, <1>7, HeldBeside DEF C
<1>11. FieldOf(word, 21 + s, s) = Modulo(dh, s)
  BY <1>5, <1>6, <1>7, HeldBeside DEF D
<1> QED BY <1>8, <1>9, <1>10, <1>11 DEF SpriteWord, word, A, B, C, D

LEMMA TwoFields ==
    ASSUME NEW mx \in Nat, NEW my \in Nat
    PROVE  LET word == Bits(mx, 2, 10) \cup Bits(my, 12, 10) \cup {} IN
           FieldOf(word, 2, 10) = Modulo(mx, 10) /\ FieldOf(word, 12, 10) = Modulo(my, 10)
<1> DEFINE A == Bits(mx, 2, 10)
           B == Bits(my, 12, 10)
           word == A \cup B \cup {}
<1>1. A \subseteq 2..11
  <2>1. A \subseteq 2..2+10-1
    BY BitsAre
  <2> QED BY <2>1
<1>2. B \subseteq 12..21
  <2>1. B \subseteq 12..12+10-1
    BY BitsAre
  <2> QED BY <2>1
<1> HIDE DEF A, B
<1>3. Beside(B, 2, 10) /\ Beside(A, 12, 10)
  BY <1>1, <1>2 DEF Beside
<1>4. word = A \cup B /\ word = B \cup A
  OBVIOUS
<1>5. 10 \in 0..10 /\ 2 \in Nat /\ 12 \in Nat
  OBVIOUS
<1> HIDE DEF word
<1>6. FieldOf(word, 2, 10) = Modulo(mx, 10)
  BY <1>3, <1>4, <1>5, HeldBeside DEF A
<1>7. FieldOf(word, 12, 10) = Modulo(my, 10)
  BY <1>3, <1>4, <1>5, HeldBeside DEF B
<1> QED BY <1>6, <1>7 DEF word, A, B

LEMMA PackedReads ==
    ASSUME NEW kind \in Kinds, NEW x \in Int, NEW y \in Int, NEW w, NEW h, Fits(kind, w, h)
    PROVE  LET word == Packed(kind, x, y, w, h) IN
           /\ XOffset(word) = (x + Margin[kind][1]) % 1024
           /\ YOffset(kind, word) = Modulo((y + Margin[kind][2]) % 1024, YBits[kind])
           /\ kind # "background" =>
                 /\ FieldOf(word, 21, SizeBits[kind]) = w - Smallest[kind]
                 /\ FieldOf(word, 21 + SizeBits[kind], SizeBits[kind]) = h - Smallest[kind]
<1>0. PICK a \in 1..512, b \in 1..288 : a = Margin[kind][1] /\ b = Margin[kind][2]
  <2> DEFINE p == Margin[kind][1]
             q == Margin[kind][2]
  <2>1. p \in 1..512 /\ q \in 1..288
    BY MarginsAre
  <2> HIDE DEF p, q
  <2>2. \E a \in 1..512, b \in 1..288 : a = p /\ b = q
    BY <2>1
  <2> QED BY <2>2 DEF p, q
<1> DEFINE word == Packed(kind, x, y, w, h)
           mx == (x + a) % 1024
           my == (y + b) % 1024
           dw == w - Smallest[kind]
           dh == h - Smallest[kind]
           s == SizeBits[kind]
<1>1. mx \in Nat /\ my \in Nat /\ Modulo(mx, 10) = mx
  <2>2. \A v \in Int : v % 1024 \in 0..1023
    OBVIOUS
  <2>3. mx \in 0..1023 /\ my \in 0..1023
    BY <2>2
  <2>4. \A v \in 0..1023 : Modulo(v, 10) = v
    BY DEF Modulo
  <2> HIDE DEF mx, my
  <2> QED BY <2>3, <2>4
<1>2. CASE kind = "background"
  <2>1. word = Bits(mx, 2, 10) \cup Bits(my, 12, 10) \cup {} /\ YBits[kind] = 10
    BY <1>0, <1>2, KindsAre DEF Packed
  <2> HIDE DEF word, mx, my
  <2>2. FieldOf(word, 2, 10) = Modulo(mx, 10) /\ FieldOf(word, 12, 10) = Modulo(my, 10)
    BY <1>1, <2>1, TwoFields
  <2> QED BY <1>0, <1>1, <1>2, <2>1, <2>2 DEF XOffset, YOffset, word, mx, my
<1>3. CASE kind # "background"
  <2>0. kind \in SpriteKinds
    BY <1>3, KindsAre
  <2>1. word = SpriteWord(mx, my, dw, dh, s) /\ YBits[kind] = 9
    BY <1>0, <1>3, <2>0, KindsAre DEF Packed, SpriteWord
  <2>2. dw \in Nat /\ dh \in Nat /\ s \in 4..5 /\ Modulo(dw, s) = dw /\ Modulo(dh, s) = dh
    BY <2>0, SizesFit
  <2> HIDE DEF word, mx, my, dw, dh, s
  <2>3. /\ FieldOf(word, 2, 10) = Modulo(mx, 10) /\ FieldOf(word, 12, 9) = Modulo(my, 9)
        /\ FieldOf(word, 21, s) = Modulo(dw, s) /\ FieldOf(word, 21 + s, s) = Modulo(dh, s)
    BY <1>1, <2>1, <2>2, FourFields
  <2> QED BY <1>0, <1>1, <1>3, <2>1, <2>2, <2>3 DEF XOffset, YOffset, word, mx, my, dw, dh, s
<1> QED BY <1>2, <1>3

(* The two layouts of the video memory.                                       *)
Begins == << 0, \hB4000, \hF4000, \hFC000, \hFD000, \hFE000, \hFE800, \hFF100, \hFF114, \hFF214, \hFF414 >>
AreaIs(i, kind, size, count, start) ==
    Areas[i].kind = kind /\ Areas[i].size = size /\ Areas[i].count = count /\ Begins[i] = start
LEMMA AreasAre ==
    /\ Len(Areas) = 11 /\ DOMAIN Areas = 1..11
    /\ AreaIs(1, "backgroundImage", 147456, 5, 0)
    /\ AreaIs(2, "largeImage", 4096, 64, 737280)
    /\ AreaIs(3, "smallImage", 256, 128, 999424)
    /\ AreaIs(4, "backgroundPalette", 1024, 4, 1032192)
    /\ AreaIs(5, "spritePalette", 1024, 4, 1036288)
    /\ AreaIs(6, "font", 8, 256, 1040384)
    /\ AreaIs(7, "text", 64, 36, 1042432)
    /\ AreaIs(8, "background", 4, 5, 1044736)
    /\ AreaIs(9, "large", 4, 64, 1044756)
    /\ AreaIs(10, "small", 4, 128, 1045012)
    /\ AreaIs(11, "mode", 4, 1, 1045524)
BY DEF AreaIs, Areas, Area, Begins, ScreenWidth, ScreenHeight, LineCount

LEMMA NumberIs ==
    ASSUME NEW j \in 1..11, NEW kind, NEW size, NEW count, NEW start, AreaIs(j, kind, size, count, start)
    PROVE  NumberOf(kind) = j
<1>1. \A i \in 1..11 : Areas[i].kind = kind => i = j
  BY AreasAre DEF AreaIs
<1>2. j \in DOMAIN Areas /\ Areas[j].kind = kind
  BY AreasAre DEF AreaIs
<1> QED BY <1>1, <1>2, AreasAre DEF NumberOf

StartAt(g, i) == IF i = 1 THEN 0 ELSE g[i-1] + Areas[i-1].size * Areas[i-1].count
Starts(g) == g = [i \in 1..Len(Areas) |-> StartAt(g, i)]
LEMMA StartIs == \A i \in 1..11 : Start[i] = Begins[i]
<1>1. Len(Areas) = 11
  BY AreasAre
<1>2. \A i \in 1..11 : Begins[i] = StartAt(Begins, i)
  <2>1. Begins[1] = StartAt(Begins, 1)
    BY AreasAre DEF AreaIs, StartAt
  <2>2. Begins[2] = StartAt(Begins, 2)
    BY AreasAre DEF AreaIs, StartAt
  <2>3. Begins[3] = StartAt(Begins, 3)
    BY AreasAre DEF AreaIs, StartAt
  <2>4. Begins[4] = StartAt(Begins, 4)
    BY AreasAre DEF AreaIs, StartAt
  <2>5. Begins[5] = StartAt(Begins, 5)
    BY AreasAre DEF AreaIs, StartAt
  <2>6. Begins[6] = StartAt(Begins, 6)
    BY AreasAre DEF AreaIs, StartAt
  <2>7. Begins[7] = StartAt(Begins, 7)
    BY AreasAre DEF AreaIs, StartAt
  <2>8. Begins[8] = StartAt(Begins, 8)
    BY AreasAre DEF AreaIs, StartAt
  <2>9. Begins[9] = StartAt(Begins, 9)
    BY AreasAre DEF AreaIs, StartAt
  <2>10. Begins[10] = StartAt(Begins, 10)
    BY AreasAre DEF AreaIs, StartAt
  <2>11. Begins[11] = StartAt(Begins, 11)
    BY AreasAre DEF AreaIs, StartAt
  <2>12. \A i \in 1..11 : i \in {1, 2, 3, 4, 5, 6, 7, 8, 9, 10, 11}
    OBVIOUS
  <2> QED BY <2>1, <2>2, <2>3, <2>4, <2>5, <2>6, <2>7, <2>8, <2>9, <2>10, <2>11, <2>12
<1>3. Starts([i \in 1..11 |-> Begins[i]])
  <2> DEFINE g == [i \in 1..11 |-> Begins[i]]
  <2>1. \A i \in 1..11 : StartAt(g, i) = StartAt(Begins, i)
    BY DEF StartAt
  <2> QED BY <1>1, <1>2, <2>1 DEF Starts
<1>4. Start = CHOOSE g : Starts(g)
  BY DEF Start, Starts, StartAt
<1>5. Starts(Start)
  BY <1>3, <1>4
<1>6. \A i \in 1..11 : Start[i] = StartAt(Start, i)
  BY <1>1, <1>5 DEF Starts
<1> DEFINE bad == {i \in 1..11 : Start[i] # Begins[i]}
<1>7. bad = {}
  <2> SUFFICES ASSUME bad # {} PROVE FALSE
    OBVIOUS
  <2>1. PICK k \in bad : \A y \in bad : k <= y
    <3>1. bad \in SUBSET Nat
      OBVIOUS
    <3> HIDE DEF bad
    <3> QED BY <3>1, LeastIndex
  <2>2. k \in 1..11 /\ Start[k] # Begins[k]
    BY <2>1
  <2>3. Start[k] = StartAt(Start, k) /\ Begins[k] = StartAt(Begins, k)
    BY <1>2, <1>6, <2>2
  <2>4. k # 1
    BY <2>2, <2>3 DEF StartAt
  <2>5. k - 1 \in 1..11 /\ k - 1 \notin bad
    <3>1. k - 1 \in 1..11 /\ ~(k <= k - 1)
      BY <2>2, <2>4
    <3> HIDE DEF bad
    <3> QED BY <2>1, <3>1
  <2>6. Start[k - 1] = Begins[k - 1]
    BY <2>5
  <2>7. StartAt(Start, k) = StartAt(Begins, k)
    BY <2>6 DEF StartAt
  <2> QED BY <2>2, <2>3, <2>7
<1> QED BY <1>7

PlacedAt(kind, size, count, start) ==
    /\ \A idx \in Nat : PlaceOf(kind, idx) = start + idx * size
    /\ \A idx \in Nat : Exists(kind, idx) <=> idx < count
LEMMA PlaceIs ==
    ASSUME NEW j \in 1..11, NEW kind, NEW size, NEW count, NEW start, AreaIs(j, kind, size, count, start)
    PROVE  PlacedAt(kind, size, count, start)
<1>1. NumberOf(kind) = j
  BY NumberIs
<1>2. Start[j] = start /\ Areas[j].size = size /\ Areas[j].count = count
  BY StartIs DEF AreaIs
<1> QED BY <1>1, <1>2 DEF PlacedAt, PlaceOf, Exists

LEMMA AreaPlaces ==
    /\ PlacedAt("backgroundImage", 147456, 5, 0) /\ PlacedAt("largeImage", 4096, 64, 737280)
    /\ PlacedAt("smallImage", 256, 128, 999424) /\ PlacedAt("backgroundPalette", 1024, 4, 1032192)
    /\ PlacedAt("spritePalette", 1024, 4, 1036288) /\ PlacedAt("text", 64, 36, 1042432)
    /\ PlacedAt("background", 4, 5, 1044736) /\ PlacedAt("large", 4, 64, 1044756)
    /\ PlacedAt("small", 4, 128, 1045012) /\ PlacedAt("mode", 4, 1, 1045524)
<1>1. PlacedAt("backgroundImage", 147456, 5, 0)
  BY AreasAre, PlaceIs
<1>2. PlacedAt("largeImage", 4096, 64, 737280)
  BY AreasAre, PlaceIs
<1>3. PlacedAt("smallImage", 256, 128, 999424)
  BY AreasAre, PlaceIs
<1>4. PlacedAt("backgroundPalette", 1024, 4, 1032192)
  BY AreasAre, PlaceIs
<1>5. PlacedAt("spritePalette", 1024, 4, 1036288)
  BY AreasAre, PlaceIs
<1>6. PlacedAt("text", 64, 36, 1042432)
  BY AreasAre, PlaceIs
<1>7. PlacedAt("background", 4, 5, 1044736)
  BY AreasAre, PlaceIs
<1>8. PlacedAt("large", 4, 64, 1044756)
  BY AreasAre, PlaceIs
<1>9. PlacedAt("small", 4, 128, 1045012)
  BY AreasAre, PlaceIs
<1>10. PlacedAt("mode", 4, 1, 1045524)
  BY AreasAre, PlaceIs
<1> QED BY <1>1, <1>2, <1>3, <1>4, <1>5, <1>6, <1>7, <1>8, <1>9, <1>10

(* Where the library writes a thing is where the controller looks for it.     *)
LEMMA LayoutsAgree ==
    ASSUME NEW kind \in DOMAIN HandleBase, NEW idx \in Nat
    PROVE  /\ Handle(kind, idx) = PlaceOf(kind, idx)
           /\ PlaceOf(kind, idx) \in Nat
           /\ kind \in DOMAIN MemSize => PlaceOf(kind, idx + 1) = PlaceOf(kind, idx) + MemSize[kind]
<1>1. kind \in {"backgroundImage", "largeImage", "smallImage", "backgroundPalette", "spritePalette", "text",
                "background", "large", "small", "mode"}
  BY DEF HandleBase
<1>2. idx + 1 \in Nat
  OBVIOUS
<1>3. ASSUME NEW size \in Nat, NEW count, NEW start \in Nat, PlacedAt(kind, size, count, start),
             HandleBase[kind] = start, size = IF kind \in DOMAIN MemSize THEN MemSize[kind] ELSE 4
      PROVE  /\ Handle(kind, idx) = PlaceOf(kind, idx) /\ PlaceOf(kind, idx) \in Nat
             /\ kind \in DOMAIN MemSize => PlaceOf(kind, idx + 1) = PlaceOf(kind, idx) + MemSize[kind]
  <2>1. PlaceOf(kind, idx) = start + idx * size /\ PlaceOf(kind, idx + 1) = start + (idx + 1) * size
    BY <1>2, <1>3 DEF PlacedAt
  <2>2. Handle(kind, idx) = start + idx * size
    BY <1>3 DEF Handle
  <2>3. (idx + 1) * size = idx * size + size /\ idx * size \in Nat
    <3>1. \A m, n \in Nat : (m + 1) * n = m * n + n /\ m * n \in Nat
      OBVIOUS
    <3> QED BY <1>3, <3>1
  <2> QED BY <1>3, <2>1, <2>2, <2>3
<1>4. CASE kind = "backgroundImage"
  <2>1. HandleBase[kind] = 0 /\ 147456 = IF kind \in DOMAIN MemSize THEN MemSize[kind] ELSE 4
    BY <1>4 DEF HandleBase, MemSize
  <2> QED BY <1>3, <1>4, <2>1, AreaPlaces
<1>5. CASE kind = "largeImage"
  <2>1. HandleBase[kind] = 737280 /\ 4096 = IF kind \in DOMAIN MemSize THEN MemSize[kind] ELSE 4
    BY <1>5 DEF HandleBase, MemSize
  <2> QED BY <1>3, <1>5, <2>1, AreaPlaces
<1>6. CASE kind = "smallImage"
  <2>1. HandleBase[kind] = 999424 /\ 256 = IF kind \in DOMAIN MemSize THEN MemSize[kind] ELSE 4
    BY <1>6 DEF HandleBase, MemSize
  <2> QED BY <1>3, <1>6, <2>1, AreaPlaces
<1>7. CASE kind = "backgroundPalette"
  <2>1. HandleBase[kind] = 1032192 /\ 1024 = IF kind \in DOMAIN MemSize THEN MemSize[kind] ELSE 4
    BY <1>7 DEF HandleBase, MemSize
  <2> QED BY <1>3, <1>7, <2>1, AreaPlaces
<1>8. CASE kind = "spritePalette"
  <2>1. HandleBase[kind] = 1036288 /\ 1024 = IF kind \in DOMAIN MemSize THEN MemSize[kind] ELSE 4
    BY <1>8 DEF HandleBase, MemSize
  <2> QED BY <1>3, <1>8, <2>1, AreaPlaces
<1>9. CASE kind = "text"
  <2>1. HandleBase[kind] = 1042432 /\ 64 = IF kind \in DOMAIN MemSize THEN MemSize[kind] ELSE 4
    BY <1>9 DEF HandleBase, MemSize
  <2> QED BY <1>3, <1>9, <2>1, AreaPlaces
<1>10. CASE kind = "background"
  <2>1. HandleBase[kind] = 1044736 /\ 4 = IF kind \in DOMAIN MemSize THEN MemSize[kind] ELSE 4
    BY <1>10 DEF HandleBase, MemSize
  <2> QED BY <1>3, <1>10, <2>1, AreaPlaces
<1>11. CASE kind = "large"
  <2>1. HandleBase[kind] = 1044756 /\ 4 = IF kind \in DOMAIN MemSize THEN MemSize[kind] ELSE 4
    BY <1>11 DEF HandleBase, MemSize
  <2> QED BY <1>3, <1>11, <2>1, AreaPlaces
<1>12. CASE kind = "small"
  <2>1. HandleBase[kind] = 1045012 /\ 4 = IF kind \in DOMAIN MemSize THEN MemSize[kind] ELSE 4
    BY <1>12 DEF HandleBase, MemSize
  <2> QED BY <1>3, <1>12, <2>1, AreaPlaces
<1>13. CASE kind = "mode"
  <2>1. HandleBase[kind] = 1045524 /\ 4 = IF kind \in DOMAIN MemSize THEN MemSize[kind] ELSE 4
    BY <1>13 DEF HandleBase, MemSize
  <2> QED BY <1>3, <1>13, <2>1, AreaPlaces
<1> QED BY <1>1, <1>4, <1>5, <1>6, <1>7, <1>8, <1>9, <1>10, <1>11, <1>12, <1>13

-----------------------------------------------------------------------------
(* A control is drawn where it was asked for, if it is seen at all.           *)
LEMMA BoxReads ==
    ASSUME NEW kind \in Kinds, NEW x \in Int, NEW y \in Int, NEW w, NEW h, Fits(kind, w, h),
           InRange(kind, x, y)
    PROVE  LET word == Packed(kind, x, y, w, h) IN
           <<X(kind, word), Y(kind, word), W(kind, word), H(kind, word)>> = BoxOf(kind, <<x, y, w, h>>)
<1> DEFINE word == Packed(kind, x, y, w, h)
<1>1. PICK a \in 1..512, b \in 1..288 : a = Margin[kind][1] /\ b = Margin[kind][2]
  <2> DEFINE p == Margin[kind][1]
             q == Margin[kind][2]
  <2>1. p \in 1..512 /\ q \in 1..288
    BY MarginsAre
  <2> HIDE DEF p, q
  <2>2. \E a \in 1..512, b \in 1..288 : a = p /\ b = q
    BY <2>1
  <2> QED BY <2>2 DEF p, q
<1>2. PICK s \in 9..10 : s = YBits[kind]
  BY MarginsAre
<1>3. /\ XOffset(word) = (x + a) % 1024 /\ YOffset(kind, word) = Modulo((y + b) % 1024, s)
      /\ kind # "background" => /\ FieldOf(word, 21, SizeBits[kind]) = w - Smallest[kind]
                                /\ FieldOf(word, 21 + SizeBits[kind], SizeBits[kind]) = h - Smallest[kind]
  BY <1>1, <1>2, PackedReads
<1> HIDE DEF word
<1>4. x + a \in 0..1023 /\ y + b \in 0..2^s-1
  BY <1>1, <1>2 DEF InRange
<1>5. (x + a) % 1024 = x + a /\ Modulo((y + b) % 1024, s) = y + b
  <2>1. \A v \in 0..1023 : v % 1024 = v
    OBVIOUS
  <2>2. s = 9 \/ s = 10
    OBVIOUS
  <2>3. CASE s = 9
    <3>1. \A v \in 0..511 : v % 1024 = v /\ v % 2^9 = v
      OBVIOUS
    <3>2. y + b \in 0..511
      BY <1>4, <2>3
    <3> QED BY <1>4, <2>1, <2>3, <3>1, <3>2 DEF Modulo
  <2>4. CASE s = 10
    <3>1. \A v \in 0..1023 : v % 2^10 = v
      OBVIOUS
    <3>2. y + b \in 0..1023
      BY <1>4, <2>4
    <3> QED BY <1>4, <2>1, <2>4, <3>1, <3>2 DEF Modulo
  <2> QED BY <2>2, <2>3, <2>4
<1>6. X(kind, word) = x /\ Y(kind, word) = y
  BY <1>1, <1>3, <1>5 DEF X, Y
<1>7. <<X(kind, word), Y(kind, word), W(kind, word), H(kind, word)>> = BoxOf(kind, <<x, y, w, h>>)
  <2>1. CASE kind = "background"
    BY <1>6, <2>1 DEF W, H, BoxOf
  <2>2. CASE kind # "background"
    <3>1. kind \in SpriteKinds
      BY <2>2, KindsAre
    <3>2. /\ Smallest[kind] \in Nat
          /\ w \in Smallest[kind]..Margin[kind][1] /\ h \in Smallest[kind]..Margin[kind][1]
      BY <2>2, <3>1, KindsAre DEF Fits
    <3>3. w \in Int /\ h \in Int
      BY <3>2
    <3>4. W(kind, word) = w /\ H(kind, word) = h
      BY <1>3, <2>2, <3>2, <3>3 DEF W, H, Extent
    <3> QED BY <1>6, <2>2, <3>4 DEF BoxOf
  <2> QED BY <2>1, <2>2
<1> QED BY <1>7 DEF word

LEMMA SeenWhenAsked ==
    ASSUME NEW kind \in Kinds, NEW x \in Int, NEW y \in Int, NEW w, NEW h, Fits(kind, w, h),
           Visible(BoxOf(kind, <<x, y, w, h>>))
    PROVE  PartOnScreen(kind, Packed(kind, x, y, w, h))
<1> DEFINE word == Packed(kind, x, y, w, h)
<1>1. PICK a \in 1..512, b \in 1..288 : a = Margin[kind][1] /\ b = Margin[kind][2]
  <2> DEFINE p == Margin[kind][1]
             q == Margin[kind][2]
  <2>1. p \in 1..512 /\ q \in 1..288
    BY MarginsAre
  <2> HIDE DEF p, q
  <2>2. \E a \in 1..512, b \in 1..288 : a = p /\ b = q
    BY <2>1
  <2> QED BY <2>2 DEF p, q
<1>2. PICK s \in 9..10 : s = YBits[kind]
  BY MarginsAre
<1>3. XOffset(word) = (x + a) % 1024 /\ YOffset(kind, word) = Modulo((y + b) % 1024, s)
  BY <1>1, <1>2, PackedReads
<1> HIDE DEF word
<1>4. x < 512 /\ x > -a /\ y < 288 /\ y > -b /\ a + 511 <= 1023 /\ b + 287 < 2^s
  <2>1. CASE kind = "background"
    <3>1. BoxOf(kind, <<x, y, w, h>>) = <<x, y, 512, 288>>
      BY <2>1 DEF BoxOf, ScreenWidth, ScreenHeight
    <3>2. a = 512 /\ b = 288 /\ s = 10
      BY <1>1, <1>2, <2>1, KindsAre
    <3>3. x < 512 /\ x + 512 > 0 /\ y < 288 /\ y + 288 > 0
      BY <3>1 DEF Visible, ScreenWidth, ScreenHeight
    <3> QED BY <3>2, <3>3
  <2>2. CASE kind # "background"
    <3>1. kind \in SpriteKinds /\ BoxOf(kind, <<x, y, w, h>>) = <<x, y, w, h>>
      BY <2>2, KindsAre DEF BoxOf
    <3>2. x < 512 /\ x + w > 0 /\ y < 288 /\ y + h > 0
      BY <3>1 DEF Visible, ScreenWidth, ScreenHeight
    <3>3. a = b /\ a \in {64, 16} /\ s = 9
      BY <1>1, <1>2, <3>1 DEF SpriteKinds, Margin, YBits
    <3>4. w \in Smallest[kind]..a /\ h \in Smallest[kind]..a /\ Smallest[kind] \in Nat
      BY <1>1, <2>2, <3>1, KindsAre DEF Fits
    <3>5. w \in Int /\ w <= a /\ h \in Int /\ h <= a
      BY <3>4
    <3> QED BY <3>2, <3>3, <3>5
  <2> QED BY <2>1, <2>2
<1>5. x + a \in 1..1023 /\ y + b \in 1..2^s-1 /\ x + a < 512 + a /\ y + b < 288 + b
  <2>1. s = 9 \/ s = 10
    OBVIOUS
  <2> QED BY <1>4, <2>1
<1>6. XOffset(word) = x + a /\ YOffset(kind, word) = y + b
  <2>1. \A v \in 1..1023 : v % 1024 = v
    OBVIOUS
  <2>2. s = 9 \/ s = 10
    OBVIOUS
  <2>3. CASE s = 9
    <3>1. \A v \in 1..511 : v % 1024 = v /\ v % 2^9 = v
      OBVIOUS
    <3>2. y + b \in 1..511
      BY <1>5, <2>3
    <3> QED BY <1>3, <1>5, <2>1, <2>3, <3>1, <3>2 DEF Modulo
  <2>4. CASE s = 10
    <3>1. \A v \in 1..1023 : v % 2^10 = v
      OBVIOUS
    <3>2. y + b \in 1..1023
      BY <1>5, <2>4
    <3> QED BY <1>3, <1>5, <2>1, <2>4, <3>1, <3>2 DEF Modulo
  <2> QED BY <2>2, <2>3, <2>4
<1>7. PartOnScreen(kind, word)
  <2>1. PICK u, v : u = x + a /\ v = y + b
    OBVIOUS
  <2>2. u # 0 /\ v # 0 /\ u < 512 + a /\ v < 288 + b
    BY <1>5, <2>1
  <2>3. XOffset(word) = u /\ YOffset(kind, word) = v
    BY <1>6, <2>1
  <2> QED BY <1>1, <2>2, <2>3 DEF PartOnScreen, ScreenWidth, ScreenHeight
<1> QED BY <1>7 DEF word

-----------------------------------------------------------------------------
(* Each word holds what its last call asked, at the place of that call; the   *)
(* controller is at a word that was asked for; a line holds what was printed. *)
ModePlace == PlaceOf("mode", 0)
IsPlacing(call, spot) ==
    /\ call.kind \in Kinds /\ call.idx \in Nat /\ spot = PlaceOf(call.kind, call.idx)
    /\ \E x, y \in Int, w, h \in Extents :
          /\ Fits(call.kind, w, h) /\ call.box = <<x, y, w, h>>
          /\ words[spot] = Packed(call.kind, x, y, w, h)
ControlsAsked ==
    /\ DOMAIN words = DOMAIN asked \cup {ModePlace}
    /\ \A spot \in DOMAIN asked :
          \/ asked[spot].kind = "mode" /\ asked[spot].idx = 0 /\ spot = ModePlace
          \/ IsPlacing(asked[spot], spot)
DrawingThere == drawing # Nothing => drawing.kind \in Kinds /\ drawing.place \in DOMAIN asked
DrawnRight ==
    drawn # Nothing /\ drawn.calm /\ drawn.by.kind = drawn.kind
        /\ InRange(drawn.by.kind, drawn.by.box[1], drawn.by.box[2])
        => drawn.box = BoxOf(drawn.by.kind, drawn.by.box)
BlockRight ==
    block # Nothing /\ Exists(block.kind, block.idx) =>
        /\ block.first = PlaceOf(block.kind, block.idx)
        /\ block.first + block.len <= PlaceOf(block.kind, block.idx + 1)
LineShows(line, texts) ==
    \A c \in 1..LineWidth-1 :
        /\ (\A i \in DOMAIN texts : Len(texts[i]) < c) => line[c] = 0
        /\ texts # <<>> /\ c <= Len(texts[Len(texts)]) => line[c] = texts[Len(texts)][c]
LinesRight ==
    /\ textLines \in [0..1 -> [1..LineWidth -> Nat]] /\ printed \in [0..1 -> Seq(Texts)]
    /\ \A l \in 0..1 : LineShows(textLines[l], printed[l])
VideoInductive == ControlsAsked /\ DrawingThere /\ DrawnRight /\ BlockRight /\ LinesRight

LEMMA KindsHaveHandles ==
    /\ Kinds \cup {"mode"} \subseteq DOMAIN HandleBase /\ "mode" \notin Kinds
    /\ DOMAIN MemSize \subseteq DOMAIN HandleBase
BY DEF Kinds, HandleBase, MemSize

LEMMA VideoStarts == VideoInit => VideoInductive
<1> SUFFICES ASSUME VideoInit PROVE VideoInductive
  OBVIOUS
<1>1. ControlsAsked
  <2>1. DOMAIN asked = {}
    BY DEF VideoInit
  <2>2. \A word : DOMAIN ModeOnly(word) = {ModePlace}
    BY DEF ModeOnly, ModePlace
  <2> QED BY <2>1, <2>2 DEF VideoInit, ControlsAsked
<1>2. LinesRight
  <2>1. Blank \in [0..1 -> [1..LineWidth -> Nat]]
    BY DEF Blank
  <2>2. [l \in 0..1 |-> <<>>] \in [0..1 -> Seq(Texts)]
    OBVIOUS
  <2>3. \A l \in 0..1 : LineShows(Blank[l], <<>>)
    BY VideoAssumption DEF Blank, LineShows
  <2> QED BY <2>1, <2>2, <2>3 DEF LinesRight, VideoInit
<1> QED BY <1>1, <1>2 DEF VideoInductive, VideoInit, DrawingThere, DrawnRight, BlockRight

(* A store into a control: the call that is written down is the one it holds. *)
LEMMA AskedStays ==
    ASSUME ControlsAsked, DrawingThere, NEW spot, NEW word, NEW call,
           words' = With(words, spot, word), asked' = With(asked, spot, call), UNCHANGED drawing,
           \/ call.kind = "mode" /\ call.idx = 0 /\ spot = ModePlace
           \/ /\ call.kind \in Kinds /\ call.idx \in Nat /\ spot = PlaceOf(call.kind, call.idx)
              /\ \E x, y \in Int, w, h \in Extents :
                    /\ Fits(call.kind, w, h) /\ call.box = <<x, y, w, h>>
                    /\ word = Packed(call.kind, x, y, w, h)
    PROVE  ControlsAsked' /\ DrawingThere'
<1>1. /\ DOMAIN words' = DOMAIN words \cup {spot} /\ words'[spot] = word
      /\ \A x \in DOMAIN words : x # spot => words'[x] = words[x]
  <2>1. words' = With(words, spot, word)
    OBVIOUS
  <2> QED BY <2>1 DEF With
<1>2. /\ DOMAIN asked' = DOMAIN asked \cup {spot} /\ asked'[spot] = call
      /\ \A x \in DOMAIN asked : x # spot => asked'[x] = asked[x]
  <2>1. asked' = With(asked, spot, call)
    OBVIOUS
  <2> QED BY <2>1 DEF With
<1>3. DOMAIN words' = DOMAIN asked' \cup {ModePlace}
  BY <1>1, <1>2 DEF ControlsAsked
<1>4. ASSUME NEW p \in DOMAIN asked'
      PROVE  \/ asked'[p].kind = "mode" /\ asked'[p].idx = 0 /\ p = ModePlace
             \/ IsPlacing(asked[p], p)'
  <2>1. CASE p = spot
    <3>1. asked'[p] = call /\ words'[p] = word
      BY <1>1, <1>2, <2>1
    <3> QED BY <2>1, <3>1 DEF IsPlacing
  <2>2. CASE p # spot
    <3>1. p \in DOMAIN asked /\ p \in DOMAIN words /\ asked'[p] = asked[p] /\ words'[p] = words[p]
      BY <1>1, <1>2, <2>2 DEF ControlsAsked
    <3>2. \/ asked[p].kind = "mode" /\ asked[p].idx = 0 /\ p = ModePlace
          \/ IsPlacing(asked[p], p)
      BY <3>1 DEF ControlsAsked
    <3> QED BY <3>1, <3>2 DEF IsPlacing
  <2> QED BY <2>1, <2>2
<1>5. ControlsAsked'
  BY <1>3, <1>4 DEF ControlsAsked, ModePlace
<1>6. DrawingThere'
  BY <1>2 DEF DrawingThere
<1> QED BY <1>5, <1>6

LEMMA SetControlKeeps ==
    ASSUME VideoInductive, NEW kind \in Kinds, NEW idx \in Indexes, NEW p \in Positions,
           NEW w \in Extents, NEW h \in Extents, Fits(kind, w, h), SetControl(kind, idx, p[1], p[2], w, h)
    PROVE  VideoInductive'
<1>1. PICK x \in Int, y \in Int : x = p[1] /\ y = p[2]
  BY VideoAssumption
<1>2. idx \in Nat
  BY VideoAssumption
<1> DEFINE spot == Handle(kind, idx)
           word == Packed(kind, x, y, w, h)
           call == [kind |-> kind, idx |-> idx, box |-> <<x, y, w, h>>]
<1>3. spot = PlaceOf(kind, idx)
  BY <1>2, LayoutsAgree, KindsHaveHandles
<1>4. words' = With(words, spot, word) /\ asked' = With(asked, spot, call)
      /\ UNCHANGED <<block, textLines, printed, drawing, drawn>>
  BY <1>1 DEF SetControl
<1>5. call.kind = kind /\ call.idx = idx /\ call.box = <<x, y, w, h>>
  OBVIOUS
<1> HIDE DEF spot, word, call
<1>6. ControlsAsked' /\ DrawingThere'
  <2>1. \E x1, y1 \in Int, w1, h1 \in Extents :
            /\ Fits(call.kind, w1, h1) /\ call.box = <<x1, y1, w1, h1>>
            /\ word = Packed(call.kind, x1, y1, w1, h1)
    BY <1>5 DEF word
  <2>2. call.kind \in Kinds /\ call.idx \in Nat /\ spot = PlaceOf(call.kind, call.idx)
    BY <1>2, <1>3, <1>5
  <2> QED BY <1>4, <2>1, <2>2, AskedStays DEF VideoInductive
<1> QED BY <1>4, <1>6 DEF VideoInductive, DrawnRight, BlockRight, LinesRight

LEMMA SetModeKeeps ==
    ASSUME VideoInductive, NEW mode, SetDisplayMode(mode)
    PROVE  VideoInductive'
<1> DEFINE spot == Handle("mode", 0)
           word == Bits(mode % 2, 0, 1)
           call == [kind |-> "mode", idx |-> 0]
<1>1. spot = ModePlace
  BY LayoutsAgree, KindsHaveHandles DEF ModePlace
<1>2. words' = With(words, spot, word) /\ asked' = With(asked, spot, call)
      /\ UNCHANGED <<block, textLines, printed, drawing, drawn>>
  BY DEF SetDisplayMode
<1>3. call.kind = "mode" /\ call.idx = 0
  OBVIOUS
<1> HIDE DEF spot, word, call
<1>4. ControlsAsked' /\ DrawingThere'
  BY <1>1, <1>2, <1>3, AskedStays DEF VideoInductive
<1> QED BY <1>2, <1>4 DEF VideoInductive, DrawnRight, BlockRight, LinesRight

LEMMA WriteKeeps ==
    ASSUME VideoInductive, NEW kind \in DOMAIN MemSize, NEW idx \in Indexes,
           WriteIndexed(kind, idx, MemSize[kind])
    PROVE  VideoInductive'
<1>1. UNCHANGED <<words, asked, textLines, printed, drawing, drawn>>
  BY DEF WriteIndexed
<1>2. /\ block'.kind = kind /\ block'.idx = idx /\ block'.first = Handle(kind, idx)
      /\ block'.len = MemSize[kind]
  BY DEF WriteIndexed
<1>3. /\ Handle(kind, idx) = PlaceOf(kind, idx) /\ PlaceOf(kind, idx) \in Nat
      /\ PlaceOf(kind, idx + 1) = PlaceOf(kind, idx) + MemSize[kind]
  BY VideoAssumption, LayoutsAgree, KindsHaveHandles
<1>4. MemSize[kind] \in Nat
  BY DEF MemSize
<1>5. PlaceOf(kind, idx) + MemSize[kind] <= PlaceOf(kind, idx) + MemSize[kind]
  BY <1>3, <1>4
<1>6. BlockRight'
  BY <1>2, <1>3, <1>5 DEF BlockRight
<1>7. ControlsAsked' /\ DrawingThere' /\ DrawnRight' /\ LinesRight'
  BY <1>1 DEF VideoInductive, ControlsAsked, IsPlacing, DrawingThere, DrawnRight, LinesRight, ModePlace
<1> QED BY <1>6, <1>7 DEF VideoInductive

LEMMA PrintKeeps ==
    ASSUME VideoInductive, NEW l \in 0..1, NEW text \in Texts, LinePrintf(l, text)
    PROVE  VideoInductive'
<1> USE DEF VideoInductive
<1>1. /\ textLines' = [textLines EXCEPT ![l] = Copied(textLines[l], text)]
      /\ printed' = [printed EXCEPT ![l] = Append(printed[l], text)]
      /\ UNCHANGED <<words, asked, block, drawing, drawn>>
  BY DEF LinePrintf
<1>2. /\ textLines \in [0..1 -> [1..LineWidth -> Nat]] /\ printed \in [0..1 -> Seq(Texts)]
      /\ \A i \in 0..1 : LineShows(textLines[i], printed[i])
  BY DEF LinesRight
<1>3. text \in Seq(Nat) /\ Len(text) \in Nat /\ \A c \in 1..Len(text) : text[c] \in Nat
  <2>1. text \in Seq(Nat)
    BY VideoAssumption
  <2> QED BY <2>1
<1>4. LineWidth \in Nat /\ LineWidth >= 1
  BY VideoAssumption
<1> DEFINE line == textLines[l]
           made == Copied(line, text)
           texts == printed[l]
           more == Append(texts, text)
<1>5. line \in [1..LineWidth -> Nat] /\ texts \in Seq(Texts) /\ LineShows(line, texts)
  BY <1>2
<1> HIDE DEF line, texts
<1>6. made \in [1..LineWidth -> Nat]
  <2>1. ASSUME NEW c \in 1..LineWidth
        PROVE  (IF c <= Len(text) THEN Buffer(text, c) ELSE line[c]) \in Nat
    BY <1>3, <1>4, <1>5 DEF Buffer
  <2> QED BY <2>1 DEF Copied
<1>7. /\ more \in Seq(Texts) /\ Len(more) = Len(texts) + 1 /\ more # <<>> /\ more[Len(more)] = text
      /\ DOMAIN texts = 1..Len(texts) /\ DOMAIN more = 1..Len(texts)+1 /\ Len(texts) \in Nat
      /\ \A i \in 1..Len(texts) : more[i] = texts[i]
  BY <1>5
<1> HIDE DEF more
<1>8. LineShows(made, more)
  <2> SUFFICES ASSUME NEW c \in 1..LineWidth-1
               PROVE  /\ (\A i \in DOMAIN more : Len(more[i]) < c) => made[c] = 0
                      /\ more # <<>> /\ c <= Len(more[Len(more)]) => made[c] = more[Len(more)][c]
    BY DEF LineShows
  <2>1. c \in 1..LineWidth /\ c < LineWidth
    BY <1>4
  <2>2. made[c] = IF c <= Len(text) THEN text[c] ELSE line[c]
    BY <2>1 DEF Copied, Buffer
  <2> HIDE DEF made
  <2>3. ASSUME \A i \in DOMAIN more : Len(more[i]) < c PROVE made[c] = 0
    <3>1. Len(text) < c
      <4>1. Len(more) \in DOMAIN more
        BY <1>7
      <4> QED BY <1>7, <2>3, <4>1
    <3>2. \A i \in DOMAIN texts : Len(texts[i]) < c
      <4>1. \A i \in 1..Len(texts) : i \in 1..Len(texts)+1
        BY <1>7
      <4> QED BY <1>7, <2>3, <4>1
    <3>3. line[c] = 0
      BY <1>5, <3>2 DEF LineShows
    <3>4. ~(c <= Len(text))
      BY <1>3, <2>1, <3>1
    <3> QED BY <2>2, <3>3, <3>4
  <2>4. c <= Len(more[Len(more)]) => made[c] = more[Len(more)][c]
    BY <1>7, <2>2
  <2> QED BY <2>3, <2>4
<1>9. LinesRight'
  <2>1. textLines' \in [0..1 -> [1..LineWidth -> Nat]] /\ printed' \in [0..1 -> Seq(Texts)]
    BY <1>1, <1>2, <1>6, <1>7 DEF line, more, texts
  <2>2. ASSUME NEW i \in 0..1 PROVE LineShows(textLines'[i], printed'[i])
    <3>1. CASE i = l
      <4>1. textLines'[i] = made /\ printed'[i] = more
        BY <1>1, <1>2, <3>1 DEF line, more, texts
      <4> QED BY <1>8, <4>1
    <3>2. CASE i # l
      <4>1. textLines'[i] = textLines[i] /\ printed'[i] = printed[i]
        BY <1>1, <1>2, <3>2
      <4> QED BY <1>2, <4>1
    <3> QED BY <3>1, <3>2
  <2> QED BY <2>1, <2>2 DEF LinesRight, LineShows
<1>10. ControlsAsked' /\ DrawingThere' /\ DrawnRight' /\ BlockRight'
  BY <1>1 DEF ControlsAsked, IsPlacing, DrawingThere, DrawnRight, BlockRight, ModePlace
<1> QED BY <1>9, <1>10

LEMMA LookKeeps ==
    ASSUME VideoInductive, NEW kind \in Kinds, NEW idx \in Indexes, LookAt(kind, idx)
    PROVE  VideoInductive'
<1>1. UNCHANGED <<words, asked, block, textLines, printed, drawn>>
  BY DEF LookAt
<1>2. drawing'.kind = kind /\ drawing'.place = PlaceOf(kind, idx)
  BY DEF LookAt
<1>3. PlaceOf(kind, idx) \in DOMAIN words /\ Exists(kind, idx)
  BY DEF LookAt
<1>4. PlaceOf(kind, idx) # ModePlace
  <2>1. idx \in Nat
    BY VideoAssumption
  <2>2. ModePlace = 1045524
    BY AreaPlaces DEF PlacedAt, ModePlace
  <2>3. CASE kind = "background"
    <3>1. PlaceOf(kind, idx) = 1044736 + idx * 4 /\ idx < 5
      BY <1>3, <2>1, <2>3, AreaPlaces DEF PlacedAt
    <3> QED BY <2>1, <2>2, <3>1
  <2>4. CASE kind = "large"
    <3>1. PlaceOf(kind, idx) = 1044756 + idx * 4 /\ idx < 64
      BY <1>3, <2>1, <2>4, AreaPlaces DEF PlacedAt
    <3> QED BY <2>1, <2>2, <3>1
  <2>5. CASE kind = "small"
    <3>1. PlaceOf(kind, idx) = 1045012 + idx * 4 /\ idx < 128
      BY <1>3, <2>1, <2>5, AreaPlaces DEF PlacedAt
    <3> QED BY <2>1, <2>2, <3>1
  <2> QED BY <2>3, <2>4, <2>5 DEF Kinds
<1>5. DrawingThere'
  BY <1>1, <1>2, <1>3, <1>4 DEF VideoInductive, ControlsAsked, DrawingThere
<1>6. ControlsAsked' /\ DrawnRight' /\ BlockRight' /\ LinesRight'
  BY <1>1 DEF VideoInductive, ControlsAsked, IsPlacing, DrawnRight, BlockRight, LinesRight, ModePlace
<1> QED BY <1>5, <1>6 DEF VideoInductive

LEMMA DrawKeeps ==
    ASSUME VideoInductive, Draw
    PROVE  VideoInductive'
<1>1. UNCHANGED <<words, asked, block, textLines, printed>> /\ drawing' = Nothing
  BY DEF Draw
<1> DEFINE kind == drawing.kind
           spot == drawing.place
           sight == {drawing.word, words[spot]}
           call == asked[spot]
           word == words[spot]
<1>2. kind \in Kinds /\ spot \in DOMAIN asked
  BY DEF Draw, VideoInductive, DrawingThere
<1>3. PICK wx \in sight, wy \in sight, ww \in sight, wh \in sight :
          drawn' = [kind |-> kind, by |-> call, calm |-> sight = {drawing.word},
                    box |-> <<X(kind, wx), Y(kind, wy), W(kind, ww), H(kind, wh)>>]
  BY DEF Draw
<1>4. /\ drawn'.kind = kind /\ drawn'.by = call /\ (drawn'.calm => sight = {drawing.word})
      /\ drawn'.box = <<X(kind, wx), Y(kind, wy), W(kind, ww), H(kind, wh)>>
  BY <1>3
<1>5. DrawnRight'
  <2> SUFFICES ASSUME drawn'.calm, drawn'.by.kind = drawn'.kind,
                      InRange(drawn'.by.kind, drawn'.by.box[1], drawn'.by.box[2])
               PROVE  drawn'.box = BoxOf(drawn'.by.kind, drawn'.by.box)
    BY DEF DrawnRight
  <2>1. wx = word /\ wy = word /\ ww = word /\ wh = word
    BY <1>4
  <2>2. call.kind = kind /\ InRange(kind, call.box[1], call.box[2])
    BY <1>4
  <2>3. IsPlacing(call, spot)
    BY <1>2, <2>2, KindsHaveHandles DEF VideoInductive, ControlsAsked
  <2> HIDE DEF kind, spot, sight, call, word
  <2>4. PICK x \in Int, y \in Int, w \in Extents, h \in Extents :
            Fits(kind, w, h) /\ call.box = <<x, y, w, h>> /\ word = Packed(kind, x, y, w, h)
    BY <2>2, <2>3 DEF IsPlacing, word
  <2>5. InRange(kind, x, y)
    BY <2>2, <2>4
  <2>6. <<X(kind, word), Y(kind, word), W(kind, word), H(kind, word)>> = BoxOf(kind, <<x, y, w, h>>)
    BY <1>2, <2>4, <2>5, BoxReads
  <2> QED BY <1>4, <2>1, <2>2, <2>4, <2>6
<1>6. DrawingThere'
  BY <1>1 DEF DrawingThere
<1>7. ControlsAsked' /\ BlockRight' /\ LinesRight'
  BY <1>1 DEF VideoInductive, ControlsAsked, IsPlacing, BlockRight, LinesRight, ModePlace
<1> QED BY <1>5, <1>6, <1>7 DEF VideoInductive

LEMMA ResetVideoKeeps ==
    ASSUME ResetVideo
    PROVE  VideoInductive'
<1>1. ControlsAsked'
  <2>1. DOMAIN asked' = {}
    BY DEF ResetVideo
  <2>2. DOMAIN ModeOnly({}) = {ModePlace}
    BY DEF ModeOnly, ModePlace
  <2>3. DOMAIN words' = {ModePlace}
    BY <2>2 DEF ResetVideo
  <2> QED BY <2>1, <2>3 DEF ControlsAsked, ModePlace
<1>2. LinesRight'
  <2>1. Blank \in [0..1 -> [1..LineWidth -> Nat]]
    BY DEF Blank
  <2>2. [l \in 0..1 |-> <<>>] \in [0..1 -> Seq(Texts)]
    OBVIOUS
  <2>3. \A l \in 0..1 : LineShows(Blank[l], <<>>)
    BY VideoAssumption DEF Blank, LineShows
  <2> QED BY <2>1, <2>2, <2>3 DEF LinesRight, ResetVideo, LineShows
<1>3. DrawingThere' /\ DrawnRight' /\ BlockRight'
  BY DEF ResetVideo, DrawingThere, DrawnRight, BlockRight
<1> QED BY <1>1, <1>2, <1>3 DEF VideoInductive

LEMMA VideoStutters ==
    ASSUME VideoInductive, UNCHANGED videoVars
    PROVE  VideoInductive'
<1>1. UNCHANGED <<words, asked, block, textLines, printed, drawing, drawn>>
  BY DEF videoVars
<1>2. ControlsAsked'
  BY <1>1 DEF VideoInductive, ControlsAsked, IsPlacing, ModePlace
<1>3. DrawingThere' /\ DrawnRight' /\ BlockRight' /\ LinesRight'
  BY <1>1 DEF VideoInductive, DrawingThere, DrawnRight, BlockRight, LinesRight
<1> QED BY <1>2, <1>3 DEF VideoInductive

LEMMA VideoPromises == VideoInductive => PictureInv
<1> SUFFICES ASSUME VideoInductive PROVE PictureInv
  OBVIOUS
<1> USE DEF VideoInductive
<1>1. DrawnWhereAsked
  <2>1. ASSUME NEW kind \in Kinds, NEW idx \in Indexes, PlaceOf(kind, idx) \in DOMAIN asked,
               asked[PlaceOf(kind, idx)].kind = kind, Visible(BoxOf(kind, asked[PlaceOf(kind, idx)].box))
        PROVE  PartOnScreen(kind, words[PlaceOf(kind, idx)])
    <3> DEFINE spot == PlaceOf(kind, idx)
               call == asked[spot]
    <3>1. IsPlacing(call, spot)
      BY <2>1, KindsHaveHandles DEF ControlsAsked
    <3>2. call.kind = kind /\ Visible(BoxOf(kind, call.box))
      BY <2>1
    <3> HIDE DEF spot, call
    <3>3. PICK x \in Int, y \in Int, w \in Extents, h \in Extents :
              Fits(kind, w, h) /\ call.box = <<x, y, w, h>> /\ words[spot] = Packed(kind, x, y, w, h)
      BY <3>1, <3>2 DEF IsPlacing
    <3>4. PartOnScreen(kind, words[spot])
      BY <3>2, <3>3, SeenWhenAsked
    <3> QED BY <3>4 DEF spot
  <2> QED BY <2>1 DEF DrawnWhereAsked, DrawnRight
<1>2. InItsOwnPlace
  <2>1. ASSUME NEW spot \in DOMAIN asked PROVE spot = PlaceOf(asked[spot].kind, asked[spot].idx)
    BY DEF ControlsAsked, IsPlacing, ModePlace
  <2> QED BY <2>1 DEF InItsOwnPlace, BlockRight
<1>3. LineShowsText
  BY DEF LineShowsText, LinesRight, LineShows
<1> QED BY <1>1, <1>2, <1>3 DEF PictureInv

(* Whatever the program asks the library for, at whatever moments the         *)
(* controller looks and draws: what is drawn while its control is left alone  *)
(* is where and as large as it was asked for, nothing asked on the screen is  *)
(* left out, no write goes to another thing than the one it is for, and a     *)
(* line shows the text last printed on it.                                    *)
THEOREM PictureSafe == VideoSpec => []PictureInv
<1>1. VideoInit => VideoInductive
  BY VideoStarts
<1>2. VideoInductive /\ [VideoNext]_videoVars => VideoInductive'
  <2> SUFFICES ASSUME VideoInductive, [VideoNext]_videoVars PROVE VideoInductive'
    OBVIOUS
  <2>1. ASSUME NEW kind \in Kinds, NEW idx \in Indexes, NEW p \in Positions, NEW w \in Extents,
               NEW h \in Extents, Fits(kind, w, h), SetControl(kind, idx, p[1], p[2], w, h)
        PROVE  VideoInductive'
    BY <2>1, SetControlKeeps
  <2>2. ASSUME NEW kind \in DOMAIN MemSize, NEW idx \in Indexes, WriteIndexed(kind, idx, MemSize[kind])
        PROVE  VideoInductive'
    BY <2>2, WriteKeeps
  <2>3. ASSUME NEW l \in 0..1, NEW text \in Texts, LinePrintf(l, text) PROVE VideoInductive'
    BY <2>3, PrintKeeps
  <2>4. ASSUME NEW kind \in Kinds, NEW idx \in Indexes, LookAt(kind, idx) PROVE VideoInductive'
    BY <2>4, LookKeeps
  <2>5. ASSUME NEW mode \in 0..1, SetDisplayMode(mode) PROVE VideoInductive'
    BY <2>5, SetModeKeeps
  <2>6. CASE Draw
    BY <2>6, DrawKeeps
  <2>7. CASE ResetVideo
    BY <2>7, ResetVideoKeeps
  <2>8. CASE UNCHANGED videoVars
    BY <2>8, VideoStutters
  <2> HIDE DEF VideoInductive
  <2> QED BY <2>1, <2>2, <2>3, <2>4, <2>5, <2>6, <2>7, <2>8 DEF VideoNext
<1>3. VideoInductive => PictureInv
  BY VideoPromises
<1> QED BY <1>1, <1>2, <1>3, PTL DEF VideoSpec
=============================================================================
