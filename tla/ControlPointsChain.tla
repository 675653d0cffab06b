------------------------- MODULE ControlPointsChain -------------------------
(***************************************************************************)
(* How points change hands: the win, captures, and the chain of points of  *)
(* a linear map, for every value of the constants.                         *)
(***************************************************************************)
EXTENDS ControlPointsProofs

-----------------------------------------------------------------------------
(***************************************************************************)
(* The win.                                                                *)
(***************************************************************************)

\* The map does not begin with a round that is won already.
Undecided == TeamOwnsAllPoints(DefaultOwner) \notin MayWin

WinInv ==
    "master" \notin MapInputs =>
        ~disabled /\ (phase # "won" => TeamOwnsAllPoints(owner) \notin MayWin)

LEMMA WinDeclared ==
  ASSUME NEW i \in Points, NEW t \in Owners, WinInv, InternalSetOwner(i, t), UNCHANGED disabled
  PROVE  WinInv'
  BY DEF WinInv, InternalSetOwner, CheckWinConditions, SetWinningTeam

LEMMA NothingDeclared ==
  ASSUME WinInv, UNCHANGED <<owner, disabled>>, phase = "won" => phase' = "won"
  PROVE  WinInv'
  BY DEF WinInv

LEMMA OutcomeWins ==
  ASSUME TypeOK, WinInv, NEW i \in Points, NEW s \in AreaStates, NEW ins,
         ThinkOutcome(i, s, ins), UNCHANGED disabled
  PROVE  WinInv'
  <1>1. \/ UNCHANGED <<owner, phase>>
        \/ s.team \in Owners /\ InternalSetOwner(i, s.team)
    BY DEF ThinkOutcome, CaptureCompletes, round, AreaStates
  <1>2. QED BY <1>1, WinDeclared, NothingDeclared

LEMMA StepWins == ASSUME Undecided PROVE TypeOK /\ WinInv /\ [Next]_vars => WinInv'
  <1> SUFFICES ASSUME TypeOK, WinInv, [Next]_vars PROVE WinInv'
    OBVIOUS
  <1>0. area \in [Points -> AreaStates] BY DEF TypeOK
  <1>1. ASSUME NEW p \in Players, NEW i \in Points, StartTouch(p, i) PROVE WinInv'
    <2>1. [area[i] EXCEPT !.owning = owner[i]] \in AreaStates BY DEF TypeOK, AreaStates
    <2>2. QED BY <1>1, <2>1, ThinkHasOutcome, OutcomeWins DEF StartTouch
  <1>2. ASSUME NEW i \in Points, Think(i) PROVE WinInv'
    BY <1>0, <1>2, ThinkHasOutcome, OutcomeWins DEF Think
  <1>3. ASSUME NEW p \in Players,
               EndTouch(p) \/ AreaTouch(p) \/ Die(p) \/ Respawn(p) \/ ChangeCondition(p)
        PROVE  WinInv'
    BY <1>3, NothingDeclared
       DEF EndTouch, AreaTouch, Die, Respawn, ChangeCondition, points, round
  <1>4. CASE CPMThink
    BY <1>4, NothingDeclared DEF CPMThink, CheckWinConditions, SetWinningTeam, points
  <1>5. ASSUME NEW i \in Points, NEW t \in Owners, InputSetOwner(i, t) PROVE WinInv'
    BY <1>5, WinDeclared DEF InputSetOwner
  <1>6. ASSUME NEW i \in Points, InputReset(i) PROVE WinInv'
    BY <1>6, WinDeclared, PointAssumption DEF InputReset
  <1>7. ASSUME NEW i \in Points, InputCaptureCurrentCP(i) PROVE WinInv'
    <2>1. area[i].team \in Owners BY <1>0 DEF AreaStates
    <2>2. \/ UNCHANGED <<owner, phase>>
          \/ InternalSetOwner(i, area[i].team)
      BY <1>7 DEF InputCaptureCurrentCP, EndCapture, round
    <2>3. QED BY <1>7, <2>1, <2>2, WinDeclared, NothingDeclared DEF InputCaptureCurrentCP
  <1>8. ASSUME NEW i \in Points, InputSetLocked(i) PROVE WinInv'
    BY <1>8, NothingDeclared DEF InputSetLocked, round
  <1>9. ASSUME NEW t \in Teams, InputSetWinner(t) PROVE WinInv'
    BY <1>9, NothingDeclared DEF InputSetWinner, SetWinningTeam, points
  <1>10. CASE InputEnableDisable
    BY <1>10 DEF InputEnableDisable, WinInv
  <1>11. CASE RoundRespawn
    BY <1>11 DEF RoundRespawn, WinInv, Undecided
  <1>12. CASE OpenPoints \/ ClosePoints \/ \E t \in Owners : WonElsewhere(t)
    BY <1>12, NothingDeclared DEF OpenPoints, ClosePoints, WonElsewhere, SetWinningTeam, points
  <1>13. CASE UNCHANGED vars BY <1>13, NothingDeclared DEF vars, points, round
  <1>14. CASE MapSteps
    BY <1>5, <1>6, <1>7, <1>8, <1>9, <1>10, <1>14 DEF MapSteps
  <1>15. CASE RoundSteps
    BY <1>11, <1>12, <1>15 DEF RoundSteps
  <1>16. QED BY <1>1, <1>2, <1>3, <1>4, <1>13, <1>14, <1>15 DEF Next, PlayerSteps

\* On a map whose default owners decide nothing, a win by the owners of the
\* points is never left to a later think of CTeamControlPointMaster.
THEOREM NoWinPendingAlways == ASSUME Undecided PROVE Spec => []NoWinPending
  <1>1. Init => WinInv BY Undecided DEF Init, WinInv, Undecided
  <1>2. TypeOK /\ WinInv /\ [Next]_vars => WinInv' BY StepWins
  <1>3. WinInv => NoWinPending BY DEF WinInv, NoWinPending
  <1>4. QED BY <1>1, <1>2, <1>3, ControlPointsTypeCorrect, PTL DEF Spec

\* Every point is in the one group that decides the win.
SameGroup == \A i, j \in Points : GroupOf[i] = GroupOf[j]

\* Points of one group that no team owns all of are no win.
LEMMA NotAllOwned ==
  ASSUME SameGroup, NEW own, \A t \in Teams : \E i \in Points : own[i] # t
  PROVE  TeamOwnsAllPoints(own) = None
  <1> DEFINE groups == {GroupOf[i] : i \in Points}
             held == {h \in groups : GroupOwner(own, h) # None}
  <1>1. ASSUME NEW h \in groups PROVE GroupOwner(own, h) = None
    <2>1. \A i \in Points : GroupOf[i] = h BY <1>1 DEF SameGroup
    <2>2. ~\E t \in Teams : \A i \in Points : GroupOf[i] = h => own[i] = t BY <2>1
    <2>3. QED BY <2>2 DEF GroupOwner
  <1>2. held = {} BY <1>1
  <1>3. QED BY <1>2 DEF TeamOwnsAllPoints

\* A map that resets points makes them neutral, and has one group of them.
ResetsToNeutral == "reset" \in MapInputs => SameGroup /\ \A i \in Points : DefaultOwner[i] = None

\* What the master has fired is the win of this round.
FiredIsWinner == fired \subseteq (IF phase = "won" THEN {winner} ELSE {})

LEMMA FiresForWinner ==
  ASSUME FiredIsWinner, phase # "won", NEW own, CheckWinConditions(own)
  PROVE  FiredIsWinner'
  <1>1. fired = {} BY DEF FiredIsWinner
  <1>2. CASE ~disabled /\ TeamOwnsAllPoints(own) \in MayWin
    BY <1>1, <1>2 DEF CheckWinConditions, SetWinningTeam, FiredIsWinner
  <1>3. CASE ~(~disabled /\ TeamOwnsAllPoints(own) \in MayWin)
    BY <1>1, <1>3 DEF CheckWinConditions, FiredIsWinner
  <1>4. QED BY <1>2, <1>3

LEMMA FiresNothing ==
  ASSUME FiredIsWinner, UNCHANGED fired, phase = "won" => UNCHANGED <<phase, winner>>
  PROVE  FiredIsWinner'
  <1>1. CASE phase = "won" BY <1>1 DEF FiredIsWinner
  <1>2. CASE phase # "won" BY <1>2 DEF FiredIsWinner
  <1>3. QED BY <1>1, <1>2

\* A reset point is nobody's, so that the win is not found in resetting it, also
\* when the round is won already and the master would fire for another team.
LEMMA ResetFires ==
  ASSUME TypeOK, FiredIsWinner, ResetsToNeutral, NEW i \in Points, InputReset(i)
  PROVE  FiredIsWinner'
  <1>1. SameGroup /\ DefaultOwner[i] = None /\ InternalSetOwner(i, None)
    BY DEF InputReset, ResetsToNeutral
  <1>2. owner'[i] = None BY <1>1 DEF InternalSetOwner, TypeOK
  <1>3. \A t \in Teams : owner'[i] # t BY <1>2, TeamAssumption
  <1>4. TeamOwnsAllPoints(owner') \notin MayWin
    BY <1>1, <1>3, NotAllOwned, TeamAssumption, PointAssumption
  <1>5. UNCHANGED <<phase, winner, fired>>
    BY <1>1, <1>4 DEF InternalSetOwner, CheckWinConditions
  <1>6. QED BY <1>5, FiresNothing

LEMMA OutcomeFires ==
  ASSUME FiredIsWinner, NEW i \in Points, NEW s \in AreaStates, NEW ins, ThinkOutcome(i, s, ins)
  PROVE  FiredIsWinner'
  <1>1. UNCHANGED round \/ (phase = "open" /\ CheckWinConditions(owner'))
    BY DEF ThinkOutcome, CaptureCompletes, InternalSetOwner
  <1>2. QED BY <1>1, FiresForWinner, FiresNothing DEF round

LEMMA StepFires ==
  ASSUME ResetsToNeutral, TypeOK, FiredIsWinner, [Next]_vars
  PROVE  FiredIsWinner'
  <1>0. area \in [Points -> AreaStates] BY DEF TypeOK
  <1>1. ASSUME NEW p \in Players, NEW i \in Points, StartTouch(p, i) PROVE FiredIsWinner'
    <2>1. [area[i] EXCEPT !.owning = owner[i]] \in AreaStates BY DEF TypeOK, AreaStates
    <2>2. QED BY <1>1, <2>1, ThinkHasOutcome, OutcomeFires DEF StartTouch
  <1>2. ASSUME NEW i \in Points, Think(i) PROVE FiredIsWinner'
    BY <1>0, <1>2, ThinkHasOutcome, OutcomeFires DEF Think
  <1>3. CASE UNCHANGED round BY <1>3, FiresNothing DEF round
  <1>4. ASSUME NEW p \in Players,
               EndTouch(p) \/ AreaTouch(p) \/ Die(p) \/ Respawn(p) \/ ChangeCondition(p)
        PROVE  FiredIsWinner'
    BY <1>3, <1>4 DEF EndTouch, AreaTouch, Die, Respawn, ChangeCondition
  <1>5. CASE CPMThink BY <1>5, FiresForWinner DEF CPMThink
  <1>6. CASE MapSteps
    <2>1. ASSUME NEW i \in Points, NEW t \in Owners, InputSetOwner(i, t) PROVE FiredIsWinner'
      BY <2>1, FiresForWinner DEF InputSetOwner, InternalSetOwner
    <2>2. ASSUME NEW i \in Points, InputSetLocked(i) PROVE FiredIsWinner'
      BY <1>3, <2>2 DEF InputSetLocked
    <2>3. ASSUME NEW i \in Points, InputCaptureCurrentCP(i) PROVE FiredIsWinner'
      BY <1>3, <2>3, FiresForWinner DEF InputCaptureCurrentCP, EndCapture, InternalSetOwner
    <2>4. ASSUME NEW t \in Teams, InputSetWinner(t) PROVE FiredIsWinner'
      BY <2>4, FiresNothing DEF InputSetWinner, SetWinningTeam
    <2>5. CASE InputEnableDisable BY <1>3, <2>5 DEF InputEnableDisable
    <2>6. QED BY <1>6, <2>1, <2>2, <2>3, <2>4, <2>5, ResetFires DEF MapSteps
  <1>7. CASE RoundSteps
    <2>1. CASE RoundRespawn BY <2>1 DEF RoundRespawn, FiredIsWinner
    <2>2. CASE OpenPoints \/ ClosePoints BY <2>2, FiresNothing DEF OpenPoints, ClosePoints
    <2>3. ASSUME NEW t \in Owners, WonElsewhere(t) PROVE FiredIsWinner'
      BY <2>3, FiresNothing DEF WonElsewhere
    <2>4. QED BY <1>7, <2>1, <2>2, <2>3 DEF RoundSteps
  <1>8. CASE UNCHANGED vars BY <1>3, <1>8 DEF vars
  <1>9. QED BY <1>1, <1>2, <1>4, <1>5, <1>6, <1>7, <1>8 DEF Next, PlayerSteps

\* Whoever ends the round, a map entity, a capture or a timer, and however
\* often the master is disabled, the output that CheckWinConditions fires is
\* that of the team the round is won by. With points in several groups the
\* reset of one, after the round, could find the owner of another group.
THEOREM OutputMatchesWinnerAlways ==
  ASSUME "reset" \in MapInputs => SameGroup
  PROVE  Spec => []OutputMatchesWinner
  <1>1. CASE ResetsToNeutral
    <2>1. Init => FiredIsWinner BY DEF Init, FiredIsWinner
    <2>2. TypeOK /\ FiredIsWinner /\ [Next]_vars => FiredIsWinner' BY <1>1, StepFires
    <2>3. FiredIsWinner => OutputMatchesWinner BY DEF FiredIsWinner, OutputMatchesWinner
    <2>4. QED BY <2>1, <2>2, <2>3, ControlPointsTypeCorrect, PTL DEF Spec
  <1>2. CASE ~ResetsToNeutral
    <2>1. OutputMatchesWinner BY <1>2 DEF ResetsToNeutral, OutputMatchesWinner
    <2>2. QED BY <2>1, PTL
  <1>3. QED BY <1>1, <1>2

-----------------------------------------------------------------------------
(***************************************************************************)
(* Every change of an owner is a capture.                                  *)
(***************************************************************************)

NoHandouts == MapInputs \cap {"owner", "reset", "capture"} = {}

\* An area completes a capture with the players that touch it after the step.
Captured(i) == CaptureCompletes(i, area[i], in')

LEMMA OutcomeOwners ==
  ASSUME TypeOK, NEW i \in Points, NEW s \in AreaStates, s.team = area[i].team,
         ThinkOutcome(i, s, in')
  PROVE  UNCHANGED owner \/ Captured(i)
  BY DEF ThinkOutcome, CaptureCompletes, Captured

LEMMA OwnerSteps ==
  ASSUME TypeOK, NoHandouts, [Next]_vars
  PROVE  UNCHANGED owner \/ RoundRespawn \/ \E i \in Points : Captured(i)
  <1>1. ASSUME NEW p \in Players, NEW i \in Points, StartTouch(p, i)
        PROVE  UNCHANGED owner \/ Captured(i)
    <2> DEFINE s == [area[i] EXCEPT !.owning = owner[i]]
    <2>1. s \in AreaStates /\ s.team = area[i].team BY DEF TypeOK, AreaStates
    <2>2. ThinkOutcome(i, s, in') BY <1>1, <2>1, ThinkHasOutcome DEF StartTouch
    <2>3. QED BY <2>1, <2>2, OutcomeOwners
  <1>2. ASSUME NEW i \in Points, Think(i) PROVE UNCHANGED owner \/ Captured(i)
    <2>1. area[i] \in AreaStates BY DEF TypeOK
    <2>2. in' = in BY <1>2 DEF Think
    <2>3. ThinkOutcome(i, area[i], in) BY <1>2, <2>1, ThinkHasOutcome DEF Think
    <2>4. QED BY <2>1, <2>2, <2>3, OutcomeOwners
  <1>3. ASSUME NEW p \in Players,
               EndTouch(p) \/ AreaTouch(p) \/ Die(p) \/ Respawn(p) \/ ChangeCondition(p)
        PROVE  UNCHANGED owner
    BY <1>3 DEF EndTouch, AreaTouch, Die, Respawn, ChangeCondition, points
  <1>4. CASE CPMThink \/ UNCHANGED vars BY <1>4 DEF CPMThink, points, vars
  <1>5. CASE MapSteps
    BY <1>5 DEF MapSteps, NoHandouts, InputSetOwner, InputReset, InputSetLocked,
                InputCaptureCurrentCP, InputSetWinner, InputEnableDisable, points
  <1>6. CASE RoundSteps
    BY <1>6 DEF RoundSteps, OpenPoints, ClosePoints, WonElsewhere, points
  <1>7. QED BY <1>1, <1>2, <1>3, <1>4, <1>5, <1>6 DEF Next, PlayerSteps

\* Who completes a capture may capture the point, and nobody else counts there.
LEMMA CaptureFacts ==
  ASSUME TypeOK, NEW i \in Points, Captured(i)
  PROVE  LET t == area[i].team
         IN  /\ phase = "open" /\ t \in Teams /\ TeamMayCapturePoint(t, i)
             /\ owner' = [owner EXCEPT ![i] = t]
             /\ Cappers(i, t, in') # {}
             /\ \A u \in Teams \ {t} : /\ Cappers(i, u, in') = {}
                                       /\ BlockablePlayers(i, u, in') = {}
  <1> DEFINE t == area[i].team
  <1>1. /\ phase = "open" /\ t # None /\ TeamInZone(i, t, in') /\ TeamsInZone(i, in') # Teams
        /\ owner' = [owner EXCEPT ![i] = t]
    BY DEF Captured, CaptureCompletes, InternalSetOwner
  <1>2. t \in Teams BY <1>1 DEF TypeOK, AreaStates, Owners
  <1>3. Cappers(i, t, in') # {} /\ \A u \in Teams \ {t} : Cappers(i, u, in') = {}
    BY <1>1 DEF TeamInZone
  <1>4. TeamMayCapturePoint(t, i) BY <1>3 DEF Cappers
  <1>5. t \in TeamsInZone(i, in') BY <1>2, <1>3 DEF TeamsInZone
  <1>6. \A u \in Teams \ {t} : u \notin TeamsInZone(i, in')
    BY <1>1, <1>2, <1>5 DEF TeamsInZone, Teams
  <1>7. \A u \in Teams \ {t} : BlockablePlayers(i, u, in') = {}
    BY <1>6 DEF TeamsInZone
  <1>8. QED BY <1>1, <1>2, <1>3, <1>4, <1>7

LEMMA CaptureIsEarned ==
  ASSUME TypeOK, NEW i \in Points, Captured(i), owner'[i] # owner[i]
  PROVE  EarnedBy(owner'[i], i)
  <1> DEFINE t == area[i].team
  <1>1. /\ phase = "open" /\ t \in Teams /\ TeamMayCapturePoint(t, i) /\ owner'[i] = t
        /\ Cappers(i, t, in') # {}
        /\ \A u \in Teams \ {t} : Cappers(i, u, in') = {} /\ BlockablePlayers(i, u, in') = {}
    BY CaptureFacts DEF TypeOK
  <1>2. \E p \in Players : TeamOf[p] = t /\ in'[p] = i /\ life[p] = "can"
    BY <1>1 DEF Cappers
  <1>3. ASSUME NEW p \in Players, in'[p] = i, life[p] \in {"can", "blocks"},
               TeamMayCapturePoint(TeamOf[p], i)
        PROVE  TeamOf[p] = t
    <2>1. TeamOf[p] \in Teams BY PlayerAssumption
    <2>2. p \in Cappers(i, TeamOf[p], in') \/ p \in BlockablePlayers(i, TeamOf[p], in')
      BY <1>3 DEF Cappers, BlockablePlayers
    <2>3. QED BY <1>1, <2>1, <2>2
  <1>4. QED BY <1>1, <1>2, <1>3 DEF EarnedBy

\* No order of touches, thinks, deaths, locks and losses of other points lets a
\* point change hands but by a capture that is earned at that moment.
THEOREM PointsAreEarnedAlways == Spec => PointsAreEarned
  <1>1. TypeOK /\ [Next]_vars => CapturesEarned \/ UNCHANGED vars
    <2> SUFFICES ASSUME TypeOK, [Next]_vars, NoHandouts, phase' # "closed",
                        NEW i \in Points, owner'[i] # owner[i]
                 PROVE  EarnedBy(owner'[i], i)
      BY DEF CapturesEarned, NoHandouts
    <2>1. PICK j \in Points : Captured(j)
      BY OwnerSteps DEF RoundRespawn
    <2>2. j = i BY <2>1, CaptureFacts DEF TypeOK
    <2>3. QED BY <2>1, <2>2, CaptureIsEarned
  <1>2. QED BY <1>1, ControlPointsTypeCorrect, PTL DEF Spec, PointsAreEarned

-----------------------------------------------------------------------------
(***************************************************************************)
(* The chain of a linear map.                                              *)
(***************************************************************************)

\* A set of points has a first and a last one.
LEMMA FirstPoint ==
  ASSUME NEW S, S \subseteq Nat, S # {}
  PROVE  \E x \in S : \A y \in S : x <= y
  <1> DEFINE R == {ss \in Nat \X Nat : ss[1] < ss[2]}
  <1>1. IsWellFoundedOn(R, Nat) BY NatLessThanWellFounded DEF OpToRel
  <1>2. PICK x \in S : \A y \in S : <<y, x>> \notin R
    <2> HIDE DEF R
    <2> QED BY WFMin, <1>1
  <1>3. \A y \in S : ~(y < x) BY <1>2
  <1>4. QED BY <1>3

LEMMA LastPoint ==
  ASSUME NEW S, S \subseteq Points, S # {}
  PROVE  \E x \in S : \A y \in S : y <= x
  <1> DEFINE R == {N - 1 - k : k \in S}
  <1>1. N \in Nat /\ \A k \in S : k \in 0 .. N - 1 BY PointAssumption DEF Points
  <1>2. R \subseteq Nat /\ R # {} BY <1>1
  <1>3. PICK r \in R : \A q \in R : r <= q BY <1>2, FirstPoint
  <1>4. PICK x \in S : r = N - 1 - x OBVIOUS
  <1>5. \A y \in S : N - 1 - x <= N - 1 - y BY <1>3, <1>4
  <1>6. QED BY <1>1, <1>5

LEMMA BaseFacts ==
  ASSUME LinearMap, NEW t \in Teams
  PROVE  /\ N \in Nat /\ N > 1
         /\ Base(t) \in {0, N - 1} /\ Base(t) \in Points /\ DefaultOwner[Base(t)] = t
         /\ \A u \in Teams \ {t} : Base(u) \in {0, N - 1} /\ Base(u) # Base(t)
  <1>1. N \in Nat /\ N > 1 /\ {Base(Red), Base(Blue)} = {0, N - 1}
    BY PointAssumption DEF LinearMap
  <1>2. Base(Red) # Base(Blue) BY <1>1
  <1>3. Base(t) \in {0, N - 1} /\ \A u \in Teams \ {t} : Base(u) \in {0, N - 1} /\ Base(u) # Base(t)
    BY <1>1, <1>2, TeamAssumption DEF Teams
  <1>4. Base(t) \in Points BY <1>1, <1>3 DEF Points
  <1>5. DefaultOwner[Base(t)] = t BY <1>1, <1>3 DEF Base
  <1>6. QED BY <1>1, <1>3, <1>4, <1>5

\* The farthest point is the base, or the team owns all points as far as it.
LEMMA FarthestOwned ==
  ASSUME LinearMap, NEW t \in Teams
  PROVE  /\ Farthest(t) \in Points
         /\ Farthest(t) = Base(t) \/ \A j \in Between(Base(t), Farthest(t)) : res[j].owner = t
  <1> DEFINE b == Base(t)
             enemyEnd == IF b = 0 THEN N - 1 ELSE 0
             reached == {k \in Points \ {enemyEnd} : \A j \in Between(b, k) : res[j].owner = t}
             last == CHOOSE k \in reached : \A j \in reached : j <= k
             first == CHOOSE k \in reached : \A j \in reached : k <= j
  <1>1. b \in Points BY BaseFacts
  <1>2. reached \subseteq Points /\ Points \subseteq Nat BY PointAssumption DEF Points
  <1>3. CASE reached = {}
    <2>1. Farthest(t) = b BY <1>3 DEF Farthest
    <2>2. QED BY <1>1, <2>1
  <1>4. CASE reached # {}
    <2>1. b # -1 BY <1>1, <1>2
    <2>2. Farthest(t) = IF b = 0 THEN last ELSE first BY <1>4, <2>1 DEF Farthest
    <2>3. last \in reached
      <3> HIDE DEF reached
      <3> QED BY <1>2, <1>4, LastPoint
    <2>4. first \in reached
      <3> HIDE DEF reached
      <3>1. \E k \in reached : \A j \in reached : k <= j BY <1>2, <1>4, FirstPoint
      <3>2. QED BY <3>1
    <2>5. Farthest(t) \in reached BY <2>2, <2>3, <2>4
    <2>6. QED BY <2>5
  <1>5. QED BY <1>3, <1>4

\* A team that owns all points of a linear map has won.
LEMMA AllOwned ==
  ASSUME LinearMap, NEW own, NEW t \in Teams, \A i \in Points : own[i] = t
  PROVE  TeamOwnsAllPoints(own) = t
  <1> DEFINE g == GroupOf[0]
             groups == {GroupOf[i] : i \in Points}
             held == {h \in groups : GroupOwner(own, h) # None}
  <1>1. 0 \in Points /\ N \in Nat BY BaseFacts DEF Points
  <1>2. groups = {g} BY <1>1 DEF LinearMap
  <1>3. GroupOwner(own, g) = t
    <2>1. \A u \in Teams : (\A i \in Points : GroupOf[i] = g => own[i] = u) <=> u = t
      BY <1>1
    <2>2. QED BY <2>1 DEF GroupOwner
  <1>4. held = {g} /\ t # None BY <1>2, <1>3, TeamAssumption
  <1>5. g \in Nat BY <1>1, PointAssumption
  <1>6. (CHOOSE h \in held : \A k \in held : h <= k) = g BY <1>4, <1>5
  <1>7. QED BY <1>3, <1>4, <1>6 DEF TeamOwnsAllPoints

\* A team that owns both ends of a linear map would own all of it by default.
LEMMA LinearUndecided == ASSUME LinearMap PROVE Undecided
  <1>1. /\ Base(Red) \in Points /\ Base(Blue) \in Points
        /\ DefaultOwner[Base(Red)] = Red /\ DefaultOwner[Base(Blue)] = Blue
    BY BaseFacts DEF Teams
  <1>2. \A t \in Teams : \E i \in Points : DefaultOwner[i] # t
    BY <1>1, TeamAssumption DEF Teams
  <1>3. TeamOwnsAllPoints(DefaultOwner) = None BY <1>2, NotAllOwned DEF LinearMap, SameGroup
  <1>4. QED BY <1>3, TeamAssumption, PointAssumption DEF Undecided

\* Besides the chain, a point that was owned never becomes unowned.
ChainInv ==
    LinearMap => /\ \A t \in Teams, i \in Points : owner[i] = t => Owned(owner, t, i)
                 /\ \A i \in Points : owner[i] = None => DefaultOwner[i] = None

\* While points may be captured, a team that may capture a point owns all the
\* points from its base to that one. A team that has lost its base could still
\* capture next to it, but then the other team owns everything and has won.
LEMMA MayCaptureConnected ==
  ASSUME TypeOK, LinearMap, ChainInv, ResourceAgrees, WinInv, phase = "open",
         NEW t \in Teams, NEW i \in Points, TeamMayCapturePoint(t, i)
  PROVE  \A j \in Between(Base(t), i) \ {i} : owner[j] = t
  <1> DEFINE b == Base(t)
             f == Farthest(t)
  <1>1. /\ N \in Nat /\ N > 1 /\ b \in {0, N - 1} /\ b \in Points /\ DefaultOwner[b] = t
        /\ \A u \in Teams \ {t} : Base(u) \in {0, N - 1} /\ Base(u) # b
    BY BaseFacts
  <1>2. f - i \in {-1, 0, 1} BY DEF TeamMayCapturePoint, LinearMap
  <1>3. f \in Points /\ (f = b \/ \A j \in Between(b, f) : res[j].owner = t)
    BY FarthestOwned
  <1>4. \A j \in Points : res[j].owner = owner[j]
    BY DEF ResourceAgrees, LinearMap
  <1>5. owner[b] = t
    <2> SUFFICES ASSUME owner[b] # t PROVE FALSE OBVIOUS
    <2>1. t # None BY TeamAssumption
    <2>2. PICK u \in Teams \ {t} : owner[b] = u
      BY <1>1, <2>1 DEF ChainInv, TypeOK, Owners
    <2>3. Owned(owner, u, b) BY <1>1, <2>2 DEF ChainInv
    <2>4. Between(Base(u), b) = Points BY <1>1 DEF Between, Points
    <2>5. \A j \in Points : owner[j] = u BY <2>3, <2>4 DEF Owned
    <2>6. TeamOwnsAllPoints(owner) = u BY <2>5, AllOwned
    <2>7. MayWin = Teams /\ "master" \notin MapInputs BY DEF LinearMap
    <2>8. QED BY <2>6, <2>7 DEF WinInv
  <1>6. \A j \in Between(b, f) : owner[j] = t
    <2>1. \A j \in Between(b, b) : j = b BY <1>1 DEF Between, Points
    <2>2. Between(b, f) \subseteq Points BY DEF Between
    <2>3. QED BY <1>3, <1>4, <1>5, <2>1, <2>2
  <1>7. Between(b, i) \ {i} \subseteq Between(b, f)
    BY <1>1, <1>2, <1>3 DEF Between, Points
  <1>8. QED BY <1>6, <1>7

LEMMA CaptureKeepsChain ==
  ASSUME TypeOK, LinearMap, ChainInv, ResourceAgrees, WinInv, NEW i \in Points, Captured(i)
  PROVE  ChainInv'
  <1> DEFINE t == area[i].team
  <1>1. /\ phase = "open" /\ t \in Teams /\ TeamMayCapturePoint(t, i)
        /\ owner' = [owner EXCEPT ![i] = t]
    BY CaptureFacts
  <1>2. \A j \in Between(Base(t), i) \ {i} : owner[j] = t BY <1>1, MayCaptureConnected
  <1>3. owner'[i] = t /\ \A j \in Points \ {i} : owner'[j] = owner[j] BY <1>1 DEF TypeOK
  <1>4. t # None BY <1>1, TeamAssumption
  <1>5. ASSUME NEW u \in Teams, NEW k \in Points, owner'[k] = u, NEW j \in Between(Base(u), k)
        PROVE  owner'[j] = u
    <2>0. j \in Points BY <1>5 DEF Between
    <2>1. CASE k = i
      <3>1. u = t BY <1>3, <1>5, <2>1
      <3>2. QED BY <1>2, <1>3, <1>5, <2>0, <2>1, <3>1
    <2>2. CASE k # i /\ j # i
      <3>1. owner[k] = u BY <1>3, <1>5, <2>2
      <3>2. owner[j] = u BY <1>5, <3>1 DEF ChainInv, Owned
      <3>3. QED BY <1>3, <2>0, <2>2, <3>2
    <2>3. CASE k # i /\ j = i
      <3>1. CASE u = t BY <1>3, <2>3, <3>1
      <3>2. CASE u # t
        <4>1. k \in Between(Base(t), i)
          <5>1. /\ N \in Nat /\ N > 1 /\ Base(t) \in {0, N - 1}
                /\ Base(u) \in {0, N - 1} /\ Base(u) # Base(t)
            BY <1>1, <1>5, <3>2, BaseFacts
          <5>2. QED BY <1>5, <2>3, <5>1 DEF Between, Points
        <4>2. owner[k] = t BY <1>2, <2>3, <4>1
        <4>3. QED BY <1>3, <1>5, <2>3, <3>2, <4>2
      <3>3. QED BY <3>1, <3>2
    <2>4. QED BY <2>1, <2>2, <2>3
  <1>6. \A k \in Points : owner'[k] = None => DefaultOwner[k] = None
    BY <1>3, <1>4 DEF ChainInv
  <1>7. QED BY <1>5, <1>6 DEF ChainInv, Owned

LEMMA DefaultChain ==
  ASSUME LinearMap
  PROVE  \A t \in Teams, i \in Points : DefaultOwner[i] = t => Owned(DefaultOwner, t, i)
  BY DEF LinearMap

LEMMA StepChain ==
  TypeOK /\ ResourceAgrees /\ WinInv /\ ChainInv /\ [Next]_vars => ChainInv'
  <1> SUFFICES ASSUME TypeOK, ResourceAgrees, WinInv, ChainInv, [Next]_vars, LinearMap
               PROVE  ChainInv'
    BY DEF ChainInv
  <1>1. CASE UNCHANGED owner BY <1>1 DEF ChainInv, Owned
  <1>2. CASE RoundRespawn
    <2>1. owner' = DefaultOwner BY <1>2 DEF RoundRespawn
    <2>2. QED BY <2>1, DefaultChain DEF ChainInv, Owned
  <1>3. NoHandouts BY DEF NoHandouts, LinearMap
  <1>4. QED BY <1>1, <1>2, <1>3, OwnerSteps, CaptureKeepsChain

\* With any number of points and players, a team's points on a linear map are
\* connected to its base, whatever captures were going on when points were lost.
THEOREM ChainHoldsAlways == Spec => []ChainHolds
  <1>1. CASE LinearMap
    <2>1. Init => WinInv /\ ChainInv
      BY <1>1, LinearUndecided, DefaultChain DEF Init, WinInv, Undecided, ChainInv, Owned
    <2>2. TypeOK /\ WinInv /\ [Next]_vars => WinInv' BY <1>1, LinearUndecided, StepWins
    <2>3. TypeOK /\ ResourceAgrees /\ WinInv /\ ChainInv /\ [Next]_vars => ChainInv'
      BY StepChain
    <2>4. ChainInv => ChainHolds BY DEF ChainInv, ChainHolds
    <2>5. QED BY <2>1, <2>2, <2>3, <2>4, ControlPointsTypeCorrect, ResourceAgreesAlways, PTL
              DEF Spec
  <1>2. CASE ~LinearMap
    <2>1. ChainHolds BY <1>2 DEF ChainHolds
    <2>2. QED BY <2>1, PTL
  <1>3. QED BY <1>1, <1>2

\* The farthest point is not the enemy's end, and lies at or beyond every other
\* point that the team's road from its base reaches.
LEMMA FarthestReaches ==
  ASSUME LinearMap, NEW t \in Teams
  PROVE  /\ Farthest(t) # (IF Base(t) = 0 THEN N - 1 ELSE 0)
         /\ \A k \in Points \ {IF Base(t) = 0 THEN N - 1 ELSE 0} :
               (\A j \in Between(Base(t), k) : res[j].owner = t)
               => IF Base(t) = 0 THEN k <= Farthest(t) ELSE Farthest(t) <= k
  <1> DEFINE b == Base(t)
             enemyEnd == IF b = 0 THEN N - 1 ELSE 0
             reached == {k \in Points \ {enemyEnd} : \A j \in Between(b, k) : res[j].owner = t}
             last == CHOOSE k \in reached : \A j \in reached : j <= k
             first == CHOOSE k \in reached : \A j \in reached : k <= j
  <1>1. b \in Points /\ b \in {0, N - 1} /\ N \in Nat /\ N > 1 BY BaseFacts
  <1>2. reached \subseteq Points /\ Points \subseteq Nat BY PointAssumption DEF Points
  <1>3. CASE reached = {}
    <2>1. Farthest(t) = b BY <1>3 DEF Farthest
    <2>2. QED BY <1>1, <1>3, <2>1
  <1>4. CASE reached # {}
    <2>1. b # -1 BY <1>1, <1>2
    <2>2. Farthest(t) = IF b = 0 THEN last ELSE first BY <1>4, <2>1 DEF Farthest
    <2>3. last \in reached /\ \A j \in reached : j <= last
      <3> HIDE DEF reached
      <3> QED BY <1>2, <1>4, LastPoint
    <2>4. first \in reached /\ \A j \in reached : first <= j
      <3> HIDE DEF reached
      <3>1. \E k \in reached : \A j \in reached : k <= j BY <1>2, <1>4, FirstPoint
      <3>2. QED BY <3>1
    <2>5. /\ Farthest(t) \in reached
          /\ \A k \in reached : IF b = 0 THEN k <= Farthest(t) ELSE Farthest(t) <= k
      BY <2>2, <2>3, <2>4
    <2>6. QED BY <2>5
  <1>5. QED BY <1>3, <1>4

\* The owner of a point that the other team may capture has that point next to
\* the farthest of its own, or the point is the last it holds.
LEMMA OwnerMayCapture ==
  ASSUME TypeOK, LinearMap, ChainInv, ResourceAgrees,
         NEW i \in Points, NEW t \in Teams, NEW u \in Teams \ {t},
         owner[i] = t, TeamMayCapturePoint(u, i)
  PROVE  TeamMayCapturePoint(t, i)
  <1> DEFINE b == Base(t)
             f == Farthest(t)
             g == Farthest(u)
  <1>1. /\ N \in Nat /\ N > 1 /\ b \in {0, N - 1} /\ b \in Points
        /\ Base(u) \in {0, N - 1} /\ Base(u) # b
    BY BaseFacts
  <1>2. i \notin locked /\ g - i \in {-1, 0, 1} BY DEF TeamMayCapturePoint, LinearMap
  <1>3. \A j \in Points : res[j].owner = owner[j] BY DEF ResourceAgrees, LinearMap
  <1>4. \A j \in Between(b, i) : j \in Points /\ owner[j] = t
    BY DEF ChainInv, Owned, Between
  <1>5. g \in Points /\ (g = Base(u) \/ \A j \in Between(Base(u), g) : j \in Points /\ owner[j] = u)
    BY <1>3, FarthestOwned DEF Between
  <1>6. f \in Points /\ (f = b \/ \A j \in Between(b, f) : j \in Points /\ owner[j] = t)
    BY <1>3, FarthestOwned DEF Between
  <1>7. \A k \in Points : (\A j \in Between(b, k) : owner[j] = t)
                          => \A j \in Between(b, k) : res[j].owner = t
    BY <1>3 DEF Between
  <1>8. i \in 0 .. N - 1 /\ f \in 0 .. N - 1 /\ g \in 0 .. N - 1 BY <1>5, <1>6 DEF Points
  \* The road of the other team does not reach a point of this one.
  <1>9. \A j \in Points : (g = Base(u) /\ j = Base(u)) \/ j \notin Between(Base(u), g) \/ owner[j] = u
    <2>1. CASE g = Base(u)
      <3>1. \A j \in Points : j \in Between(Base(u), Base(u)) => j = Base(u)
        BY <1>1, <1>8 DEF Between, Points
      <3>2. QED BY <2>1, <3>1
    <2>2. CASE g # Base(u) BY <1>5, <2>2
    <2>3. QED BY <2>1, <2>2
  <1>10. u # t /\ Points = 0 .. N - 1 BY DEF Points
  <1>11. CASE b = 0
    <2>1. f # N - 1 /\ \A k \in Points \ {N - 1} : (\A j \in Between(b, k) : owner[j] = t) => k <= f
      BY <1>7, <1>11, FarthestReaches
    <2>2. Base(u) = N - 1 BY <1>1, <1>11
    <2>3. CASE i = N - 1
      <3>1. N - 2 \in Points \ {N - 1} BY <1>1, <1>10
      <3>2. Between(b, N - 2) \subseteq Between(b, i) BY <1>1, <1>11, <2>3 DEF Between, Points
      <3>3. N - 2 <= f BY <1>4, <2>1, <3>1, <3>2
      <3>4. QED BY <1>1, <1>2, <1>8, <2>1, <2>3, <3>3 DEF TeamMayCapturePoint, LinearMap
    <2>4. CASE i # N - 1
      <3>1. i <= f BY <1>4, <2>1, <2>4
      <3>2. i \notin Between(Base(u), g) BY <1>9, <1>10, <2>2, <2>4
      <3>3. g = i + 1 BY <1>1, <1>2, <1>8, <2>2, <2>4, <3>2 DEF Between, Points
      <3>4. f <= i
        <4>1. SUFFICES ASSUME i + 1 <= f PROVE FALSE BY <1>8
        <4>2. g # N - 1 BY <1>1, <1>8, <2>1, <3>3, <4>1
        <4>3. g \in Between(Base(u), g) BY <1>1, <1>5, <1>8, <2>2 DEF Between, Points
        <4>4. owner[g] = u BY <1>5, <2>2, <4>2, <4>3
        <4>5. g \in Between(b, f) BY <1>5, <1>8, <1>11, <3>3, <4>1 DEF Between, Points
        <4>6. f # b BY <1>8, <1>11, <4>1
        <4>7. QED BY <1>6, <1>10, <4>4, <4>5, <4>6
      <3>5. QED BY <1>2, <1>8, <3>1, <3>4 DEF TeamMayCapturePoint, LinearMap
    <2>5. QED BY <2>3, <2>4
  <1>12. CASE b = N - 1
    <2>1. f # 0 /\ \A k \in Points \ {0} : (\A j \in Between(b, k) : owner[j] = t) => f <= k
      BY <1>1, <1>7, <1>12, FarthestReaches
    <2>2. Base(u) = 0 BY <1>1, <1>12
    <2>3. CASE i = 0
      <3>1. 1 \in Points \ {0} BY <1>1, <1>10
      <3>2. Between(b, 1) \subseteq Between(b, i) BY <1>1, <1>12, <2>3 DEF Between, Points
      <3>3. f <= 1 BY <1>4, <2>1, <3>1, <3>2
      <3>4. QED BY <1>1, <1>2, <1>8, <2>1, <2>3, <3>3 DEF TeamMayCapturePoint, LinearMap
    <2>4. CASE i # 0
      <3>1. f <= i BY <1>4, <2>1, <2>4
      <3>2. i \notin Between(Base(u), g) BY <1>9, <1>10, <2>2, <2>4
      <3>3. g = i - 1 BY <1>1, <1>2, <1>8, <2>2, <2>4, <3>2 DEF Between, Points
      <3>4. i <= f
        <4>1. SUFFICES ASSUME f <= i - 1 PROVE FALSE BY <1>8
        <4>2. g # 0 BY <1>1, <1>8, <2>1, <3>3, <4>1
        <4>3. g \in Between(Base(u), g) BY <1>1, <1>5, <1>8, <2>2 DEF Between, Points
        <4>4. owner[g] = u BY <1>5, <2>2, <4>2, <4>3
        <4>5. g \in Between(b, f) BY <1>1, <1>5, <1>8, <1>12, <3>3, <4>1 DEF Between, Points
        <4>6. f # b BY <1>8, <1>12, <4>1
        <4>7. QED BY <1>6, <1>10, <4>4, <4>5, <4>6
      <3>5. QED BY <1>2, <1>8, <3>1, <3>4 DEF TeamMayCapturePoint, LinearMap
    <2>5. QED BY <2>3, <2>4
  <1>13. QED BY <1>1, <1>11, <1>12

\* Where a team may capture a point, the players of its owner count in the area
\* and can block them, for a map of any length and at any front.
THEOREM DefendersCountAlways == Spec => []DefendersCount
  <1>1. CASE LinearMap
    <2>1. Init => WinInv /\ ChainInv
      BY <1>1, LinearUndecided, DefaultChain DEF Init, WinInv, Undecided, ChainInv, Owned
    <2>2. TypeOK /\ WinInv /\ [Next]_vars => WinInv' BY <1>1, LinearUndecided, StepWins
    <2>3. TypeOK /\ ResourceAgrees /\ WinInv /\ ChainInv /\ [Next]_vars => ChainInv'
      BY StepChain
    <2>4. TypeOK /\ ResourceAgrees /\ ChainInv => DefendersCount
      BY <1>1, OwnerMayCapture DEF DefendersCount
    <2>5. QED BY <2>1, <2>2, <2>3, <2>4, ControlPointsTypeCorrect, ResourceAgreesAlways, PTL
              DEF Spec
  <1>2. CASE ~LinearMap
    <2>1. DefendersCount BY <1>2 DEF DefendersCount
    <2>2. QED BY <2>1, PTL
  <1>3. QED BY <1>1, <1>2

-----------------------------------------------------------------------------
(***************************************************************************)
(* The points of a linear map are a tug of war.                            *)
(***************************************************************************)

\* The steps of the tug of war that leave the points alone.
RoundMoves ==
    \/ UNCHANGED <<phase, winner>>
    \/ phase = "closed" /\ phase' = "open" /\ UNCHANGED winner
    \/ phase = "open" /\ phase' = "closed" /\ UNCHANGED winner
    \/ phase # "won" /\ phase' = "won" /\ winner' \in Owners

TugStep == [Tug!Next]_(Tug!tug)

LEMMA RoundMovesTug ==
  ASSUME UNCHANGED owner, RoundMoves
  PROVE  TugStep
  <1>1. CASE UNCHANGED <<phase, winner>> BY <1>1 DEF TugStep, Tug!tug
  <1>2. CASE phase = "closed" /\ phase' = "open" /\ UNCHANGED winner
    BY <1>2 DEF TugStep, Tug!Next, Tug!Open
  <1>3. CASE phase = "open" /\ phase' = "closed" /\ UNCHANGED winner
    BY <1>3 DEF TugStep, Tug!Next, Tug!Close
  <1>4. CASE phase # "won" /\ phase' = "won" /\ winner' \in Owners
    BY <1>4 DEF TugStep, Tug!Next, Tug!Decide, Tug!Ends, Owners
  <1>5. QED BY <1>1, <1>2, <1>3, <1>4 DEF RoundMoves

LEMMA CheckMoves ==
  ASSUME NEW own, CheckWinConditions(own)
  PROVE  RoundMoves
  BY PointAssumption DEF CheckWinConditions, SetWinningTeam, RoundMoves, Owners

LEMMA OutcomeMoves ==
  ASSUME NEW i \in Points, NEW s \in AreaStates, NEW ins, ThinkOutcome(i, s, ins)
  PROVE  RoundMoves
  BY CheckMoves DEF ThinkOutcome, CaptureCompletes, InternalSetOwner, round, RoundMoves

\* Whatever else a step does, only a respawn moves the round otherwise.
LEMMA StepMoves ==
  ASSUME TypeOK, NoHandouts, [Next]_vars
  PROVE  RoundMoves \/ RoundRespawn
  <1>1. ASSUME NEW p \in Players, NEW i \in Points, StartTouch(p, i) PROVE RoundMoves
    <2>1. [area[i] EXCEPT !.owning = owner[i]] \in AreaStates BY DEF TypeOK, AreaStates
    <2>2. QED BY <1>1, <2>1, ThinkHasOutcome, OutcomeMoves DEF StartTouch
  <1>2. ASSUME NEW i \in Points, Think(i) PROVE RoundMoves
    <2>1. area[i] \in AreaStates BY DEF TypeOK
    <2>2. QED BY <1>2, <2>1, ThinkHasOutcome, OutcomeMoves DEF Think
  <1>3. ASSUME NEW p \in Players,
               EndTouch(p) \/ AreaTouch(p) \/ Die(p) \/ Respawn(p) \/ ChangeCondition(p)
        PROVE  RoundMoves
    BY <1>3 DEF EndTouch, AreaTouch, Die, Respawn, ChangeCondition, round, RoundMoves
  <1>4. CASE CPMThink BY <1>4, CheckMoves DEF CPMThink
  <1>5. CASE UNCHANGED vars BY <1>5 DEF vars, round, RoundMoves
  <1>6. CASE MapSteps
    <2>1. ASSUME NEW i \in Points, InputSetLocked(i) PROVE RoundMoves
      BY <2>1 DEF InputSetLocked, round, RoundMoves
    <2>2. ASSUME NEW t \in Teams, InputSetWinner(t) PROVE RoundMoves
      BY <2>2 DEF InputSetWinner, SetWinningTeam, RoundMoves, Owners
    <2>3. CASE InputEnableDisable BY <2>3 DEF InputEnableDisable, round, RoundMoves
    <2>4. QED
      BY <1>6, <2>1, <2>2, <2>3
         DEF MapSteps, NoHandouts, InputSetOwner, InputReset, InputCaptureCurrentCP
  <1>7. CASE RoundSteps
    BY <1>7 DEF RoundSteps, OpenPoints, ClosePoints, WonElsewhere, SetWinningTeam, RoundMoves, Owners
  <1>8. QED BY <1>1, <1>2, <1>3, <1>4, <1>5, <1>6, <1>7 DEF Next, PlayerSteps

\* A capture that moves the front is an advance, and the last one wins.
LEMMA CaptureAdvances ==
  ASSUME TypeOK, LinearMap, ChainInv, ResourceAgrees, WinInv,
         NEW i \in Points, Captured(i), owner' # owner
  PROVE  TugStep
  <1> DEFINE t == area[i].team
  <1>1. /\ phase = "open" /\ t \in Teams /\ TeamMayCapturePoint(t, i)
        /\ owner' = [owner EXCEPT ![i] = t]
    BY CaptureFacts
  <1>2. owner[i] # t /\ owner'[i] = t BY <1>1 DEF TypeOK
  <1>3. \A k \in Between(Base(t), i) \ {i} : owner[k] = t BY <1>1, MayCaptureConnected
  <1>4. \A k \in Tug!Road(t, i) : owner[k] = t
    <2>1. N \in Nat /\ Base(t) \in {0, N - 1} BY <1>1, BaseFacts
    <2>2. Tug!Road(t, i) \subseteq Between(Base(t), i) \ {i}
      BY <1>1, <2>1 DEF Tug!Road, Between, Points
    <2>3. QED BY <1>3, <2>2
  <1>5. CheckWinConditions(owner') /\ ~disabled
    BY DEF Captured, CaptureCompletes, InternalSetOwner, WinInv, LinearMap
  <1>6. MayWin = Teams BY DEF LinearMap
  <1>7. IF \A k \in Points : owner'[k] = t THEN Tug!Ends(t) ELSE UNCHANGED <<phase, winner>>
    <2>1. CASE \A k \in Points : owner'[k] = t
      <3>1. TeamOwnsAllPoints(owner') = t BY <1>1, <2>1, AllOwned
      <3>2. QED BY <1>1, <1>5, <1>6, <2>1, <3>1 DEF CheckWinConditions, SetWinningTeam, Tug!Ends
    <2>2. CASE ~\A k \in Points : owner'[k] = t
      <3>1. \A u \in Teams : \E k \in Points : owner'[k] # u BY <1>2, <2>2
      <3>2. TeamOwnsAllPoints(owner') = None BY <3>1, NotAllOwned DEF LinearMap, SameGroup
      <3>3. QED BY <1>5, <1>6, <2>2, <3>2, TeamAssumption DEF CheckWinConditions
    <2>3. QED BY <2>1, <2>2
  <1>8. Tug!Advance(t, i) BY <1>1, <1>2, <1>4, <1>7 DEF Tug!Advance
  <1>9. QED BY <1>1, <1>8 DEF TugStep, Tug!Next

LEMMA StepTugs ==
  ASSUME TypeOK, LinearMap, ChainInv, ResourceAgrees, WinInv, [Next]_vars
  PROVE  TugStep
  <1>1. NoHandouts BY DEF NoHandouts, LinearMap
  <1>2. CASE RoundRespawn BY <1>2 DEF RoundRespawn, TugStep, Tug!Next, Tug!NewRound
  <1>3. CASE UNCHANGED owner /\ ~RoundRespawn BY <1>1, <1>3, StepMoves, RoundMovesTug
  <1>4. CASE owner' # owner /\ ~RoundRespawn BY <1>1, <1>4, OwnerSteps, CaptureAdvances
  <1>5. QED BY <1>2, <1>3, <1>4

\* With any number of points and players, everything that areas, touches,
\* deaths, locks and the master do on a linear map shows as a tug of war: the
\* front moves by one capture at a time along an unbroken road, and the capture
\* that takes the last point is the one that ends the round.
THEOREM LinearMapIsTugOfWar == ASSUME LinearMap PROVE Spec => PlaysTugOfWar
  <1>1. Init => WinInv /\ ChainInv /\ Tug!Init
    BY LinearUndecided, DefaultChain
       DEF Init, WinInv, Undecided, ChainInv, Owned, Tug!Init
  <1>2. TypeOK /\ WinInv /\ [Next]_vars => WinInv' BY LinearUndecided, StepWins
  <1>3. TypeOK /\ ResourceAgrees /\ WinInv /\ ChainInv /\ [Next]_vars => ChainInv'
    BY StepChain
  <1>4. TypeOK /\ ResourceAgrees /\ WinInv /\ ChainInv /\ [Next]_vars => [Tug!Next]_(Tug!tug)
    BY StepTugs DEF TugStep
  <1>5. QED BY <1>1, <1>2, <1>3, <1>4, ControlPointsTypeCorrect, ResourceAgreesAlways, PTL
            DEF Spec, PlaysTugOfWar, Tug!Spec

=============================================================================
