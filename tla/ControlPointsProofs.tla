------------------------ MODULE ControlPointsProofs ------------------------
(***************************************************************************)
(* Theorems about ControlPoints, for every value of its constants.         *)
(***************************************************************************)
EXTENDS ControlPoints, TLAPS, WellFoundedInduction

ResourceRecord == [owner : Owners, capping : Owners]

-----------------------------------------------------------------------------
(***************************************************************************)
(* What one think of an area may do.                                       *)
(***************************************************************************)

\* The capture of s.team ends: it is alone in the zone and has cappers there.
CaptureCompletes(i, s, ins) ==
    /\ phase = "open" /\ s.team # None
    /\ TeamInZone(i, s.team, ins) /\ TeamsInZone(i, ins) # Teams
    /\ SetOwningTeam(i, s.team)
    /\ InternalSetOwner(i, s.team)

\* The area goes on, begins or breaks a capture, or completes one.
ThinkOutcome(i, s, ins) ==
    \E new \in AreaStates :
        /\ area' = [area EXCEPT ![i] = new]
        /\ \/ new.team = s.team /\ UNCHANGED <<owner, res, round>>
           \/ SetCappingTeam(i, new.team) /\ UNCHANGED <<owner, round>>
           \/ new.team = None /\ CaptureCompletes(i, s, ins)

LEMMA StepBounds == {0, CapSteps} \subseteq 0 .. CapSteps
  BY CaptureAssumption

LEMMA KeepOutcome ==
  ASSUME NEW i \in Points, NEW s \in AreaStates, NEW ins, NEW new \in AreaStates,
         new.team = s.team, Keep(i, new)
  PROVE  ThinkOutcome(i, s, ins)
  BY DEF Keep, ThinkOutcome

LEMMA SetTimeOutcome ==
  ASSUME NEW i \in Points, NEW s \in AreaStates, NEW ins, NEW left \in 0 .. CapSteps,
         SetCapTimeRemaining(i, s, left)
  PROVE  ThinkOutcome(i, s, ins)
  <1> DEFINE new == [s EXCEPT !.left = left, !.blocked = FALSE]
  <1>1. new \in AreaStates /\ new.team = s.team BY DEF AreaStates
  <1>2. area' = [area EXCEPT ![i] = new] /\ UNCHANGED <<owner, res, round>>
    BY DEF SetCapTimeRemaining
  <1>3. QED BY <1>1, <1>2 DEF ThinkOutcome

LEMMA StartOutcome ==
  ASSUME NEW i \in Points, NEW s \in AreaStates, NEW ins, NEW t \in Teams, StartCapture(i, t, s)
  PROVE  ThinkOutcome(i, s, ins)
  <1> DEFINE new == [s EXCEPT !.team = t, !.left = CapSteps, !.blocked = FALSE]
  <1>1. new \in AreaStates /\ new.team = t BY StepBounds DEF AreaStates, Owners
  <1>2. area' = [area EXCEPT ![i] = new] /\ SetCappingTeam(i, t) /\ UNCHANGED <<owner, round>>
    BY DEF StartCapture
  <1>3. QED BY <1>1, <1>2 DEF ThinkOutcome

LEMMA BreakOutcome ==
  ASSUME NEW i \in Points, NEW s \in AreaStates, NEW ins, NEW b \in BOOLEAN,
         BreakCapture(i, [s EXCEPT !.blocked = b])
  PROVE  ThinkOutcome(i, s, ins)
  <1> DEFINE old == [s EXCEPT !.blocked = b]
             new == [old EXCEPT !.team = None, !.left = 0]
  <1>1. new \in AreaStates /\ new.team = None BY StepBounds DEF AreaStates, Owners
  <1>2. area' = [area EXCEPT ![i] = new] /\ SetCappingTeam(i, None) /\ UNCHANGED <<owner, round>>
    BY DEF BreakCapture
  <1>3. QED BY <1>1, <1>2 DEF ThinkOutcome

LEMMA ProgressOutcome ==
  ASSUME NEW i \in Points, NEW s \in AreaStates, NEW ins, NEW elapsed \in {0, 1},
         phase = "open", s.team # None,
         TeamInZone(i, s.team, ins), TeamsInZone(i, ins) # Teams, Progress(i, s, elapsed)
  PROVE  ThinkOutcome(i, s, ins)
  <1>1. CASE s.left <= elapsed
    <2> DEFINE old == [s EXCEPT !.blocked = FALSE]
               new == [old EXCEPT !.team = None, !.left = 0, !.owning = old.team]
    <2>1. new \in AreaStates /\ new.team = None /\ old.team = s.team
      BY StepBounds DEF AreaStates, Owners
    <2>2. EndCapture(i, old) BY <1>1 DEF Progress
    <2>3. area' = [area EXCEPT ![i] = new] /\ SetOwningTeam(i, s.team) /\ InternalSetOwner(i, s.team)
      BY <2>1, <2>2 DEF EndCapture
    <2>4. QED BY <2>1, <2>3 DEF ThinkOutcome, CaptureCompletes
  <1>2. CASE ~(s.left <= elapsed)
    <2>1. s.left - elapsed \in 0 .. CapSteps BY <1>2, CaptureAssumption DEF AreaStates
    <2>2. QED BY <1>2, <2>1, SetTimeOutcome DEF Progress
  <1>3. QED BY <1>1, <1>2

LEMMA DeteriorateOutcome ==
  ASSUME NEW i \in Points, NEW s \in AreaStates, NEW ins, NEW elapsed \in {0, 1},
         NEW startTouch \in BOOLEAN, Deteriorate(i, s, ins, elapsed, startTouch)
  PROVE  ThinkOutcome(i, s, ins)
  <1>1. PICK left \in 0 .. CapSteps :
            \/ BreakCapture(i, [s EXCEPT !.blocked = FALSE])
            \/ SetCapTimeRemaining(i, s, left)
    <2> DEFINE gradual == \/ s.owning = None /\ \E t \in Teams : TeamInZone(i, t, ins)
                          \/ TeamMayCapturePoint(s.team, i)
               left == IF gradual /\ s.left + elapsed < CapSteps THEN s.left + elapsed ELSE CapSteps
    <2>1. left \in 0 .. CapSteps BY CaptureAssumption DEF AreaStates
    <2>2. \/ BreakCapture(i, [s EXCEPT !.blocked = FALSE])
          \/ SetCapTimeRemaining(i, s, left)
      BY DEF Deteriorate
    <2>3. QED BY <2>1, <2>2
  <1>2. QED BY <1>1, BreakOutcome, SetTimeOutcome

LEMMA ContestedOutcome ==
  ASSUME NEW i \in Points, NEW s \in AreaStates, NEW ins, Contested(i, s)
  PROVE  ThinkOutcome(i, s, ins)
  <1>1. CASE BlocksPause
    <2>1. [s EXCEPT !.blocked = TRUE] \in AreaStates /\ [s EXCEPT !.blocked = TRUE].team = s.team
      BY DEF AreaStates
    <2>2. QED BY <1>1, <2>1, KeepOutcome DEF Contested
  <1>2. CASE ~BlocksPause
    BY <1>2, BreakOutcome DEF Contested
  <1>3. QED BY <1>1, <1>2

\* Whatever an area thinks, it does one of the things of ThinkOutcome.
LEMMA ThinkHasOutcome ==
  ASSUME NEW i \in Points, NEW s \in AreaStates, NEW ins, NEW elapsed \in {0, 1},
         NEW startTouch \in BOOLEAN, CaptureThink(i, s, ins, elapsed, startTouch)
  PROVE  ThinkOutcome(i, s, ins)
  <1>1. CASE phase # "open" /\ s.team # None
    <2>1. [s EXCEPT !.blocked = s.blocked] = s /\ s.blocked \in BOOLEAN BY DEF AreaStates
    <2>2. BreakCapture(i, [s EXCEPT !.blocked = s.blocked]) BY <1>1, <2>1 DEF CaptureThink
    <2>3. QED BY <2>1, <2>2, BreakOutcome
  <1>2. CASE phase # "open" /\ s.team = None
    BY <1>2, KeepOutcome DEF CaptureThink
  <1>3. CASE phase = "open" /\ s.team # None
    <2>1. ContinueCapture(i, s, ins, elapsed, startTouch) BY <1>3 DEF CaptureThink
    <2>2. CASE TeamsInZone(i, ins) = Teams
      BY <2>1, <2>2, ContestedOutcome DEF ContinueCapture
    <2>3. CASE TeamsInZone(i, ins) # Teams /\ TeamInZone(i, s.team, ins)
      BY <1>3, <2>1, <2>3, ProgressOutcome DEF ContinueCapture
    <2>4. CASE TeamsInZone(i, ins) # Teams /\ ~TeamInZone(i, s.team, ins)
      BY <2>1, <2>4, DeteriorateOutcome DEF ContinueCapture
    <2>5. QED BY <2>2, <2>3, <2>4
  <1>4. CASE phase = "open" /\ s.team = None
    <2>1. TryStart(i, s, ins) BY <1>4 DEF CaptureThink
    <2>2. StartCapture(i, Red, s) \/ StartCapture(i, Blue, s) \/ Keep(i, s)
      BY <2>1 DEF TryStart
    <2>3. QED BY <2>2, StartOutcome, KeepOutcome DEF Teams
  <1>5. QED BY <1>1, <1>2, <1>3, <1>4

-----------------------------------------------------------------------------
(***************************************************************************)
(* Type correctness.                                                       *)
(***************************************************************************)

BodyTypes ==
    /\ life \in [Players -> Lives] /\ in \in [Players -> Points \cup {None}]
    /\ scoring \subseteq Players

RoundTypes == phase \in Phases /\ waiting \in BOOLEAN /\ winner \in Owners /\ fired \subseteq Teams

PlayTypes ==
    /\ area \in [Points -> AreaStates] /\ owner \in [Points -> Owners]
    /\ res \in [Points -> ResourceRecord] /\ RoundTypes

LEMMA TypeParts ==
  TypeOK <=> BodyTypes /\ PlayTypes /\ locked \subseteq Points /\ disabled \in BOOLEAN
  BY DEF TypeOK, BodyTypes, PlayTypes, RoundTypes, ResourceRecord

LEMMA NextTypeParts ==
  BodyTypes' /\ PlayTypes' /\ locked' \subseteq Points /\ disabled' \in BOOLEAN => TypeOK'
  BY DEF TypeOK, BodyTypes, PlayTypes, RoundTypes, ResourceRecord

LEMMA WinTypes ==
  ASSUME RoundTypes, NEW own, CheckWinConditions(own)
  PROVE  RoundTypes'
  <1>1. CASE phase' = "won" /\ winner' \in MayWin /\ fired' = fired \cup {winner'} /\ waiting' = waiting
    BY <1>1, PointAssumption DEF RoundTypes, Phases, Owners
  <1>2. CASE phase' = phase /\ winner' = winner /\ waiting' = waiting /\ fired' \subseteq Teams
    BY <1>2 DEF RoundTypes
  <1>3. \/ phase' = "won" /\ winner' \in MayWin /\ fired' = fired \cup {winner'} /\ waiting' = waiting
        \/ phase' = phase /\ winner' = winner /\ waiting' = waiting /\ fired' \subseteq Teams
    BY PointAssumption DEF CheckWinConditions, SetWinningTeam, RoundTypes
  <1>4. QED BY <1>1, <1>2, <1>3

LEMMA OwnerTypes ==
  ASSUME PlayTypes, NEW i \in Points, NEW t \in Owners, InternalSetOwner(i, t)
  PROVE  owner' \in [Points -> Owners] /\ RoundTypes'
  BY WinTypes DEF PlayTypes, InternalSetOwner

LEMMA OutcomeTypes ==
  ASSUME PlayTypes, NEW i \in Points, NEW s \in AreaStates, NEW ins, ThinkOutcome(i, s, ins)
  PROVE  PlayTypes'
  <1>1. PICK new \in AreaStates :
            /\ area' = [area EXCEPT ![i] = new]
            /\ \/ new.team = s.team /\ UNCHANGED <<owner, res, round>>
               \/ SetCappingTeam(i, new.team) /\ UNCHANGED <<owner, round>>
               \/ new.team = None /\ CaptureCompletes(i, s, ins)
    BY DEF ThinkOutcome
  <1>2. area' \in [Points -> AreaStates] BY <1>1 DEF PlayTypes
  <1>3. s.team \in Owners /\ new.team \in Owners BY DEF AreaStates
  <1>4. CASE UNCHANGED <<owner, res, round>>
    BY <1>2, <1>4 DEF PlayTypes, RoundTypes, round
  <1>5. CASE SetCappingTeam(i, new.team) /\ UNCHANGED <<owner, round>>
    <2>1. res' \in [Points -> ResourceRecord]
      BY <1>3, <1>5 DEF PlayTypes, SetCappingTeam, ResourceRecord
    <2>2. QED BY <1>2, <1>5, <2>1 DEF PlayTypes, RoundTypes, round
  <1>6. CASE CaptureCompletes(i, s, ins)
    <2>1. res' \in [Points -> ResourceRecord]
      BY <1>3, <1>6 DEF PlayTypes, CaptureCompletes, SetOwningTeam, ResourceRecord, Owners
    <2>2. owner' \in [Points -> Owners] /\ RoundTypes'
      BY <1>3, <1>6, OwnerTypes DEF CaptureCompletes
    <2>3. QED BY <1>2, <2>1, <2>2 DEF PlayTypes
  <1>7. QED BY <1>1, <1>4, <1>5, <1>6

LEMMA FreshTypes == FreshAreas \in [Points -> AreaStates] /\ FreshResource \in [Points -> ResourceRecord]
  <1>1. \A i \in Points : FreshArea(i) \in AreaStates
    BY StepBounds, PointAssumption DEF FreshArea, AreaStates, Owners
  <1>2. QED BY <1>1, PointAssumption DEF FreshAreas, FreshResource, ResourceRecord, Owners

LEMMA InitTypes == Init => TypeOK
  <1> SUFFICES ASSUME Init PROVE TypeOK OBVIOUS
  <1>1. BodyTypes BY DEF Init, BodyTypes, AllAlive, Nowhere, Lives
  <1>2. PlayTypes BY FreshTypes, PointAssumption DEF Init, PlayTypes, RoundTypes, Phases, Owners
  <1>3. QED BY <1>1, <1>2, TypeParts, NextTypeParts, PointAssumption DEF Init

\* The parts of a step that leaves the play of the points alone.
LEMMA PlayUnchanged ==
  ASSUME TypeOK, UNCHANGED <<area, points, round, disabled>>
  PROVE  PlayTypes' /\ locked' \subseteq Points /\ disabled' \in BOOLEAN
  BY TypeParts DEF PlayTypes, RoundTypes, points, round

LEMMA PlayerTypes ==
  ASSUME TypeOK, NEW p \in Players, PlayerSteps(p)
  PROVE  TypeOK'
  <1>0. BodyTypes /\ PlayTypes BY TypeParts
  <1>1. ASSUME NEW i \in Points, StartTouch(p, i) PROVE TypeOK'
    <2>1. in' \in [Players -> Points \cup {None}] /\ scoring' \subseteq Players
      BY <1>0, <1>1 DEF StartTouch, EscortsOf, BodyTypes
    <2>2. [area[i] EXCEPT !.owning = owner[i]] \in AreaStates
      BY <1>0 DEF PlayTypes, AreaStates
    <2>3. PlayTypes' BY <1>0, <1>1, <2>2, ThinkHasOutcome, OutcomeTypes DEF StartTouch
    <2>4. UNCHANGED <<life, locked, disabled>> BY <1>1 DEF StartTouch
    <2>5. QED BY <1>0, <2>1, <2>3, <2>4, TypeParts, NextTypeParts DEF BodyTypes
  <1>2. CASE EndTouch(p)
    <2>1. BodyTypes' BY <1>0, <1>2 DEF EndTouch, BodyTypes
    <2>2. QED BY <1>2, <2>1, PlayUnchanged, TypeParts, NextTypeParts DEF EndTouch
  <1>3. CASE AreaTouch(p)
    <2>1. in[p] \in Points /\ UNCHANGED <<bodies, points, round, disabled>>
      BY <1>0, <1>3 DEF AreaTouch, BodyTypes
    <2>2. area' \in [Points -> AreaStates]
      BY <1>0, <1>3, <2>1 DEF AreaTouch, PlayTypes, AreaStates
    <2>3. PlayTypes' BY <1>0, <2>1, <2>2 DEF PlayTypes, RoundTypes, points, round
    <2>4. QED BY <1>0, <2>1, <2>3, TypeParts, NextTypeParts DEF BodyTypes, bodies, points
  <1>4. CASE Die(p)
    <2>1. BodyTypes' BY <1>0, <1>4 DEF Die, BodyTypes, Lives
    <2>2. QED BY <1>4, <2>1, PlayUnchanged, TypeParts, NextTypeParts DEF Die
  <1>5. CASE Respawn(p)
    <2>1. BodyTypes' BY <1>0, <1>5 DEF Respawn, BodyTypes, Lives
    <2>2. QED BY <1>5, <2>1, PlayUnchanged, TypeParts, NextTypeParts DEF Respawn
  <1>6. CASE ChangeCondition(p)
    <2>1. BodyTypes' BY <1>0, <1>6 DEF ChangeCondition, BodyTypes
    <2>2. QED BY <1>6, <2>1, PlayUnchanged, TypeParts, NextTypeParts DEF ChangeCondition
  <1>7. QED BY <1>1, <1>2, <1>3, <1>4, <1>5, <1>6 DEF PlayerSteps

LEMMA MapTypes ==
  ASSUME TypeOK, MapSteps
  PROVE  TypeOK'
  <1>0. BodyTypes /\ PlayTypes BY TypeParts
  <1>1. ASSUME NEW i \in Points, NEW t \in Owners, InternalSetOwner(i, t), SetOwningTeam(i, t),
               UNCHANGED <<bodies, area, locked, disabled>>
        PROVE  TypeOK'
    <2>1. owner' \in [Points -> Owners] /\ RoundTypes' BY <1>0, <1>1, OwnerTypes
    <2>2. res' \in [Points -> ResourceRecord]
      BY <1>0, <1>1 DEF PlayTypes, SetOwningTeam, ResourceRecord, Owners
    <2>3. PlayTypes' BY <1>0, <1>1, <2>1, <2>2 DEF PlayTypes
    <2>4. QED BY <1>0, <1>1, <2>3, TypeParts, NextTypeParts DEF BodyTypes, bodies
  <1>2. ASSUME NEW i \in Points, InputSetLocked(i) PROVE TypeOK'
    <2>1. locked' \subseteq Points /\ UNCHANGED <<bodies, area, owner, res, round, disabled>>
      BY <1>2, TypeParts DEF InputSetLocked
    <2>2. QED BY <1>0, <2>1, TypeParts, NextTypeParts DEF BodyTypes, bodies, PlayTypes, RoundTypes, round
  <1>3. ASSUME NEW i \in Points, InputCaptureCurrentCP(i) PROVE TypeOK'
    <2>1. area[i] \in AreaStates /\ area[i].team \in Owners BY <1>0 DEF PlayTypes, AreaStates
    <2>2. EndCapture(i, area[i]) /\ UNCHANGED <<bodies, locked, disabled>>
      BY <1>3 DEF InputCaptureCurrentCP
    <2>3. res' \in [Points -> ResourceRecord]
      BY <1>0, <2>1, <2>2 DEF PlayTypes, EndCapture, SetOwningTeam, ResourceRecord, Owners
    <2>4. owner' \in [Points -> Owners] /\ RoundTypes'
      <3>1. CASE phase = "open" BY <1>0, <2>1, <2>2, <3>1, OwnerTypes DEF EndCapture
      <3>2. CASE phase # "open"
        BY <1>0, <2>2, <3>2 DEF EndCapture, PlayTypes, RoundTypes, round
      <3>3. QED BY <3>1, <3>2
    <2>5. area' \in [Points -> AreaStates]
      BY <1>0, <2>1, <2>2, StepBounds DEF PlayTypes, EndCapture, AreaStates, Owners
    <2>6. PlayTypes' BY <2>3, <2>4, <2>5 DEF PlayTypes
    <2>7. QED BY <1>0, <2>2, <2>6, TypeParts, NextTypeParts DEF BodyTypes, bodies
  <1>4. ASSUME NEW t \in Teams, InputSetWinner(t) PROVE TypeOK'
    <2>1. UNCHANGED <<bodies, area, points, waiting, disabled>> BY <1>4 DEF InputSetWinner
    <2>2. phase' \in Phases /\ winner' \in Owners /\ fired' \subseteq Teams
      BY <1>0, <1>4 DEF InputSetWinner, SetWinningTeam, PlayTypes, RoundTypes, Phases, Owners
    <2>3. PlayTypes' BY <1>0, <2>1, <2>2 DEF PlayTypes, RoundTypes, points
    <2>4. QED BY <1>0, <2>1, <2>3, TypeParts, NextTypeParts DEF BodyTypes, bodies, points
  <1>5. CASE InputEnableDisable
    <2>1. UNCHANGED <<bodies, area, points, round>> /\ disabled' \in BOOLEAN
      BY <1>5, TypeParts DEF InputEnableDisable
    <2>2. QED BY <1>0, <2>1, TypeParts, NextTypeParts DEF BodyTypes, bodies, PlayTypes, RoundTypes, points, round
  <1>6. ASSUME NEW i \in Points, NEW t \in Owners, InputSetOwner(i, t) PROVE TypeOK'
    BY <1>1, <1>6 DEF InputSetOwner
  <1>7. ASSUME NEW i \in Points, InputReset(i) PROVE TypeOK'
    BY <1>1, <1>7, PointAssumption DEF InputReset
  <1>8. QED BY <1>2, <1>3, <1>4, <1>5, <1>6, <1>7 DEF MapSteps

LEMMA RoundStepTypes ==
  ASSUME TypeOK, RoundSteps
  PROVE  TypeOK'
  <1>0. BodyTypes /\ PlayTypes BY TypeParts
  <1>1. CASE RoundRespawn
    <2>1. BodyTypes' BY <1>1 DEF RoundRespawn, BodyTypes, AllAlive, Nowhere, Lives
    <2>2. RoundTypes'
      BY <1>0, <1>1 DEF RoundRespawn, PlayTypes, RoundTypes, Phases, Owners
    <2>3. PlayTypes' BY <1>1, <2>2, FreshTypes, PointAssumption DEF RoundRespawn, PlayTypes
    <2>4. QED BY <1>1, <2>1, <2>3, TypeParts, NextTypeParts, PointAssumption DEF RoundRespawn
  <1>2. ASSUME phase' \in Phases, winner' \in Owners,
               UNCHANGED <<bodies, area, points, waiting, fired, disabled>>
        PROVE  TypeOK'
    <2>1. PlayTypes' BY <1>0, <1>2 DEF PlayTypes, RoundTypes, points
    <2>2. QED BY <1>0, <1>2, <2>1, TypeParts, NextTypeParts DEF BodyTypes, bodies, points
  <1>3. CASE OpenPoints BY <1>0, <1>2, <1>3 DEF OpenPoints, PlayTypes, RoundTypes, Phases
  <1>4. CASE ClosePoints BY <1>0, <1>2, <1>4 DEF ClosePoints, PlayTypes, RoundTypes, Phases
  <1>5. ASSUME NEW t \in Owners, WonElsewhere(t) PROVE TypeOK'
    BY <1>2, <1>5 DEF WonElsewhere, SetWinningTeam, Phases
  <1>6. QED BY <1>1, <1>3, <1>4, <1>5 DEF RoundSteps

LEMMA ThinkTypes ==
  ASSUME TypeOK, NEW i \in Points, Think(i)
  PROVE  TypeOK'
  <1>0. BodyTypes /\ PlayTypes BY TypeParts
  <1>1. area[i] \in AreaStates BY <1>0 DEF PlayTypes
  <1>2. PlayTypes' BY <1>0, <1>1, ThinkHasOutcome, OutcomeTypes DEF Think
  <1>3. scoring' \subseteq Players /\ UNCHANGED <<life, in, locked, disabled>>
    BY <1>0 DEF Think, EscortsOf, BodyTypes
  <1>4. QED BY <1>0, <1>2, <1>3, TypeParts, NextTypeParts DEF BodyTypes

LEMMA StepTypes == TypeOK /\ [Next]_vars => TypeOK'
  <1> SUFFICES ASSUME TypeOK, [Next]_vars PROVE TypeOK' OBVIOUS
  <1>0. BodyTypes /\ PlayTypes BY TypeParts
  <1>1. CASE CPMThink
    <2>1. RoundTypes' /\ UNCHANGED <<bodies, area, points, disabled>>
      BY <1>0, <1>1, WinTypes DEF CPMThink, PlayTypes
    <2>2. PlayTypes' BY <1>0, <2>1 DEF PlayTypes, points
    <2>3. QED BY <1>0, <2>1, <2>2, TypeParts, NextTypeParts DEF BodyTypes, bodies, points
  <1>2. CASE UNCHANGED vars
    <2>1. BodyTypes' BY <1>0, <1>2 DEF vars, BodyTypes, bodies
    <2>2. QED BY <1>2, <2>1, PlayUnchanged, TypeParts, NextTypeParts DEF vars
  <1>3. QED BY <1>1, <1>2, PlayerTypes, MapTypes, RoundStepTypes, ThinkTypes DEF Next

\* Every variable keeps its type; above all, the time that remains of a capture
\* stays between nothing and the whole, whatever thinks, touches and blocks
\* CTriggerAreaCapture goes through.
THEOREM ControlPointsTypeCorrect == Spec => []TypeOK
  BY InitTypes, StepTypes, PTL DEF Spec

-----------------------------------------------------------------------------
(***************************************************************************)
(* The objective resource.                                                 *)
(***************************************************************************)

LEMMA OutcomeAgrees ==
  ASSUME TypeOK, ResourceAgrees, NEW i \in Points, NEW s \in AreaStates, NEW ins,
         s.team = area[i].team, ThinkOutcome(i, s, ins)
  PROVE  ResourceAgrees'
  <1>1. PICK new \in AreaStates :
            /\ area' = [area EXCEPT ![i] = new]
            /\ \/ new.team = s.team /\ UNCHANGED <<owner, res, round>>
               \/ SetCappingTeam(i, new.team) /\ UNCHANGED <<owner, round>>
               \/ new.team = None /\ CaptureCompletes(i, s, ins)
    BY DEF ThinkOutcome
  <1>2. area'[i] = new /\ \A j \in Points \ {i} : area'[j] = area[j]
    BY <1>1 DEF TypeOK
  <1>3. CASE new.team = s.team /\ UNCHANGED <<owner, res, round>>
    BY <1>2, <1>3 DEF ResourceAgrees
  <1>4. CASE SetCappingTeam(i, new.team) /\ UNCHANGED <<owner, round>>
    <2>1. res'[i].capping = new.team /\ res'[i].owner = res[i].owner
          /\ \A j \in Points \ {i} : res'[j] = res[j]
      BY <1>4 DEF SetCappingTeam, TypeOK
    <2>2. QED BY <1>2, <1>4, <2>1 DEF ResourceAgrees
  <1>5. CASE new.team = None /\ CaptureCompletes(i, s, ins)
    <2>1. /\ res'[i].capping = None /\ res'[i].owner = s.team /\ owner'[i] = s.team
          /\ \A j \in Points \ {i} : res'[j] = res[j] /\ owner'[j] = owner[j]
      BY <1>5 DEF CaptureCompletes, SetOwningTeam, InternalSetOwner, TypeOK
    <2>2. QED BY <1>2, <1>5, <2>1 DEF ResourceAgrees
  <1>6. QED BY <1>1, <1>3, <1>4, <1>5

LEMMA AgreesUnchanged ==
  ASSUME ResourceAgrees, UNCHANGED <<area, owner, res>>
  PROVE  ResourceAgrees'
  BY DEF ResourceAgrees

LEMMA InitAgrees == Init => ResourceAgrees
  BY DEF Init, ResourceAgrees, FreshAreas, FreshArea, FreshResource

LEMMA StepAgrees == TypeOK /\ ResourceAgrees /\ [Next]_vars => ResourceAgrees'
  <1> SUFFICES ASSUME TypeOK, ResourceAgrees, [Next]_vars PROVE ResourceAgrees'
    OBVIOUS
  <1>1. ASSUME NEW p \in Players, NEW i \in Points, StartTouch(p, i) PROVE ResourceAgrees'
    <2> DEFINE s == [area[i] EXCEPT !.owning = owner[i]]
    <2>1. s \in AreaStates /\ s.team = area[i].team BY DEF TypeOK, AreaStates
    <2>2. ThinkOutcome(i, s, in') BY <1>1, <2>1, ThinkHasOutcome DEF StartTouch
    <2>3. QED BY <2>1, <2>2, OutcomeAgrees
  <1>2. ASSUME NEW p \in Players, AreaTouch(p) PROVE ResourceAgrees'
    <2>1. /\ in[p] \in Points /\ UNCHANGED <<owner, res>>
          /\ area' = [area EXCEPT ![in[p]].owning = owner[in[p]]]
      BY <1>2 DEF AreaTouch, TypeOK, points
    <2>2. \A i \in Points : area'[i].team = area[i].team
      BY <2>1 DEF TypeOK, AreaStates
    <2>3. QED BY <2>1, <2>2 DEF ResourceAgrees
  <1>3. ASSUME NEW p \in Players, EndTouch(p) \/ Die(p) \/ Respawn(p) \/ ChangeCondition(p)
        PROVE  ResourceAgrees'
    BY <1>3, AgreesUnchanged DEF EndTouch, Die, Respawn, ChangeCondition, points
  <1>4. ASSUME NEW i \in Points, Think(i) PROVE ResourceAgrees'
    <2>1. area[i] \in AreaStates BY DEF TypeOK
    <2>2. QED BY <1>4, <2>1, ThinkHasOutcome, OutcomeAgrees DEF Think
  <1>5. CASE CPMThink BY <1>5, AgreesUnchanged DEF CPMThink, points
  <1>6. ASSUME NEW i \in Points, NEW t \in Owners, InternalSetOwner(i, t), SetOwningTeam(i, t),
               UNCHANGED area, MapInputs \cap {"owner", "reset"} # {}
        PROVE  ResourceAgrees'
    <2>1. /\ res'[i].capping = None /\ res'[i].owner = t /\ owner'[i] = t
          /\ \A j \in Points \ {i} : res'[j] = res[j] /\ owner'[j] = owner[j]
      BY <1>6 DEF SetOwningTeam, InternalSetOwner, TypeOK
    <2>2. QED BY <1>6, <2>1 DEF ResourceAgrees
  <1>7. ASSUME NEW i \in Points, InputCaptureCurrentCP(i) PROVE ResourceAgrees'
    <2>1. /\ "capture" \in MapInputs
          /\ area'[i].team = None /\ \A j \in Points \ {i} : area'[j] = area[j]
          /\ res'[i].capping = None /\ \A j \in Points \ {i} : res'[j] = res[j]
      BY <1>7 DEF InputCaptureCurrentCP, EndCapture, SetOwningTeam, TypeOK, AreaStates
    <2>2. QED BY <2>1 DEF ResourceAgrees
  <1>8. CASE MapSteps
    <2>1. ASSUME NEW i \in Points, NEW t \in Owners, InputSetOwner(i, t) PROVE ResourceAgrees'
      BY <1>6, <2>1 DEF InputSetOwner
    <2>2. ASSUME NEW i \in Points, InputReset(i) PROVE ResourceAgrees'
      BY <1>6, <2>2, PointAssumption DEF InputReset
    <2>3. ASSUME NEW i \in Points, InputSetLocked(i) PROVE ResourceAgrees'
      BY <2>3, AgreesUnchanged DEF InputSetLocked
    <2>4. ASSUME NEW t \in Teams, InputSetWinner(t) PROVE ResourceAgrees'
      BY <2>4, AgreesUnchanged DEF InputSetWinner, points
    <2>5. CASE InputEnableDisable BY <2>5, AgreesUnchanged DEF InputEnableDisable, points
    <2>6. QED BY <1>7, <1>8, <2>1, <2>2, <2>3, <2>4, <2>5 DEF MapSteps
  <1>9. CASE RoundSteps
    <2>1. CASE RoundRespawn
      BY <2>1 DEF RoundRespawn, ResourceAgrees, FreshAreas, FreshArea, FreshResource
    <2>2. CASE OpenPoints \/ ClosePoints \/ \E t \in Owners : WonElsewhere(t)
      BY <2>2, AgreesUnchanged DEF OpenPoints, ClosePoints, WonElsewhere, points
    <2>3. QED BY <1>9, <2>1, <2>2 DEF RoundSteps
  <1>10. CASE UNCHANGED vars BY <1>10, AgreesUnchanged DEF vars, points
  <1>11. QED BY <1>1, <1>2, <1>3, <1>4, <1>5, <1>8, <1>9, <1>10 DEF Next, PlayerSteps

\* The objective resource, which TeamMayCapturePoint and the clients read,
\* agrees with the points and the areas in every state.
THEOREM ResourceAgreesAlways == Spec => []ResourceAgrees
  BY InitAgrees, StepAgrees, ControlPointsTypeCorrect, PTL DEF Spec

-----------------------------------------------------------------------------
(***************************************************************************)
(* Escort scoring.                                                         *)
(***************************************************************************)

LEMMA EscortsTouch ==
  ASSUME NEW i \in Points, NEW ins, NEW p \in EscortsOf(i, ins)
  PROVE  ins[p] = i
  BY DEF EscortsOf

LEMMA StepScores == TypeOK /\ ScorerInArea /\ [Next]_vars => ScorerInArea'
  <1> SUFFICES ASSUME TypeOK, ScorerInArea, [Next]_vars PROVE ScorerInArea'
    OBVIOUS
  <1>0. None \notin Points BY PointAssumption
  <1>1. ASSUME NEW p \in Players, NEW i \in Points, StartTouch(p, i) PROVE ScorerInArea'
    <2>1. /\ in' = [in EXCEPT ![p] = i] /\ UNCHANGED life
          /\ scoring' \subseteq scoring \cup EscortsOf(i, in') \cup {p}
      BY <1>1 DEF StartTouch
    <2>2. in'[p] = i /\ \A q \in Players \ {p} : in'[q] = in[q] BY <2>1 DEF TypeOK
    <2>3. ASSUME NEW q \in scoring', life[q] # "dead" PROVE in'[q] # None
      <3>1. CASE q = p \/ q \in EscortsOf(i, in')
        BY <1>0, <2>2, <3>1, EscortsTouch
      <3>2. CASE q \in scoring \ {p}
        BY <2>2, <2>3, <3>2 DEF ScorerInArea, TypeOK
      <3>3. QED BY <2>1, <2>3, <3>1, <3>2
    <2>4. QED BY <2>1, <2>3 DEF ScorerInArea
  <1>2. ASSUME NEW p \in Players, EndTouch(p) PROVE ScorerInArea'
    <2>1. scoring' = scoring \ {p} /\ UNCHANGED life BY <1>2 DEF EndTouch
    <2>2. \A q \in Players \ {p} : life[q] # "dead" => in'[q] = in[q] BY <1>2 DEF EndTouch
    <2>3. QED BY <2>1, <2>2 DEF ScorerInArea, TypeOK
  <1>3. ASSUME NEW p \in Players, Die(p) \/ ChangeCondition(p) PROVE ScorerInArea'
    <2>1. UNCHANGED <<in, scoring>> /\ life[p] # "dead"
          /\ \A q \in Players \ {p} : life'[q] = life[q]
      BY <1>3 DEF Die, ChangeCondition, TypeOK
    <2>2. QED BY <2>1 DEF ScorerInArea, TypeOK
  <1>4. ASSUME NEW p \in Players, Respawn(p) PROVE ScorerInArea'
    <2>1. scoring' = scoring \ {p} /\ UNCHANGED in
          /\ \A q \in Players \ {p} : life'[q] = life[q]
      BY <1>4 DEF Respawn, TypeOK
    <2>2. QED BY <2>1 DEF ScorerInArea, TypeOK
  <1>5. ASSUME NEW i \in Points, Think(i) PROVE ScorerInArea'
    <2>1. scoring' = scoring \cup EscortsOf(i, in) /\ UNCHANGED <<life, in>> BY <1>5 DEF Think
    <2>2. QED BY <1>0, <2>1, EscortsTouch DEF ScorerInArea
  <1>6. CASE RoundRespawn BY <1>6 DEF RoundRespawn, ScorerInArea
  <1>7. CASE UNCHANGED bodies BY <1>7 DEF ScorerInArea, bodies
  <1>8. ASSUME NEW p \in Players, AreaTouch(p) PROVE ScorerInArea' BY <1>7, <1>8 DEF AreaTouch
  <1>9. CASE CPMThink \/ UNCHANGED vars BY <1>7, <1>9 DEF CPMThink, vars
  <1>10. CASE MapSteps
    BY <1>7, <1>10 DEF MapSteps, InputSetOwner, InputReset, InputSetLocked,
                       InputCaptureCurrentCP, InputSetWinner, InputEnableDisable
  <1>11. CASE RoundSteps
    BY <1>6, <1>7, <1>11 DEF RoundSteps, OpenPoints, ClosePoints, WonElsewhere
  <1>12. QED BY <1>1, <1>2, <1>3, <1>4, <1>5, <1>8, <1>9, <1>10, <1>11 DEF Next, PlayerSteps

\* A living player who is being scored for a capture is in an area: leaving it,
\* dying in it and respawning stop the EscortScoringThink, in whatever order.
THEOREM ScorerInAreaAlways == Spec => []ScorerInArea
  <1>1. Init => ScorerInArea BY DEF Init, ScorerInArea
  <1>2. QED BY <1>1, StepScores, ControlPointsTypeCorrect, PTL DEF Spec

=============================================================================
