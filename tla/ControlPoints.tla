---------------------------- MODULE ControlPoints ----------------------------
(***************************************************************************)
(* Control points (CTeamControlPoint), the capture areas players stand in  *)
(* (CTriggerAreaCapture), the master that declares the win                 *)
(* (CTeamControlPointMaster) and the objective resource that tells clients *)
(* and the rules who owns and who captures what (CBaseTeamObjectiveResource)*)
(* on a map without mini-rounds, where each point has one area, outside    *)
(* king of the hill, arena and Mann vs. Machine, with tf_caplinear set.    *)
(*                                                                         *)
(* A time that remains is a number of capture steps; how far one think     *)
(* moves it (players, scouts, overtime) is abstracted to one step, or none *)
(* when StartTouch runs the think a second time at the same moment.        *)
(***************************************************************************)
EXTENDS Integers, FiniteSets

CONSTANTS
    Red, Blue,       \* the two game teams, Red is FIRST_GAME_TEAM
    None,            \* TEAM_UNASSIGNED, and no area
    Players,
    TeamOf,          \* the team of a player
    N,               \* the number of points, indexed from 0
    DefaultOwner,    \* m_iDefaultOwner
    LockedAtStart,   \* the points the map locks
    Previous,        \* iszPreviousPoint, a set for each team and point; a point that
                     \* requires itself names itself first
    GroupOf,         \* m_iCPGroup
    MayWin,          \* the teams m_iInvalidCapWinner does not exclude
    CanCap,          \* bCanCap
    Required,        \* iNumRequiredToCap
    CapSteps,        \* the steps of a whole capture
    ScalesWithPlayers, \* mp_capstyle
    BlocksPause,     \* mp_blockstyle
    PartialRate,     \* the master's m_flPartialCapturePointsRate > 0
    MapInputs        \* the entity inputs this map fires

Teams == {Red, Blue}
Owners == Teams \cup {None}
Points == 0 .. N - 1
InputNames == {"owner", "reset", "lock", "capture", "winner", "master"}

ASSUME TeamAssumption == Red # Blue /\ None \notin Teams
ASSUME PlayerAssumption == TeamOf \in [Players -> Teams] /\ IsFiniteSet(Players)
ASSUME PointAssumption ==
    /\ N \in Nat \ {0} /\ None \notin Points
    /\ DefaultOwner \in [Points -> Owners] /\ LockedAtStart \subseteq Points
    /\ Previous \in [Teams -> [Points -> SUBSET Points]]
    /\ GroupOf \in [Points -> Nat]
    /\ CanCap \in [Points -> SUBSET Teams] /\ MayWin \subseteq Teams
ASSUME CaptureAssumption ==
    /\ Required \in [Teams -> Nat \ {0}] /\ CapSteps \in Nat \ {0}
    /\ ScalesWithPlayers \in BOOLEAN /\ BlocksPause \in BOOLEAN /\ PartialRate \in BOOLEAN
    /\ MapInputs \subseteq InputNames

VARIABLES
    life,      \* whether a player is dead, can capture, only blocks (invulnerable), or neither (disguised, cloaked)
    in,        \* the area whose m_hTouchingEntities has the player
    scoring,   \* the players whose EscortScoringThink is scheduled
    area,      \* m_nCapturingTeam, m_nOwningTeam, m_fTimeRemaining, m_bBlocked of an area
    owner,     \* m_iTeam of a point
    locked,    \* the points whose m_bLocked is set
    res,       \* m_iOwner and m_iCappingTeam of the objective resource
    phase,     \* whether points may be captured ("open") or not, or the round is won
    waiting,   \* m_bInWaitingForPlayers
    winner,    \* m_iWinningTeam
    fired,     \* the teams the master has found to have won this round, and fired its output for
    disabled   \* m_bDisabled of the master

bodies == <<life, in, scoring>>
points == <<owner, locked, res>>
round == <<phase, waiting, winner, fired>>
vars == <<bodies, area, points, round, disabled>>

Lives == {"dead", "can", "blocks", "cannot"}
Phases == {"closed", "open", "won"}
AreaStates == [team : Owners, owning : Owners, left : 0 .. CapSteps, blocked : BOOLEAN]

-----------------------------------------------------------------------------
(* Who may capture a point: CTFGameRules. *)

\* The end of the chain of points that is a team's, by the default owners.
Base(t) == IF DefaultOwner[N - 1] = t THEN N - 1
           ELSE IF DefaultOwner[0] = t THEN 0 ELSE -1

Between(i, j) == {k \in Points : (i <= k /\ k <= j) \/ (j <= k /\ k <= i)}

\* The farthest point to which a team owns all points from its base. The walk
\* does not look at the enemy's end, and stays at the base if that is lost.
Farthest(t) ==
    LET b == Base(t)
        enemyEnd == IF b = 0 THEN N - 1 ELSE 0
        reached == {k \in Points \ {enemyEnd} : \A j \in Between(b, k) : res[j].owner = t}
    IN  IF b = -1 \/ reached = {} THEN b
        ELSE IF b = 0 THEN CHOOSE k \in reached : \A j \in reached : j <= k
             ELSE CHOOSE k \in reached : \A j \in reached : k <= j

\* Mutant: the owner's own end of the chain no longer counts as near it.
TeamMayCaptureOther(t, i) ==
    /\ i \notin locked /\ Farthest(t) - i \in {-1, 1}

TeamMayCapturePoint(t, i) ==
    \/ i \in Previous[t][i]
    \/ /\ i \notin locked
       /\ IF Previous[t][i] = {}
          THEN Farthest(t) - i \in {-1, 0, 1}
          ELSE \A j \in Previous[t][i] : res[j].owner = t

-----------------------------------------------------------------------------
(* The win. *)

\* The team that owns all points of a group, None if there is no such team.
GroupOwner(own, g) ==
    IF \E t \in Teams : \A i \in Points : GroupOf[i] = g => own[i] = t
    THEN CHOOSE t \in Teams : \A i \in Points : GroupOf[i] = g => own[i] = t
    ELSE None

TeamOwnsAllPoints(own) ==
    LET groups == {GroupOf[i] : i \in Points}
        held == {g \in groups : GroupOwner(own, g) # None}
    IN  IF held = {} THEN None
        ELSE GroupOwner(own, CHOOSE g \in held : \A h \in held : g <= h)

\* Mutant: a later win replaces the one before.
SetWinningTeamAgain(t) == phase' = "won" /\ winner' = t

SetWinningTeam(t) ==
    IF phase = "won" THEN UNCHANGED <<phase, winner>>
    ELSE phase' = "won" /\ winner' = t

\* Called at once when a point changes hands, and by the master's think.
CheckWinConditions(own) ==
    LET t == TeamOwnsAllPoints(own)
    IN  /\ IF ~disabled /\ t \in MayWin
           THEN SetWinningTeam(t) /\ fired' = fired \cup {t}
           ELSE UNCHANGED <<phase, winner, fired>>
        /\ UNCHANGED waiting

\* Mutant: the win is looked for before the owner changes.
InternalSetOwnerLate(i, t) ==
    /\ owner' = [owner EXCEPT ![i] = t]
    /\ CheckWinConditions(owner)

InternalSetOwner(i, t) ==
    /\ owner' = [owner EXCEPT ![i] = t]
    /\ CheckWinConditions(owner')

\* SetOwningTeam of the objective resource: it clears the capper.
SetOwningTeam(i, t) == res' = [res EXCEPT ![i] = [owner |-> t, capping |-> None]]

SetCappingTeam(i, t) == res' = [res EXCEPT ![i].capping = t]

-----------------------------------------------------------------------------
(* One think of an area, with its state "s" and the touching players "ins" *)
(* as they are when it begins.                                             *)

\* Mutant: players of a team that may not capture the point count too.
CappersOfAnyTeam(i, t, ins) == {p \in Players : TeamOf[p] = t /\ ins[p] = i /\ life[p] = "can"}

Cappers(i, t, ins) == {p \in Players : /\ TeamOf[p] = t /\ ins[p] = i /\ life[p] = "can"
                                       /\ TeamMayCapturePoint(t, i)}

BlockablePlayers(i, t, ins) == {p \in Players : /\ TeamOf[p] = t /\ ins[p] = i /\ life[p] = "blocks"
                                                /\ TeamMayCapturePoint(t, i)}

\* Mutant: players who only block do not count.
TeamsOfCappers(i, ins) == {t \in Teams : Cappers(i, t, ins) # {}}

TeamsInZone(i, ins) == {t \in Teams : Cappers(i, t, ins) \cup BlockablePlayers(i, t, ins) # {}}

\* The one team that has cappers in the zone.
TeamInZone(i, t, ins) == /\ Cappers(i, t, ins) # {}
                         /\ \A u \in Teams \ {t} : Cappers(i, u, ins) = {}

MayStart(i, t, s, ins) ==
    /\ t \in CanCap[i] /\ s.owning # t
    /\ Cappers(i, t, ins) # {}
    /\ ScalesWithPlayers \/ Cardinality(Cappers(i, t, ins)) >= Required[t]

StartCapture(i, t, s) ==
    /\ area' = [area EXCEPT ![i] = [s EXCEPT !.team = t, !.left = CapSteps, !.blocked = FALSE]]
    /\ SetCappingTeam(i, t)
    /\ UNCHANGED <<owner, round>>

\* Mutant: the resource is not told.
BreakCaptureSilently(i, s) ==
    /\ area' = [area EXCEPT ![i] = [s EXCEPT !.team = None, !.left = 0]]
    /\ UNCHANGED <<owner, res, round>>

BreakCapture(i, s) ==
    /\ area' = [area EXCEPT ![i] = [s EXCEPT !.team = None, !.left = 0]]
    /\ SetCappingTeam(i, None)
    /\ UNCHANGED <<owner, round>>

\* Mutant: points change hands outside the running round.
EndCaptureAnytime(i, s) ==
    /\ area' = [area EXCEPT ![i] = [s EXCEPT !.team = None, !.left = 0, !.owning = s.team]]
    /\ SetOwningTeam(i, s.team)
    /\ InternalSetOwner(i, s.team)

\* The area and the resource change owner at once, the point only if points
\* may be captured.
EndCapture(i, s) ==
    /\ area' = [area EXCEPT ![i] = [s EXCEPT !.team = None, !.left = 0, !.owning = s.team]]
    /\ SetOwningTeam(i, s.team)
    /\ IF phase = "open" THEN InternalSetOwner(i, s.team) ELSE UNCHANGED <<owner, round>>

SetCapTimeRemaining(i, s, left) ==
    /\ area' = [area EXCEPT ![i] = [s EXCEPT !.left = left, !.blocked = FALSE]]
    /\ UNCHANGED <<owner, res, round>>

Keep(i, s) == area' = [area EXCEPT ![i] = s] /\ UNCHANGED <<owner, res, round>>

\* More than one team in the zone.
Contested(i, s) ==
    IF BlocksPause THEN Keep(i, [s EXCEPT !.blocked = TRUE])
    ELSE BreakCapture(i, [s EXCEPT !.blocked = TRUE])

\* Mutant: a capture whose time is over goes on.
ProgressPastEnd(i, s, elapsed) == SetCapTimeRemaining(i, s, s.left - elapsed)

Progress(i, s, elapsed) ==
    IF s.left <= elapsed THEN EndCapture(i, [s EXCEPT !.blocked = FALSE])
    ELSE SetCapTimeRemaining(i, s, s.left - elapsed)

\* Mutant: a capture that is back where it began goes on.
DeteriorateOnly(i, s, ins, elapsed, startTouch) ==
    SetCapTimeRemaining(i, s, IF s.left + elapsed < CapSteps THEN s.left + elapsed ELSE CapSteps)

\* A capture that is back where it began breaks, except in StartTouch.
Deteriorate(i, s, ins, elapsed, startTouch) ==
    LET gradual == \/ s.owning = None /\ \E t \in Teams : TeamInZone(i, t, ins)
                   \/ TeamMayCapturePoint(s.team, i)
        left == IF gradual /\ s.left + elapsed < CapSteps THEN s.left + elapsed ELSE CapSteps
    IN  IF left = CapSteps /\ ~startTouch THEN BreakCapture(i, [s EXCEPT !.blocked = FALSE])
        ELSE SetCapTimeRemaining(i, s, left)

ContinueCapture(i, s, ins, elapsed, startTouch) ==
    IF TeamsInZone(i, ins) = Teams THEN Contested(i, s)
    ELSE IF TeamInZone(i, s.team, ins) THEN Progress(i, s, elapsed)
    ELSE Deteriorate(i, s, ins, elapsed, startTouch)

\* The first team, in the order of team numbers, that may start a capture.
TryStart(i, s, ins) ==
    IF MayStart(i, Red, s, ins) THEN StartCapture(i, Red, s)
    ELSE IF MayStart(i, Blue, s, ins) THEN StartCapture(i, Blue, s)
    ELSE Keep(i, s)

CaptureThink(i, s, ins, elapsed, startTouch) ==
    IF phase # "open" THEN IF s.team # None THEN BreakCapture(i, s) ELSE Keep(i, s)
    ELSE IF s.team # None THEN ContinueCapture(i, s, ins, elapsed, startTouch)
    ELSE TryStart(i, s, ins)

\* When a capture starts, those of the team that touch the area start to score.
EscortsOf(i, ins) ==
    IF PartialRate /\ area[i].team = None /\ area'[i].team # None
    THEN {p \in Players : ins[p] = i /\ TeamOf[p] = area'[i].team}
    ELSE {}

-----------------------------------------------------------------------------
(* Players. *)

\* A player enters an area: the area thinks at once.
StartTouch(p, i) ==
    /\ life[p] # "dead" /\ in[p] = None
    /\ in' = [in EXCEPT ![p] = i]
    /\ \E elapsed \in {0, 1} :
          CaptureThink(i, [area[i] EXCEPT !.owning = owner[i]], in', elapsed, TRUE)
    /\ scoring' = scoring \cup EscortsOf(i, in')
                    \cup (IF PartialRate /\ area'[i].team = TeamOf[p] THEN {p} ELSE {})
    /\ UNCHANGED <<life, locked, waiting, disabled>>

\* A player leaves an area, or it finds that the player is dead. The dead who
\* still touch it are dropped too, without an EndTouch of their own.
EndTouch(p) ==
    /\ in[p] # None
    /\ in' = [q \in Players |-> IF q = p \/ (in[q] = in[p] /\ life[q] = "dead") THEN None ELSE in[q]]
    /\ scoring' = scoring \ {p}
    /\ UNCHANGED <<life, area, points, round, disabled>>

\* Mutant: the owner is read only when a player enters.
AreaTouchHintOnly(p) ==
    /\ phase = "open" /\ life[p] # "dead" /\ in[p] # None
    /\ UNCHANGED vars

\* Every frame, a living player who touches an area tells it who owns its point.
AreaTouch(p) ==
    /\ phase = "open" /\ life[p] # "dead" /\ in[p] # None
    /\ area' = [area EXCEPT ![in[p]].owning = owner[in[p]]]
    /\ UNCHANGED <<bodies, points, round, disabled>>

Die(p) ==
    /\ life[p] # "dead"
    /\ life' = [life EXCEPT ![p] = "dead"]
    /\ UNCHANGED <<in, scoring, area, points, round, disabled>>

\* CBaseMultiplayerPlayer::Spawn.
Respawn(p) ==
    /\ life[p] = "dead" /\ in[p] = None
    /\ life' = [life EXCEPT ![p] = "can"]
    /\ scoring' = scoring \ {p}
    /\ UNCHANGED <<in, area, points, round, disabled>>

\* A player becomes invulnerable, disguised, cloaked, or none of these.
ChangeCondition(p) ==
    /\ life[p] # "dead"
    /\ \E c \in Lives \ {"dead", life[p]} : life' = [life EXCEPT ![p] = c]
    /\ UNCHANGED <<in, scoring, area, points, round, disabled>>

-----------------------------------------------------------------------------
(* Areas and the master think. *)

Think(i) ==
    /\ CaptureThink(i, area[i], in, 1, FALSE)
    /\ scoring' = scoring \cup EscortsOf(i, in)
    /\ UNCHANGED <<life, in, locked, disabled>>

\* Mutant: the test of m_bDisabled is the wrong way round.
CPMThinkWhenDisabled ==
    /\ phase = "open" /\ disabled
    /\ CheckWinConditions(owner)
    /\ UNCHANGED <<bodies, area, points, disabled>>

CPMThink ==
    /\ phase = "open" /\ ~disabled
    /\ CheckWinConditions(owner)
    /\ UNCHANGED <<bodies, area, points, disabled>>

-----------------------------------------------------------------------------
(* Entity inputs of the map. *)

InputSetOwner(i, t) ==
    /\ "owner" \in MapInputs /\ owner[i] # t /\ phase = "open"
    /\ InternalSetOwner(i, t)
    /\ SetOwningTeam(i, t)
    /\ UNCHANGED <<bodies, area, locked, disabled>>

InputReset(i) ==
    /\ "reset" \in MapInputs
    /\ InternalSetOwner(i, DefaultOwner[i])
    /\ SetOwningTeam(i, DefaultOwner[i])
    /\ UNCHANGED <<bodies, area, locked, disabled>>

\* Also the end of an unlock time, which UnlockThink waits for.
InputSetLocked(i) ==
    /\ "lock" \in MapInputs /\ ~waiting
    /\ locked' = IF i \in locked THEN locked \ {i} ELSE locked \cup {i}
    /\ UNCHANGED <<bodies, area, owner, res, round, disabled>>

InputCaptureCurrentCP(i) ==
    /\ "capture" \in MapInputs /\ area[i].team # None
    /\ EndCapture(i, area[i])
    /\ UNCHANGED <<bodies, locked, disabled>>

\* The output that this fires too, accepted or not, is one the map asked for.
InputSetWinner(t) ==
    /\ "winner" \in MapInputs
    /\ SetWinningTeam(t)
    /\ UNCHANGED <<bodies, area, points, waiting, fired, disabled>>

InputEnableDisable ==
    /\ "master" \in MapInputs
    /\ disabled' = ~disabled
    /\ UNCHANGED <<bodies, area, points, round>>

-----------------------------------------------------------------------------
(* The rounds, as the rules run them. *)

FreshArea(i) == [team |-> None, owning |-> DefaultOwner[i], left |-> 0, blocked |-> FALSE]

FreshAreas == [i \in Points |-> FreshArea(i)]
FreshResource == [i \in Points |-> [owner |-> DefaultOwner[i], capping |-> None]]
AllAlive == [p \in Players |-> "can"]
Nowhere == [p \in Players |-> None]

Init ==
    /\ life = AllAlive /\ in = Nowhere /\ scoring = {}
    /\ area = FreshAreas
    /\ owner = DefaultOwner /\ locked = LockedAtStart /\ res = FreshResource
    /\ phase = "closed" /\ winner = None /\ fired = {} /\ disabled = FALSE
    /\ waiting \in BOOLEAN

\* RoundRespawn with its full reset: points, areas and the master are made
\* anew. The waiting period may be over.
RoundRespawn ==
    /\ life' = AllAlive /\ in' = Nowhere /\ scoring' = {}
    /\ area' = FreshAreas
    /\ owner' = DefaultOwner /\ locked' = LockedAtStart /\ res' = FreshResource
    /\ phase' = "closed" /\ winner' = None /\ fired' = {} /\ disabled' = FALSE
    /\ waiting' \in {FALSE, waiting}

\* The round begins to run, or the setup time is over.
OpenPoints ==
    /\ phase = "closed" /\ ~waiting
    /\ phase' = "open"
    /\ UNCHANGED <<bodies, area, points, waiting, winner, fired, disabled>>

\* A setup time, or a boss that keeps points from being captured, begins.
ClosePoints ==
    /\ phase = "open"
    /\ phase' = "closed"
    /\ UNCHANGED <<bodies, area, points, waiting, winner, fired, disabled>>

\* The rules are told of a win by somebody else: a timer, a flag, a command.
WonElsewhere(t) ==
    /\ phase # "won"
    /\ SetWinningTeam(t)
    /\ UNCHANGED <<bodies, area, points, waiting, fired, disabled>>

PlayerSteps(p) == \/ \E i \in Points : StartTouch(p, i)
                  \/ EndTouch(p) \/ AreaTouch(p) \/ Die(p) \/ Respawn(p) \/ ChangeCondition(p)
MapSteps == \/ \E i \in Points, t \in Owners : InputSetOwner(i, t)
            \/ \E i \in Points : InputReset(i) \/ InputSetLocked(i) \/ InputCaptureCurrentCP(i)
            \/ \E t \in Teams : InputSetWinner(t)
            \/ InputEnableDisable
RoundSteps == RoundRespawn \/ OpenPoints \/ ClosePoints \/ \E t \in Owners : WonElsewhere(t)

Next ==
    \/ \E p \in Players : PlayerSteps(p)
    \/ \E i \in Points : Think(i)
    \/ CPMThink
    \/ MapSteps
    \/ RoundSteps

Spec == Init /\ [][Next]_vars

\* Areas and the master think every 0.1 or 0.2 seconds, and touches are reported
\* every frame.
Fairness == /\ \A i \in Points : WF_vars(Think(i))
            /\ \A p \in Players : WF_vars(AreaTouch(p))
            /\ WF_vars(CPMThink)
FairSpec == Spec /\ Fairness

-----------------------------------------------------------------------------
TypeOK ==
    /\ life \in [Players -> Lives] /\ in \in [Players -> Points \cup {None}]
    /\ scoring \subseteq Players
    /\ area \in [Points -> AreaStates]
    /\ owner \in [Points -> Owners] /\ locked \subseteq Points
    /\ res \in [Points -> [owner : Owners, capping : Owners]]
    /\ phase \in Phases /\ waiting \in BOOLEAN
    /\ winner \in Owners /\ fired \subseteq Teams /\ disabled \in BOOLEAN

\* A map with one chain of points between two bases and no points handed out
\* other than by capture.
Owned(own, t, i) == \A j \in Between(Base(t), i) : own[j] = t
LinearMap ==
    /\ {Base(Red), Base(Blue)} = {0, N - 1} /\ N > 1
    /\ \A t \in Teams, i \in Points : Previous[t][i] = {} /\ (DefaultOwner[i] = t => Owned(DefaultOwner, t, i))
    /\ \A i, j \in Points : GroupOf[i] = GroupOf[j]
    /\ MayWin = Teams /\ MapInputs \subseteq {"lock", "winner"}

\* On a linear map a team that owns a point owns all points between it and its
\* base, although captures of several points go on at once and the points they
\* need change hands meanwhile.
ChainHolds == LinearMap => \A t \in Teams, i \in Points : owner[i] = t => Owned(owner, t, i)

\* On a linear map, where one team may capture a point of the other, the owner's
\* players count in its area too: they can block the capture.
DefendersCount ==
    LinearMap => \A i \in Points, t, u \in Teams :
        t # u /\ owner[i] = t /\ TeamMayCapturePoint(u, i) => TeamMayCapturePoint(t, i)

\* A point that changes hands in play goes from somebody else to the team that
\* was capturing it, while that team may capture it, has a player there who
\* can, and has no opponent there who counts.
EarnedBy(t, i) ==
    /\ phase = "open" /\ t = area[i].team /\ owner[i] # t
    /\ TeamMayCapturePoint(t, i)
    /\ \E p \in Players : TeamOf[p] = t /\ in'[p] = i /\ life[p] = "can"
    /\ \A p \in Players : /\ in'[p] = i /\ life[p] \in {"can", "blocks"}
                         /\ TeamMayCapturePoint(TeamOf[p], i)
                         => TeamOf[p] = t
CapturesEarned ==
    MapInputs \cap {"owner", "reset", "capture"} = {} /\ phase' # "closed" =>
        \A i \in Points : owner'[i] # owner[i] => EarnedBy(owner'[i], i)
PointsAreEarned == [][CapturesEarned]_vars

\* While points may be captured, no team that may win by it owns them all: the
\* win is declared in the step that decides it.
NoWinPending ==
    phase = "open" /\ "master" \notin MapInputs => TeamOwnsAllPoints(owner) \notin MayWin

\* What clients and the rules read from the objective resource is what the
\* points and the areas hold.
ResourceAgrees ==
    /\ \A i \in Points : res[i].capping \in {None, area[i].team}
    /\ MapInputs \cap {"owner", "reset"} = {} => \A i \in Points : res[i].capping = area[i].team
    /\ "capture" \notin MapInputs => \A i \in Points : res[i].owner = owner[i]

\* The master finds that a team has won, and fires its output, only in a round
\* that team has won, also when another win comes first.
OutputMatchesWinner ==
    ("reset" \in MapInputs => \A i \in Points : DefaultOwner[i] = None)
    => fired \subseteq (IF phase = "won" THEN {winner} ELSE {})

\* A living player who scores for a capture is in an area.
ScorerInArea == \A p \in scoring : life[p] # "dead" => in[p] # None

\* When a capture ends or breaks, the living who touch the area stop to score
\* (the comments in EndCapture and BreakCapture).
ScoringMeansCapture ==
    \A p \in scoring : life[p] # "dead" /\ in[p] # None => area[in[p]].team # None

\* A team that stays alone in an area whose point it may capture captures it,
\* whatever was going on there before.
Holds(i, t) ==
    /\ phase = "open" /\ t \in CanCap[i] /\ owner[i] # t
    /\ TeamsInZone(i, in) = {t} /\ Cardinality(Cappers(i, t, in)) >= Required[t]
HeldAreaIsCaptured == \A i \in Points, t \in Teams : ~<>[]Holds(i, t)

\* A capture that nobody living stands for ends.
Abandoned(i) == area[i].team # None /\ \A p \in Players : in[p] = i => life[p] = "dead"
AbandonedCaptureEnds == \A i \in Points : ~<>[]Abandoned(i)

\* All points held by a team that may win by it are a win, also if the master
\* was disabled when the last one was captured.
Decided == phase = "open" /\ ~disabled /\ TeamOwnsAllPoints(owner) \in MayWin
HeldPointsWin == ~<>[]Decided

\* On a linear map the points, the rules and the master together play a tug of
\* war: areas, touches, thinks, locks and the resource are how, and no order of
\* them shows a player anything else.
Tug == INSTANCE TugOfWar
    WITH held <- owner, play <- phase, BaseOf <- [t \in Teams |-> Base(t)], Start <- DefaultOwner
PlaysTugOfWar == Tug!Spec

=============================================================================
