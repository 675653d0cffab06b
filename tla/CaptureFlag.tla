----------------------------- MODULE CaptureFlag -----------------------------
(***************************************************************************)
(* The flags of a capture-the-flag map (CCaptureFlag of TF_FLAGTYPE_CTF),  *)
(* the players who carry them (CTFPlayer's item), the zones they are       *)
(* captured in (CCaptureZone) and the captures that win a round            *)
(* (CTFGameRules::SetCtfWinningTeam).                                      *)
(*                                                                         *)
(* Where players and flags are is abstracted: a living player may come to  *)
(* touch a flag or a zone at any time, or never.  So is what keeps a       *)
(* player from taking a flag for a while (invulnerable, cloaked, phased,   *)
(* or the thrower of a flag that still flies).  The return time of a flag  *)
(* runs and is then over.                                                  *)
(***************************************************************************)
EXTENDS Integers

CONSTANTS
    Red, Blue,       \* the two game teams, Red is FIRST_GAME_TEAM
    None,            \* TEAM_UNASSIGNED, and no player, no item
    Players,
    Flags,
    FlagTeam,        \* the team a flag belongs to
    StartsDisabled,  \* the flags with m_bStartDisabled
    ZoneTeams,       \* the teams of the capture zones, None for a zone of nobody
    CapsLimit,       \* tf_flag_caps_per_round
    MaxCaps,         \* a bound on captures before the rules look at them
    ReturnOnTouch,   \* tf_flag_return_on_touch
    MapInputs        \* the entity inputs this map fires, each at a flag

Teams == {Red, Blue}
InputNames == {"enable", "disable", "disable carried", "drop", "reset", "return time"}

ASSUME TeamAssumption == Red # Blue /\ None \notin Teams
ASSUME FlagAssumption ==
    /\ None \notin Players /\ None \notin Flags
    /\ {"home", "ground"} \cap Players = {}
    /\ FlagTeam \in [Flags -> Teams] /\ StartsDisabled \subseteq Flags
    /\ ZoneTeams \subseteq Teams \cup {None}
ASSUME RuleAssumption ==
    /\ CapsLimit \in Nat \ {0} /\ MaxCaps \in Nat /\ CapsLimit <= MaxCaps
    /\ ReturnOnTouch \in BOOLEAN /\ MapInputs \subseteq InputNames \X Flags

VARIABLES
    team,      \* the team of a player
    alive,     \* whether a player lives; a free slot is one who does not
    item,      \* m_hItem of a player
    flag,      \* m_nFlagStatus, m_hPrevOwner, m_flResetTime, the touch function, m_bCaptured, m_bDisabled
    caps,      \* the captures of a team in this round
    phase,     \* "preround", "running", "stalemate" (sudden death) or "won"
    waiting,   \* m_bInWaitingForPlayers
    winner     \* the team that won by WINREASON_FLAG_CAPTURE_LIMIT, None in any other round

people == <<team, alive>>
round == <<phase, waiting, winner>>
vars == <<people, item, flag, caps, round>>

FlagStates == [status : {"home", "stolen", "dropped"},
               prev : Players \cup {None},           \* m_hPrevOwner
               timer : {"off", "running", "over"},   \* m_flResetTime
               touch : BOOLEAN,                      \* the touch function is FlagTouch
               captured : BOOLEAN, disabled : BOOLEAN]

FlagsMayBeCapped == phase \notin {"won", "preround"}

-----------------------------------------------------------------------------
(* What happens to one flag, as a function of its state. *)

Spawned(f) == [status |-> "home", prev |-> None, timer |-> "off",
               touch |-> f \notin StartsDisabled, captured |-> FALSE, disabled |-> f \in StartsDisabled]

\* Reset does not give the touch function back.
Reset(s) == [s EXCEPT !.status = "home", !.prev = None, !.timer = "off"]

Stolen(s, p) == [s EXCEPT !.status = "stolen", !.prev = p, !.timer = "off", !.touch = FALSE]

\* Mutant: the flag keeps the touch function of a carried one, none.
DroppedUntouchable(s) == [s EXCEPT !.status = "dropped", !.timer = "running"]

\* Mutant: no return time is set.
DroppedForGood(s) == [s EXCEPT !.status = "dropped", !.touch = TRUE]

Dropped(s) == [s EXCEPT !.status = "dropped", !.timer = "running", !.touch = TRUE]

-----------------------------------------------------------------------------
(* Dropping what a player carries. *)

\* A disabled flag is not dropped.
Drops(p) == item[p] # None /\ ~flag[item[p]].disabled

ItemAfterDrop(p) == [item EXCEPT ![p] = IF Drops(p) THEN None ELSE @]

\* In a func_respawnflag zone, a flag that is dropped goes home.
FlagAfterDrop(p, inZone) ==
    IF ~Drops(p) THEN flag
    ELSE [flag EXCEPT ![item[p]] = IF inZone THEN Reset(Dropped(@)) ELSE Dropped(@)]

Drop(p) ==
    /\ item' = ItemAfterDrop(p)
    /\ \E inZone \in BOOLEAN : flag' = FlagAfterDrop(p, inZone)

\* dropitem, a respawn room, another class, a taunt that teleports, an airblast
\* or a feigned death.
DropFlag(p) ==
    /\ alive[p] /\ item[p] # None
    /\ Drop(p)
    /\ UNCHANGED <<people, caps, round>>

\* Mutant: the flag goes home and the player keeps it.
RespawnFlagZoneKeeps(p) ==
    /\ alive[p] /\ item[p] # None
    /\ flag' = [flag EXCEPT ![item[p]] = Reset(@)]
    /\ UNCHANGED <<people, item, caps, round>>

\* A player carries a flag into a func_respawnflag zone.
RespawnFlagZoneTouch(p) ==
    /\ alive[p] /\ item[p] # None
    /\ item' = ItemAfterDrop(p)
    /\ flag' = [FlagAfterDrop(p, FALSE) EXCEPT ![item[p]] = Reset(@)]
    /\ UNCHANGED <<people, caps, round>>

\* RemoveAllItems, when a player is killed.
Die(p) ==
    /\ alive[p]
    /\ alive' = [alive EXCEPT ![p] = FALSE]
    /\ Drop(p)
    /\ UNCHANGED <<team, caps, round>>

\* Mutant: the player takes the flag along.
DisconnectWithItem(p) ==
    /\ alive' = [alive EXCEPT ![p] = FALSE]
    /\ item' = [item EXCEPT ![p] = None]
    /\ UNCHANGED <<team, flag, caps, round>>

\* RemoveAllItems again; then the player is deleted and the handles are null.
Disconnect(p) ==
    /\ alive' = [alive EXCEPT ![p] = FALSE]
    /\ item' = [item EXCEPT ![p] = None]
    /\ \E inZone \in BOOLEAN :
          LET dropped == FlagAfterDrop(p, inZone)
          IN  flag' = [f \in Flags |-> [dropped[f] EXCEPT !.prev = IF @ = p THEN None ELSE @]]
    /\ UNCHANGED <<team, caps, round>>

Respawn(p) ==
    /\ ~alive[p] /\ phase # "stalemate"
    /\ alive' = [alive EXCEPT ![p] = TRUE]
    /\ UNCHANGED <<team, item, flag, caps, round>>

\* Mutant: the living player changes sides with the flag.
ChangeTeamWithItem(p, t) ==
    /\ team[p] # t
    /\ team' = [team EXCEPT ![p] = t]
    /\ UNCHANGED <<alive, item, flag, caps, round>>

\* A living player who changes teams dies of it.
ChangeTeam(p, t) ==
    /\ team[p] # t
    /\ team' = [team EXCEPT ![p] = t]
    /\ alive' = [alive EXCEPT ![p] = FALSE]
    /\ Drop(p)
    /\ UNCHANGED <<caps, round>>

\* A living player who is moved to the other team lives on and drops the flag.
ForceChangeTeam(p, t) ==
    /\ team[p] # t
    /\ team' = [team EXCEPT ![p] = t]
    /\ Drop(p)
    /\ UNCHANGED <<alive, caps, round>>

-----------------------------------------------------------------------------
(* Taking and capturing. *)

HasNoFlag(p) == item[p] = None

PickUp(p, f) ==
    /\ FlagsMayBeCapped
    /\ item' = [item EXCEPT ![p] = f]
    /\ flag' = [flag EXCEPT ![f] = Stolen(@, p)]

\* The own team's flag is returned, another one is picked up.
FlagTouch(p, f) ==
    /\ flag[f].touch /\ ~flag[f].disabled /\ flag[f].status # "stolen"
    /\ alive[p] /\ ~waiting
    /\ \/ /\ team[p] = FlagTeam[f] /\ ReturnOnTouch /\ flag[f].status = "dropped"
          /\ flag' = [flag EXCEPT ![f] = Reset(@)]
          /\ UNCHANGED item
       \/ /\ team[p] # FlagTeam[f] /\ (HasNoFlag(p) \/ ReturnOnTouch)
          /\ PickUp(p, f)
    /\ UNCHANGED <<people, caps, round>>

\* Mutant: the own flag need not be at home.
CanBeCapturedAlways(t) == TRUE

\* With tf_flag_return_on_touch, the flags of the own team must be at home.
CanFlagBeCaptured(t) ==
    ReturnOnTouch => \A f \in Flags : FlagTeam[f] = t => flag[f].disabled \/ flag[f].status = "home"

\* Mutant: the zone, the flag and the team each count the capture.
CapsAfterAll(t) == caps[t] + 3

\* In sudden death the team is given what it needs to win.
CapsAfter(t) == IF phase = "stalemate" /\ caps[t] + 1 < CapsLimit THEN CapsLimit ELSE caps[t] + 1

\* Mutant: captures count in the bonus time as well.
CaptureAnytime(p, z) ==
    LET f == item[p]
    IN  /\ f # None
        /\ ~flag[f].captured /\ z \in {None, team[p]}
        /\ CanFlagBeCaptured(team[p])
        /\ ~flag[f].disabled
        /\ caps[team[p]] < MaxCaps
        /\ caps' = [caps EXCEPT ![team[p]] = CapsAfter(team[p])]
        /\ item' = [item EXCEPT ![p] = None]
        /\ flag' = [flag EXCEPT ![f] = [Reset(@) EXCEPT !.captured = TRUE]]
        /\ UNCHANGED <<people, round>>

\* A player with a flag touches an enabled zone: the zone's and the flag's Capture.
Capture(p, z) ==
    LET f == item[p]
    IN  /\ f # None /\ FlagsMayBeCapped
        /\ ~flag[f].captured /\ z \in {None, team[p]}
        /\ CanFlagBeCaptured(team[p])
        /\ ~flag[f].disabled
        /\ caps[team[p]] < MaxCaps
        /\ caps' = [caps EXCEPT ![team[p]] = CapsAfter(team[p])]
        /\ item' = [item EXCEPT ![p] = None]
        /\ flag' = [flag EXCEPT ![f] = [Reset(@) EXCEPT !.captured = TRUE]]
        /\ UNCHANGED <<people, round>>

-----------------------------------------------------------------------------
(* The think of a flag, every 0.25 seconds unless it is disabled, and its return time. *)

Touchable(s) == IF s.captured THEN [s EXCEPT !.captured = FALSE, !.touch = TRUE] ELSE s
Returned(s) == IF s.status = "dropped" /\ s.timer = "over" THEN Reset(s) ELSE s

Think(f) ==
    /\ ~flag[f].disabled /\ FlagsMayBeCapped
    /\ flag' = [flag EXCEPT ![f] = Returned(Touchable(@))]
    /\ UNCHANGED <<people, item, caps, round>>

ReturnTimeElapses(f) ==
    /\ flag[f].timer = "running"
    /\ flag' = [flag EXCEPT ![f].timer = "over"]
    /\ UNCHANGED <<people, item, caps, round>>

-----------------------------------------------------------------------------
(* Entity inputs of the map. *)

Disabled(s) == [s EXCEPT !.disabled = TRUE, !.touch = FALSE]

InputEnable(f) ==
    /\ <<"enable", f>> \in MapInputs
    /\ flag' = [flag EXCEPT ![f].disabled = FALSE, ![f].touch = TRUE]
    /\ UNCHANGED <<people, item, caps, round>>

InputDisable(f) ==
    /\ \/ <<"disable", f>> \in MapInputs /\ flag[f].status # "stolen"
       \/ <<"disable carried", f>> \in MapInputs
    /\ flag' = [flag EXCEPT ![f] = Disabled(@)]
    /\ UNCHANGED <<people, item, caps, round>>

\* The player the flag remembers as its last owner carries it.
Carried(f) == \E p \in Players : flag[f].prev = p /\ item[p] = f

InputForceDrop(f) ==
    /\ <<"drop", f>> \in MapInputs /\ Carried(f)
    /\ Drop(flag[f].prev)
    /\ UNCHANGED <<people, caps, round>>

\* InternalForceReset, silent or not, of a flag that is not at home.
ForceReset(f) ==
    IF Carried(f)
    THEN /\ item' = ItemAfterDrop(flag[f].prev)
         /\ flag' = [FlagAfterDrop(flag[f].prev, FALSE) EXCEPT ![f] = Reset(@)]
    ELSE flag' = [flag EXCEPT ![f] = Reset(@)] /\ UNCHANGED item

InputForceReset(f) ==
    /\ <<"reset", f>> \in MapInputs /\ flag[f].status # "home"
    /\ ForceReset(f)
    /\ UNCHANGED <<people, caps, round>>

InputForceResetAndDisable(f) ==
    /\ <<"reset", f>> \in MapInputs
    /\ item' = IF Carried(f) /\ flag[f].status # "home" THEN ItemAfterDrop(flag[f].prev) ELSE item
    /\ flag' = [flag EXCEPT ![f] = Disabled(IF @.status = "home" THEN @ ELSE Reset(@))]
    /\ UNCHANGED <<people, caps, round>>

\* InputSetReturnTime of a flag that is dropped, InputShowTimer of any flag.
InputReturnTime(f) ==
    /\ <<"return time", f>> \in MapInputs
    /\ flag' = [flag EXCEPT ![f].timer = "running"]
    /\ UNCHANGED <<people, item, caps, round>>

-----------------------------------------------------------------------------
(* The rounds. *)

Init ==
    /\ team \in [Players -> Teams] /\ alive = [p \in Players |-> TRUE]
    /\ item = [p \in Players |-> None]
    /\ flag = [f \in Flags |-> Spawned(f)]
    /\ caps = [t \in Teams |-> 0]
    /\ phase = "preround" /\ waiting \in BOOLEAN /\ winner = None

\* Without a full reset the flags stay, and InputRoundActivate resets them.
RoundActivate ==
    LET lost(f) == Carried(f) /\ ~flag[f].disabled
    IN  /\ item' = [p \in Players |-> IF \E f \in Flags : lost(f) /\ flag[f].prev = p THEN None ELSE item[p]]
        /\ flag' = [f \in Flags |-> Reset(IF lost(f) THEN Dropped(flag[f]) ELSE flag[f])]

\* With one, the flags are made anew and no handle to an old one is left.
Recreate ==
    /\ item' = [p \in Players |-> None]
    /\ flag' = [f \in Flags |-> Spawned(f)]

\* The teams may be switched. Everybody spawns, free slots being left again at
\* once. The captures begin at 0.
RoundRespawn ==
    /\ Recreate \/ RoundActivate
    /\ \/ UNCHANGED team
       \/ team' = [p \in Players |-> IF team[p] = Red THEN Blue ELSE Red]
    /\ alive' = [p \in Players |-> TRUE]
    /\ caps' = [t \in Teams |-> 0]
    /\ phase' = "preround" /\ waiting' \in {FALSE, waiting} /\ winner' = None

RoundStart ==
    /\ phase = "preround"
    /\ phase' = "running"
    /\ UNCHANGED <<people, item, flag, caps, waiting, winner>>

\* The teams with enough captures, and among them those with the most.
OverLimit == {t \in Teams : caps[t] >= CapsLimit}

MostCaps == {t \in OverLimit : \A u \in OverLimit : caps[u] <= caps[t]}

\* Red comes first if both have the most.
CheckCapsPerRound ==
    /\ phase # "won" /\ ~waiting /\ MostCaps # {}
    /\ phase' = "won"
    /\ winner' = IF Red \in MostCaps THEN Red ELSE Blue
    /\ UNCHANGED <<people, item, flag, caps, waiting>>

CanGoToStalemate == OverLimit = {} /\ \A f \in Flags : flag[f].status = "home"

GoToStalemate ==
    /\ phase = "running" /\ ~waiting /\ CanGoToStalemate
    /\ phase' = "stalemate"
    /\ UNCHANGED <<people, item, flag, caps, waiting, winner>>

WonElsewhere ==
    /\ phase # "won"
    /\ phase' = "won" /\ winner' = None
    /\ UNCHANGED <<people, item, flag, caps, waiting>>

PlayerSteps(p) ==
    \/ DropFlag(p) \/ RespawnFlagZoneTouch(p) \/ Die(p) \/ Disconnect(p)
    \/ Respawn(p)
    \/ \E t \in Teams : ChangeTeam(p, t) \/ ForceChangeTeam(p, t)
    \/ \E f \in Flags : FlagTouch(p, f)
    \/ \E z \in ZoneTeams : Capture(p, z)
FlagSteps(f) == Think(f) \/ ReturnTimeElapses(f)
MapSteps(f) == \/ InputEnable(f) \/ InputDisable(f) \/ InputForceDrop(f)
               \/ InputForceReset(f) \/ InputForceResetAndDisable(f) \/ InputReturnTime(f)
RoundSteps == RoundRespawn \/ RoundStart \/ CheckCapsPerRound \/ GoToStalemate \/ WonElsewhere

Next ==
    \/ \E p \in Players : PlayerSteps(p)
    \/ \E f \in Flags : FlagSteps(f) \/ MapSteps(f)
    \/ RoundSteps

Spec == Init /\ [][Next]_vars

\* Flags think and time passes; the rules look at the captures once a second.
Fairness == \A f \in Flags : WF_vars(Think(f)) /\ WF_vars(ReturnTimeElapses(f))
FairSpec == Spec /\ Fairness

-----------------------------------------------------------------------------
TypeOK ==
    /\ team \in [Players -> Teams] /\ alive \in [Players -> BOOLEAN]
    /\ item \in [Players -> Flags \cup {None}]
    /\ flag \in [Flags -> FlagStates]
    /\ caps \in [Teams -> 0 .. MaxCaps]
    /\ phase \in {"preround", "running", "stalemate", "won"} /\ waiting \in BOOLEAN
    /\ winner \in Teams \cup {None}

\* A map that disables no flag while it is carried, and where
\* tf_flag_return_on_touch is set only if no team can carry two flags.
PlainMap ==
    /\ \A f \in Flags : <<"disable carried", f>> \notin MapInputs
    /\ ReturnOnTouch => \A f, g \in Flags : FlagTeam[f] = FlagTeam[g] => f = g

\* The item of a player, the status of the flag and the owner the flag remembers
\* agree: a stolen flag has exactly one carrier, who is alive, through every
\* death, departure, change of team, reset and new round.
CarrierAgrees ==
    PlainMap =>
        /\ \A f \in Flags : flag[f].status = "stolen" => Carried(f)
        /\ \A p \in Players : item[p] # None =>
              alive[p] /\ flag[item[p]].status = "stolen" /\ flag[item[p]].prev = p

\* Nobody carries the own team's flag, although players change teams and teams
\* are switched.
EnemyCarrier == PlainMap => \A p \in Players : item[p] # None => FlagTeam[item[p]] # team[p]

\* An enabled flag that nobody carries can be touched, or has just been captured
\* and waits for its think: no way of resetting it leaves it out of play.
FreeFlagInPlay ==
    PlainMap => \A f \in Flags :
        ~flag[f].disabled /\ flag[f].status # "stolen" => flag[f].touch \/ flag[f].captured

\* Flags and players agree on who has what, and nothing they do takes a flag out
\* of the game or gives it to its own team.
FlagsAgree == CarrierAgrees /\ EnemyCarrier /\ FreeFlagInPlay

\* Whoever wins by captures has as many as anybody when the round is over,
\* although the rules look only once a second.
WinnerHasMost ==
    winner # None => phase = "won" /\ caps[winner] >= CapsLimit /\ \A t \in Teams : caps[t] <= caps[winner]

\* The captures of a team grow only when one of its players carries an enemy
\* flag, the round is being played and, if touching returns flags, no enemy has
\* the own one.
Earned(t) ==
    \E p \in Players :
        /\ team[p] = t /\ alive[p] /\ item[p] # None /\ item'[p] = None
        /\ FlagTeam[item[p]] # t /\ flag'[item[p]].status = "home"
        /\ phase \in {"running", "stalemate"}
        /\ ReturnOnTouch => \A f \in Flags, q \in Players : FlagTeam[f] = t => item[q] # f
CapturesEarned == PlainMap => \A t \in Teams : caps'[t] > caps[t] => Earned(t)
CapturesAreEarned == [][CapturesEarned]_vars

\* A flag that is left on the ground goes home, unless the map sets its return
\* time again and again.
LiesThere(f) == flag[f].status = "dropped" /\ ~flag[f].disabled /\ FlagsMayBeCapped
DroppedFlagReturns ==
    \A f \in Flags : <>[]LiesThere(f) => []<><<InputReturnTime(f)>>_vars

\* All of this shows as a game in which a flag is in one place.
Place == [f \in Flags |-> IF flag[f].status = "stolen" THEN flag[f].prev
                          ELSE IF flag[f].status = "dropped" THEN "ground" ELSE "home"]
Game == INSTANCE CaptureTheFlag WITH place <- Place, side <- team, score <- caps, MaxScore <- MaxCaps
IsCaptureTheFlag == Game!Spec

=============================================================================
