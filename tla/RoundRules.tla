----------------------------- MODULE RoundRules -----------------------------
(***************************************************************************)
(* The round state machine of CTeamplayRoundBasedRules (with the overrides *)
(* CTFGameRules gives it) on a server without arena, Mann vs Machine,      *)
(* competitive matchmaking or mp_tournament_readymode: who may play, when  *)
(* a round starts and ends, the waiting-for-players period, restarts asked *)
(* for by the console or by ready teams, scores, limits, stalemate, and    *)
(* the HUD timers these hide and show.                                     *)
(*                                                                         *)
(* One frame of the server is: entity thinks and console commands (phase   *)
(* "entities"), then State_Think (leaving phase "periodic"), then the once *)
(* a second checks (leaving phase "events"), then delayed entity I/O, and  *)
(* finally the deletion of the entities marked for deletion (EndFrame).    *)
(*                                                                         *)
(* A time kept as an absolute float in the code is a deadline: "unset",    *)
(* "pending" or "due".                                                     *)
(***************************************************************************)
EXTENDS Integers, FiniteSets

CONSTANTS
    Red, Blue,           \* the two game teams
    None,                \* TEAM_UNASSIGNED, and a NULL timer handle
    Tournament,          \* mp_tournament
    StalemateEnable,     \* mp_stalemate_enable
    StalemateTimed,      \* mp_stalemate_timelimit > 0
    TimeLimit,           \* mp_timelimit > 0
    EndAtTimelimit,      \* mp_match_end_at_timelimit, on a custom map
    WaitingTime,         \* mp_waitingforplayers_time > 0
    PreventSwitch,       \* mp_tournament_prevent_team_switch_on_readyup
    WinLimit, MaxRounds, \* mp_winlimit and mp_maxrounds, 0 for no limit
    WinDifference,       \* mp_windifference, 0 for no limit
    WinDifferenceMin,    \* mp_windifference_min
    ScorePerCapture,     \* the map's control point master scores captures, not rounds
    ScoreInputs,         \* what else the map adds to a score: by inputs, flags, game_score
    MapTimer,            \* the map has a team_round_timer shown in the HUD
    Commands,            \* the console requests this server receives
    WinInputs,           \* the <<force reset, switch>> pairs of the map's win entities
    MaxScore, MaxPlayed  \* bounds on the counters, MaxScore on those below zero too

CVars == {"restartround", "restartgame", "restartnow", "readyrestart",
          "waitrestart", "waitcancel", "nextlevel"}
CommandNames == CVars \cup {"switchteams", "scrambleteams", "scrambleteams2",
                            "tournament_restart"}

ASSUME ModeAssumption ==
    /\ Tournament \in BOOLEAN /\ StalemateEnable \in BOOLEAN /\ StalemateTimed \in BOOLEAN
    /\ TimeLimit \in BOOLEAN /\ EndAtTimelimit \in BOOLEAN /\ WaitingTime \in BOOLEAN
    /\ PreventSwitch \in BOOLEAN /\ MapTimer \in BOOLEAN
    /\ ScorePerCapture \in BOOLEAN /\ ScoreInputs \subseteq Int
    /\ Commands \subseteq CommandNames
    /\ WinInputs \subseteq BOOLEAN \X BOOLEAN
ASSUME TeamAssumption == Red # Blue /\ None \notin {Red, Blue}
ASSUME NoneAssumption == None \notin {"round", "wait", "stale"}
ASSUME LimitAssumption ==
    /\ WinLimit \in Nat /\ MaxRounds \in Nat /\ MaxScore \in Nat /\ MaxPlayed \in Nat
    /\ WinDifference \in Nat /\ WinDifferenceMin \in Nat

Teams == {Red, Blue}
Other(t) == IF t = Red THEN Blue ELSE Red

States == {"PREGAME", "STARTGAME", "PREROUND", "RND_RUNNING", "TEAM_WIN",
           "STALEMATE", "GAME_OVER"}
Deadlines == {"unset", "pending", "due"}

VARIABLES
    phase,               \* where the frame is
    roundState,          \* m_iRoundState
    stateEnds,           \* m_flStateTransitionTime
    gameOver,            \* g_fGameOver
    inWaiting,           \* m_bInWaitingForPlayers
    waitEnds,            \* m_flWaitingForPlayersTimeEnds
    restartAt,           \* m_flRestartRoundTime
    awaitingReady,       \* m_bAwaitingReadyRestart
    teamReady,           \* the teams whose m_bTeamReady is set
    cvars,               \* the request cvars with a non-zero value
    forceMapReset,       \* m_bForceMapReset
    prevRoundWasWaiting, \* m_bPrevRoundWasWaitingForPlayers
    switchTeams,         \* m_bSwitchTeams
    scrambleTeams,       \* m_bScrambleTeams
    resetTeamScores,     \* m_bResetTeamScores
    resetRoundsPlayed,   \* m_bResetRoundsPlayed
    winner,              \* m_iWinningTeam
    score,               \* CTeam::m_iScore of each game team
    roundsPlayed,        \* m_nRoundsPlayed
    changelevelAfterStalemate, \* m_bChangelevelAfterStalemate
    timeLeft,            \* GetTimeLeft: "far", "near" (under 5 minutes) or "due"
    staleEnds,           \* the time remaining on m_hStalemateTimer
    hud,                 \* the round timers and which of them the HUD shows
    pop,                 \* the teams that have players
    alive                \* the teams that have a player alive

frameVars   == <<phase, gameOver>>
stateVars   == <<roundState, stateEnds>>
waitVars    == <<inWaiting, waitEnds>>
readyVars   == <<restartAt, awaitingReady, teamReady>>
flagVars    == <<switchTeams, scrambleTeams, resetTeamScores, resetRoundsPlayed>>
resetVars   == <<forceMapReset, prevRoundWasWaiting>>
resultVars  == <<winner, score, roundsPlayed>>
mapTimeVars == <<changelevelAfterStalemate, timeLeft>>
hudVars     == <<staleEnds, hud>>
playerVars  == <<pop, alive>>

vars == <<frameVars, stateVars, waitVars, readyVars, cvars, flagVars, resetVars,
          resultVars, mapTimeVars, hudVars, playerVars>>

Timers == {"round", "wait", "stale"}

TypeOK ==
    /\ phase \in {"entities", "periodic", "events"}
    /\ roundState \in States
    /\ stateEnds \in Deadlines /\ waitEnds \in Deadlines
    /\ restartAt \in Deadlines /\ staleEnds \in Deadlines
    /\ gameOver \in BOOLEAN /\ inWaiting \in BOOLEAN /\ awaitingReady \in BOOLEAN
    /\ teamReady \subseteq Teams /\ pop \subseteq Teams /\ alive \subseteq pop
    /\ cvars \subseteq CVars
    /\ forceMapReset \in BOOLEAN /\ prevRoundWasWaiting \in BOOLEAN
    /\ switchTeams \in BOOLEAN /\ scrambleTeams \in BOOLEAN
    /\ resetTeamScores \in BOOLEAN /\ resetRoundsPlayed \in BOOLEAN
    /\ winner \in Teams \cup {None}
    /\ score \in [Teams -> Int] /\ roundsPlayed \in Nat
    /\ changelevelAfterStalemate \in BOOLEAN
    /\ timeLeft \in {"far", "near", "due"}
    /\ hud \in [wait : {"none", "live", "dying"}, stale : {"none", "live", "dying"},
                shown : SUBSET Timers, hidden : Timers \cup {None}]

-----------------------------------------------------------------------------
(***************************************************************************)
(* The HUD timers.  "round" is the map's own team_round_timer or, on a map *)
(* without one, the timer CreateTimeLimitTimer makes; "wait" and "stale"   *)
(* are the ones the rules create.  UTIL_Remove only marks an entity: its   *)
(* handle stays valid ("dying") until the list is cleaned up.              *)
(***************************************************************************)
RoundTimerShown(left) == MapTimer \/ (TimeLimit /\ left # "due" /\ EndAtTimelimit)

\* CleanUpMap destroys every timer and recreates the map's.
FreshHud(left) ==
    [wait |-> "none", stale |-> "none",
     shown |-> IF RoundTimerShown(left) THEN {"round"} ELSE {}, hidden |-> None]

UtilRemove(handle) == IF handle = "live" THEN "dying" ELSE handle

RestoreActiveTimer(h) ==
    [wait |-> h.wait, stale |-> h.stale,
     shown |-> IF h.hidden = None THEN h.shown ELSE h.shown \cup {h.hidden},
     hidden |-> None]

\* Every result HideActiveTimer can have: it hides all the timers that are shown
\* and remembers the last one it met, never the round's if there is another, for
\* the round's comes first in the entity list.
LastShown(shown) ==
    IF shown \subseteq {"round"} THEN IF shown = {} THEN {None} ELSE shown
                                 ELSE shown \ {"round"}

\* Mutant: the timer that was shown is remembered but stays on display.
HideActiveTimerLeavesItShown(h) ==
    {[wait |-> h.wait, stale |-> h.stale, shown |-> h.shown, hidden |-> t] : t \in LastShown(h.shown)}

HideActiveTimer(h) ==
    {[wait |-> h.wait, stale |-> h.stale, shown |-> {}, hidden |-> t] : t \in LastShown(h.shown)}

\* Mutant: the timer hidden when the wait began is not shown again.
RemoveWaitTimerOnly(h) ==
    [wait |-> UtilRemove(h.wait), stale |-> h.stale, shown |-> h.shown, hidden |-> h.hidden]

\* SetInWaitingForPlayers( false ), for a server that is in waiting.
RemoveWaitTimer(h) ==
    RestoreActiveTimer([wait |-> UtilRemove(h.wait), stale |-> h.stale,
                        shown |-> h.shown, hidden |-> h.hidden])

\* Mutant: the stalemate timer survives the sudden death.
StateLeaveKeepsTimer(h) == IF roundState = "STALEMATE" THEN RestoreActiveTimer(h) ELSE h

\* State_Leave: only State_Leave_STALEMATE touches the modelled state.
StateLeave(h) ==
    IF roundState = "STALEMATE"
    THEN RestoreActiveTimer([wait |-> h.wait, stale |-> UtilRemove(h.stale),
                             shown |-> h.shown, hidden |-> h.hidden])
    ELSE h

Dying(h) == {t \in {"wait", "stale"} : h[t] = "dying"}

CleanupDeleteList(h) ==
    [wait |-> IF h.wait = "dying" THEN "none" ELSE h.wait,
     stale |-> IF h.stale = "dying" THEN "none" ELSE h.stale,
     shown |-> h.shown \ Dying(h),
     hidden |-> IF h.hidden \in Dying(h) THEN None ELSE h.hidden]

-----------------------------------------------------------------------------
(***************************************************************************)
(* What the handlers are made of.                                          *)
(***************************************************************************)
IsInPreMatch == Tournament /\ inWaiting
BHavePlayers == pop # {}

Swap(sc) == [t \in Teams |-> sc[Other(t)]]

\* Mutant: a round that follows the waiting period may keep its map.
MustResetMapIfForced(force, prev) == force

MustResetMap(force, prev) == force \/ prev

\* RoundRespawn: the map is rebuilt if asked for, teams asked to switch or to
\* scramble do, and everybody spawns.  force, prev and so on are the values the
\* members have when it runs.
RoundRespawn(force, prev, switch, scramble, sc, left, h) ==
    /\ hud' = IF MustResetMap(force, prev) THEN FreshHud(left) ELSE h
    /\ score' = IF switch THEN Swap(sc) ELSE sc
    /\ \E p \in SUBSET Teams :
        /\ IF scramble THEN (p = {}) = (pop = {})
           ELSE p = IF switch THEN {Other(t) : t \in pop} ELSE pop
        /\ pop' = p /\ alive' = p
    /\ switchTeams' = FALSE /\ scrambleTeams' = FALSE

EnterPREROUND(force, prev, switch, scramble, sc, left, h) ==
    /\ roundState' = "PREROUND" /\ stateEnds' = "pending"
    /\ RoundRespawn(force, prev, switch, scramble, sc, left, h)

\* Mutant: the count of rounds survives the reset of the scores.
RoundsAfterResetKept == roundsPlayed

\* ResetScores, for the count of rounds.
RoundsAfterReset == IF resetRoundsPlayed THEN 0 ELSE roundsPlayed

\* Mutant: restarting the round does not end the wait.
EndWaitingForgotten == UNCHANGED <<inWaiting, waitEnds>>

EndWaiting ==
    /\ inWaiting' = FALSE
    /\ waitEnds' = IF inWaiting THEN "unset" ELSE waitEnds

\* State_Transition( GR_STATE_RESTART ), which enters PREROUND at once.
Restart(waiting, switch, scramble, sc, h) ==
    LET leaving == StateLeave(h)
        stopped == IF waiting THEN RemoveWaitTimer(leaving) ELSE leaving
    IN  /\ prevRoundWasWaiting' = waiting
        /\ EndWaiting
        /\ roundsPlayed' = RoundsAfterReset
        /\ timeLeft' = "far"
        /\ EnterPREROUND(forceMapReset, waiting, switch, scramble,
                         IF resetTeamScores THEN [t \in Teams |-> 0] ELSE sc, "far", stopped)

\* The stalemate timer of an earlier stalemate that is still being deleted is
\* forgotten as soon as it is replaced.
EnterSTALEMATE(h) ==
    /\ roundState' = "STALEMATE" /\ UNCHANGED stateEnds
    /\ alive' = pop /\ UNCHANGED pop
    /\ \E hidden \in HideActiveTimer(StateLeave(h)) :
        hud' = [wait |-> hidden.wait,
                stale |-> IF StalemateTimed THEN "live" ELSE "none",
                shown |-> IF StalemateTimed THEN hidden.shown \cup {"stale"} ELSE hidden.shown,
                hidden |-> IF hidden.hidden = "stale" THEN None ELSE hidden.hidden]
    /\ staleEnds' = IF StalemateTimed THEN "pending" ELSE "unset"

\* The automatic scramble a full-reset win may decide on, unless the match may end
\* with the next round, and that it spares the count of rounds in the next reset.
AutoScramble(t, force) ==
    \/ UNCHANGED <<scrambleTeams, resetTeamScores, resetRoundsPlayed>>
    \/ /\ force /\ t # None /\ ~Tournament
       /\ "nextlevel" \notin cvars
       /\ (TimeLimit \/ changelevelAfterStalemate) => timeLeft = "far"
       /\ WinLimit > 0 \/ MaxRounds > 0 =>
            /\ MaxRounds - roundsPlayed' # 1
            /\ \A team \in Teams : WinLimit - score'[team] # 1
       /\ scrambleTeams' = TRUE
       /\ resetTeamScores' = TRUE /\ resetRoundsPlayed' = FALSE

ShouldScorePerRound == ~ScorePerCapture

\* SetWinningTeam, without AutoScramble.  Nobody wins a round that has been won.
SetWinningTeam(t, force, switch, dontAddScore) ==
    IF roundState = "TEAM_WIN"
    THEN UNCHANGED <<forceMapReset, switchTeams, resultVars, stateVars, hud>>
    ELSE /\ forceMapReset' = force /\ switchTeams' = switch
         /\ winner' = t
         /\ score' = IF /\ t # None /\ ~dontAddScore /\ ShouldScorePerRound
                        /\ force \/ (TimeLimit /\ timeLeft = "due")
                     THEN [score EXCEPT ![t] = @ + 1] ELSE score
         /\ roundState' = "TEAM_WIN" /\ stateEnds' = "pending"
         /\ roundsPlayed' = IF force THEN roundsPlayed + 1 ELSE roundsPlayed
         /\ hud' = StateLeave(hud)

\* SetStalemate.  A server without sudden death makes it a win of nobody.
SetStalemate(force, switch) ==
    \/ /\ IsInPreMatch \/ (StalemateEnable /\ roundState = "STALEMATE")
       /\ UNCHANGED <<forceMapReset, switchTeams, resultVars, stateVars, hudVars, playerVars>>
    \/ /\ ~IsInPreMatch /\ ~StalemateEnable
       /\ SetWinningTeam(None, force, switch, FALSE)
       /\ UNCHANGED <<staleEnds, playerVars>>
    \/ /\ ~IsInPreMatch /\ StalemateEnable /\ roundState # "STALEMATE"
       /\ forceMapReset' = force /\ winner' = None
       /\ EnterSTALEMATE(hud)
       /\ UNCHANGED <<switchTeams, score, roundsPlayed>>

\* RestartTournament (only ever called in tournament mode).
RestartTournament ==
    /\ inWaiting' = TRUE
    /\ waitEnds' = IF inWaiting THEN waitEnds ELSE "pending"
    /\ awaitingReady' = TRUE /\ teamReady' = {}
    /\ changelevelAfterStalemate' = FALSE
    /\ UNCHANGED <<restartAt, timeLeft>>

\* GoToIntermission outside tournament mode: State_Enter with no State_Leave.
GoToIntermission ==
    /\ gameOver' = TRUE
    /\ roundState' = "GAME_OVER"
    /\ UNCHANGED stateEnds

WinLimitReached(t) == WinLimit > 0 /\ score[t] >= WinLimit
FarAhead(t) ==
    /\ WinDifference > 0 /\ score[t] - score[Other(t)] >= WinDifference
    /\ WinDifferenceMin = 0 \/ score[t] >= WinDifferenceMin

\* The difference is looked at if no team has reached the limit.
LimitTeams ==
    LET reached == {t \in Teams : WinLimitReached(t)}
    IN  IF reached # {} THEN reached ELSE {t \in Teams : FarAhead(t)}

CheckWinLimit == ~IsInPreMatch /\ LimitTeams # {}
CheckMaxRounds == ~IsInPreMatch /\ MaxRounds > 0 /\ roundsPlayed >= MaxRounds
CheckNextLevelCvar == forceMapReset /\ "nextlevel" \in cvars

\* The values CheckTimeLimit can return.  canChange is what
\* CanChangelevelBecauseOfTimeLimit answers: a map with mini-rounds left may
\* refuse while no full reset is due.
CheckTimeLimit ==
    {/\ ~IsInPreMatch
     /\ (TimeLimit /\ canChange) \/ changelevelAfterStalemate
     /\ \/ timeLeft = "due" \/ changelevelAfterStalemate
        \/ timeLeft = "near" /\ ~Tournament :
        canChange \in IF forceMapReset THEN {TRUE} ELSE BOOLEAN}

-----------------------------------------------------------------------------
(***************************************************************************)
(* State_Think, one action per state (per outcome where they differ).      *)
(***************************************************************************)
\* Mutant: the states go on thinking after the game is over.
StateThinkAfterGameOver(s) ==
    /\ phase = "entities" /\ roundState = s
    /\ phase' = "periodic"

StateThink(s) ==
    /\ phase = "entities" /\ ~gameOver /\ roundState = s
    /\ phase' = "periodic"

Think_PREGAME ==
    /\ StateThink("PREGAME")
    /\ IF BHavePlayers
       THEN roundState' = "STARTGAME" /\ stateEnds' = "pending"
       ELSE UNCHANGED stateVars
    /\ UNCHANGED <<gameOver, waitVars, readyVars, cvars, flagVars, resetVars,
                   resultVars, mapTimeVars, hudVars, playerVars>>

\* The wait begins here; SetInWaitingForPlayers does nothing if it is on.
Think_STARTGAME ==
    /\ StateThink("STARTGAME")
    /\ IF stateEnds = "due"
       THEN /\ inWaiting' = (inWaiting \/ WaitingTime)
            /\ waitEnds' = IF WaitingTime /\ ~inWaiting THEN "pending" ELSE waitEnds
            /\ EnterPREROUND(forceMapReset, prevRoundWasWaiting, switchTeams,
                             scrambleTeams, score, timeLeft, hud)
            /\ UNCHANGED <<resetTeamScores, resetRoundsPlayed>>
       ELSE UNCHANGED <<stateVars, waitVars, flagVars, score, hud, playerVars>>
    /\ UNCHANGED <<gameOver, readyVars, cvars, resetVars, winner, roundsPlayed,
                   mapTimeVars, staleEnds>>

Think_PREROUND ==
    /\ StateThink("PREROUND")
    /\ IF stateEnds = "due"
       THEN roundState' = "RND_RUNNING" /\ prevRoundWasWaiting' = FALSE
       ELSE UNCHANGED <<roundState, prevRoundWasWaiting>>
    /\ UNCHANGED <<gameOver, stateEnds, waitVars, readyVars, cvars, flagVars,
                   forceMapReset, resultVars, mapTimeVars, hudVars, playerVars>>

NoPlayers(s) ==
    /\ StateThink(s) /\ ~BHavePlayers
    /\ roundState' = "PREGAME" /\ UNCHANGED stateEnds
    /\ hud' = StateLeave(hud)
    /\ UNCHANGED <<gameOver, waitVars, readyVars, cvars, flagVars, resetVars,
                   resultVars, mapTimeVars, staleEnds, playerVars>>

\* CheckReadyRestart's second half: every team is ready, so ask for a restart.
AllTeamsReady == awaitingReady /\ teamReady = Teams

\* Mutant: the teams are no longer awaited, and no restart is asked for.
ReadyRestartNeverAsks ==
    IF AllTeamsReady
    THEN /\ awaitingReady' = FALSE
         /\ resetTeamScores' = TRUE /\ resetRoundsPlayed' = TRUE
         /\ UNCHANGED cvars
    ELSE UNCHANGED <<cvars, awaitingReady, resetTeamScores, resetRoundsPlayed>>

ReadyRestart ==
    IF AllTeamsReady
    THEN /\ cvars' = cvars \cup {"restartgame"}
         /\ awaitingReady' = FALSE
         /\ resetTeamScores' = TRUE /\ resetRoundsPlayed' = TRUE
    ELSE UNCHANGED <<cvars, awaitingReady, resetTeamScores, resetRoundsPlayed>>

\* CheckReadyRestart with the countdown over, outside tournament mode.  The reset
\* flags that ResetScores sets to true stay true whatever ReadyRestart does.
RestartRound(s) ==
    /\ StateThink(s) /\ restartAt = "due" /\ ~Tournament
    /\ restartAt' = "unset"
    /\ Restart(inWaiting, switchTeams, scrambleTeams, score, hud)
    /\ resetTeamScores' = TRUE /\ resetRoundsPlayed' = TRUE
    /\ awaitingReady' = (awaitingReady /\ ~AllTeamsReady)
    /\ cvars' = IF AllTeamsReady THEN cvars \cup {"restartgame"} ELSE cvars
    /\ UNCHANGED <<gameOver, teamReady, forceMapReset, winner,
                   changelevelAfterStalemate, staleEnds>>

\* ... and in tournament mode: StartCompetitiveMatch, which respawns the round
\* itself before it transitions to RESTART.  That RoundRespawn consumes the
\* requests to switch and to scramble; as swapping the scores commutes with
\* resetting them, they are given to the second one here.
StartCompetitiveMatch(s) ==
    /\ StateThink(s) /\ restartAt = "due" /\ Tournament
    /\ restartAt' = "unset"
    /\ LET ended == IF inWaiting THEN RemoveWaitTimer(hud) ELSE hud
       IN  Restart(FALSE, switchTeams /\ ~PreventSwitch, scrambleTeams, score,
                   IF forceMapReset \/ prevRoundWasWaiting
                   THEN FreshHud(timeLeft) ELSE ended)
    /\ resetTeamScores' = TRUE /\ resetRoundsPlayed' = TRUE
    /\ teamReady' = {}
    /\ UNCHANGED <<gameOver, awaitingReady, cvars, forceMapReset, winner,
                   changelevelAfterStalemate, staleEnds>>

\* The rest of State_Think_RND_RUNNING, with no restart due.  Whether a drawn
\* match may go to stalemate depends on the flags of the map (CanGoToStalemate);
\* if it may not, the round goes to overtime.
TimeLimitReached == TimeLimit /\ ~IsInPreMatch /\ timeLeft = "due" /\ EndAtTimelimit
Drawn == score[Red] = score[Blue]

RunRound ==
    /\ StateThink("RND_RUNNING") /\ BHavePlayers /\ restartAt # "due"
    /\ ReadyRestart
    /\ \/ /\ ~TimeLimitReached \/ Drawn
          /\ UNCHANGED <<forceMapReset, switchTeams, resultVars, stateVars, hudVars,
                         playerVars, changelevelAfterStalemate>>
       \/ /\ TimeLimitReached /\ Drawn
          /\ changelevelAfterStalemate' = TRUE
          /\ SetStalemate(forceMapReset, FALSE)
       \/ /\ TimeLimitReached /\ ~Drawn
          /\ \E t \in Teams : score[t] > score[Other(t)] /\ SetWinningTeam(t, TRUE, FALSE, TRUE)
          /\ UNCHANGED <<staleEnds, playerVars, changelevelAfterStalemate>>
    /\ UNCHANGED <<gameOver, waitVars, restartAt, teamReady, scrambleTeams,
                   prevRoundWasWaiting, timeLeft>>

Think_RND_RUNNING ==
    \/ NoPlayers("RND_RUNNING")
    \/ BHavePlayers /\ RestartRound("RND_RUNNING")
    \/ BHavePlayers /\ StartCompetitiveMatch("RND_RUNNING")
    \/ RunRound

\* Mutant: a win does not end a match whose last round it was.
MatchDecidedByScore(timeUp) == timeUp \/ CheckWinLimit \/ CheckNextLevelCvar

MatchDecided(timeUp) == timeUp \/ CheckWinLimit \/ CheckMaxRounds \/ CheckNextLevelCvar

\* The bonus time after a win is over.
Think_TEAM_WIN ==
    /\ StateThink("TEAM_WIN")
    /\ \E timeUp \in CheckTimeLimit :
        LET done == MatchDecided(timeUp)
        IN  \/ /\ stateEnds # "due"
               /\ UNCHANGED <<stateVars, gameOver, waitVars, readyVars, flagVars, resetVars,
                              score, mapTimeVars, hud, playerVars>>
            \/ /\ stateEnds = "due" /\ ~done
               /\ EnterPREROUND(forceMapReset, prevRoundWasWaiting, switchTeams,
                                scrambleTeams, score, timeLeft, hud)
               /\ UNCHANGED <<gameOver, waitVars, readyVars, resetTeamScores,
                              resetRoundsPlayed, resetVars, mapTimeVars>>
            \/ /\ stateEnds = "due" /\ done /\ ~Tournament
               /\ GoToIntermission
               /\ UNCHANGED <<waitVars, readyVars, flagVars, resetVars, score,
                              mapTimeVars, hud, playerVars>>
            \/ /\ stateEnds = "due" /\ done /\ Tournament
               /\ RestartTournament
               /\ roundState' = "RND_RUNNING" /\ prevRoundWasWaiting' = FALSE
               /\ UNCHANGED <<gameOver, stateEnds, flagVars, forceMapReset, score,
                              hud, playerVars>>
    /\ UNCHANGED <<cvars, winner, roundsPlayed, staleEnds>>

\* A sudden death ends when a team is wiped out, when both are, or when its timer
\* runs out and the map lets it (TimerMayExpire).  The control point master, if the
\* map has one, decides the winner of a round that is not to reset the map.
StalemateDecided ==
    \/ \E t \in alive : /\ alive = {t}
                        /\ \E force, switch \in BOOLEAN :
                            /\ forceMapReset => force
                            /\ switch => force /\ ~forceMapReset
                            /\ SetWinningTeam(t, force, switch, FALSE)
                            /\ AutoScramble(t, force)
    \/ /\ alive = {} \/ (alive = Teams /\ hud.stale # "none" /\ staleEnds = "due")
       /\ \E fullReset \in BOOLEAN : SetWinningTeam(None, fullReset, FALSE, FALSE)
       /\ UNCHANGED <<scrambleTeams, resetTeamScores, resetRoundsPlayed>>

Think_STALEMATE ==
    \/ NoPlayers("STALEMATE")
    \/ BHavePlayers /\ IsInPreMatch /\ StartCompetitiveMatch("STALEMATE")
    \/ /\ StateThink("STALEMATE") /\ BHavePlayers /\ IsInPreMatch /\ restartAt # "due"
       /\ ReadyRestart
       /\ alive' \in {p \in SUBSET pop : alive \subseteq p}
       /\ UNCHANGED <<gameOver, stateVars, waitVars, restartAt, teamReady, switchTeams,
                      scrambleTeams, resetVars, resultVars, mapTimeVars, hudVars, pop>>
    \/ /\ StateThink("STALEMATE") /\ BHavePlayers /\ ~IsInPreMatch
       /\ \/ StalemateDecided
          \/ /\ alive = Teams
             /\ UNCHANGED <<forceMapReset, flagVars, resultVars, stateVars, hud>>
       /\ UNCHANGED <<gameOver, waitVars, readyVars, cvars, prevRoundWasWaiting,
                      mapTimeVars, staleEnds, playerVars>>

\* With g_fGameOver set, Think only waits for the intermission to end.
Think_GAME_OVER ==
    /\ phase = "entities" /\ gameOver /\ phase' = "events"
    /\ UNCHANGED <<gameOver, stateVars, waitVars, readyVars, cvars, flagVars, resetVars,
                   resultVars, mapTimeVars, hudVars, playerVars>>

-----------------------------------------------------------------------------
(***************************************************************************)
(* The checks Think makes once a second.                                   *)
(***************************************************************************)
\* Mutant: the limits are only looked at while a round begins or runs.
LimitStatesOfRound == {"PREROUND", "RND_RUNNING"}

\* Not during win or stalemate states.
LimitStates == States \ {"TEAM_WIN", "STALEMATE", "GAME_OVER"}

PeriodicStart == phase = "periodic" /\ phase' = "events"

\* Not yet a second since the last time.
Periodic_NotDue ==
    /\ PeriodicStart
    /\ UNCHANGED <<gameOver, stateVars, waitVars, readyVars, cvars, flagVars, resetVars,
                   resultVars, mapTimeVars, hudVars, playerVars>>

\* CheckWinLimit or CheckMaxRounds ends the game, and Think returns.  In a tournament
\* it is Blue that wins if both teams have reached the limit.
Periodic_LimitReached ==
    /\ PeriodicStart /\ roundState \in LimitStates
    /\ CheckWinLimit \/ CheckMaxRounds
    /\ \/ /\ ~Tournament /\ GoToIntermission
          /\ UNCHANGED <<forceMapReset, switchTeams, resultVars, hud>>
       \/ /\ Tournament /\ UNCHANGED gameOver
          /\ IF CheckWinLimit
             THEN \E t \in LimitTeams :
                    /\ Blue \in LimitTeams => t = Blue
                    /\ SetWinningTeam(t, TRUE, FALSE, TRUE)
             ELSE UNCHANGED <<forceMapReset, switchTeams, resultVars, stateVars, hud>>
    /\ UNCHANGED <<waitVars, readyVars, cvars, scrambleTeams, resetTeamScores,
                   resetRoundsPlayed, prevRoundWasWaiting, mapTimeVars, staleEnds,
                   playerVars>>

\* CheckRestartRound: what it makes of the requests made since the last time.
RestartRequests == cvars \cap {"restartround", "restartgame", "restartnow"}
ReadyRequested == "readyrestart" \in cvars /\ ~Tournament

CheckRestartRound ==
    [awaiting |-> (awaitingReady \/ ReadyRequested) /\ RestartRequests = {},
     ready |-> IF ReadyRequested THEN {} ELSE teamReady,
     reset |-> IF RestartRequests = {} THEN forceMapReset
               ELSE cvars \cap {"restartgame", "restartnow"} # {},
     at |-> IF "restartnow" \in cvars THEN "due"
            ELSE IF RestartRequests # {} THEN "pending"
            ELSE IF ReadyRequested THEN "unset" ELSE restartAt]

\* CheckWaitingForPlayers after it: the wait is restarted, cancelled, shown in the
\* HUD, or over, in which case the round restarts as soon as it can.
WaitCancelled == "waitcancel" \in cvars /\ ~Tournament

Periodic_Checks ==
    /\ PeriodicStart
    /\ ~(roundState \in LimitStates /\ (CheckWinLimit \/ CheckMaxRounds))
    /\ LET checked  == CheckRestartRound
           started  == inWaiting \/ "waitrestart" \in cvars
           waiting  == started /\ ~WaitCancelled
           ends     == IF "waitrestart" \in cvars THEN "pending" ELSE waitEnds
           over     == ends = "due" /\ checked.at = "unset" /\ ~checked.awaiting
           timers   == IF started /\ ~waiting THEN RemoveWaitTimer(hud) ELSE hud
       IN  /\ awaitingReady' = checked.awaiting
           /\ teamReady' = checked.ready
           /\ forceMapReset' = checked.reset
           /\ inWaiting' = waiting
           /\ waitEnds' = IF started /\ ~waiting THEN "unset" ELSE ends
           /\ restartAt' = IF waiting /\ ~Tournament /\ over THEN "due" ELSE checked.at
           /\ IF waiting /\ ~Tournament /\ ~over /\ timers.wait = "none"
              THEN \E h \in HideActiveTimer(timers) :
                    hud' = [wait |-> "live", stale |-> h.stale, shown |-> h.shown \cup {"wait"},
                            hidden |-> h.hidden]
              ELSE hud' = timers
    /\ cvars' = cvars \cap ({"nextlevel"}
                            \cup IF Tournament THEN {"readyrestart", "waitcancel"} ELSE {})
    /\ UNCHANGED <<gameOver, stateVars, flagVars, prevRoundWasWaiting, resultVars,
                   mapTimeVars, staleEnds, playerVars>>

-----------------------------------------------------------------------------
(***************************************************************************)
(* What reaches the rules between two Thinks: console commands, players,   *)
(* the map's entities, and time.                                           *)
(***************************************************************************)
Between == phase \in {"entities", "events"}

\* At these bounds the map declares no more wins, and past them the frames stop.
MoreWins == roundsPlayed < MaxPlayed /\ \A t \in Teams : score[t] < MaxScore
WithinBounds == roundsPlayed <= MaxPlayed /\ \A t \in Teams : score[t] <= MaxScore

SetCVar(c) ==
    /\ Between /\ c \in Commands \cap CVars /\ c \notin cvars
    /\ cvars' = cvars \cup {c}
    /\ UNCHANGED <<frameVars, stateVars, waitVars, readyVars, flagVars, resetVars,
                   resultVars, mapTimeVars, hudVars, playerVars>>

\* cc_SwitchTeams
SwitchTeamsCommand ==
    /\ Between /\ "switchteams" \in Commands
    /\ switchTeams' = TRUE /\ UNCHANGED scrambleTeams
    /\ cvars' = cvars \cup {"restartgame"}
    /\ resetTeamScores' = FALSE /\ resetRoundsPlayed' = FALSE
    /\ UNCHANGED <<frameVars, stateVars, waitVars, readyVars, resetVars, resultVars,
                   mapTimeVars, hudVars, playerVars>>

\* Mutant: the argument 2 keeps the scores instead of the count of rounds.
ScrambleTeamsKeepsScores(c) ==
    /\ Between /\ c \in Commands \cap {"scrambleteams", "scrambleteams2"}
    /\ scrambleTeams' = TRUE /\ UNCHANGED switchTeams
    /\ cvars' = cvars \cup {"restartgame"}
    /\ resetTeamScores' = (resetTeamScores /\ c # "scrambleteams2")
    /\ resetRoundsPlayed' = TRUE
    /\ UNCHANGED <<frameVars, stateVars, waitVars, readyVars, resetVars, resultVars,
                   mapTimeVars, hudVars, playerVars>>

\* cc_ScrambleTeams, with and without its argument 2
ScrambleTeamsCommand(c) ==
    /\ Between /\ c \in Commands \cap {"scrambleteams", "scrambleteams2"}
    /\ scrambleTeams' = TRUE /\ UNCHANGED switchTeams
    /\ cvars' = cvars \cup {"restartgame"}
    /\ resetTeamScores' = TRUE
    /\ resetRoundsPlayed' = (resetRoundsPlayed /\ c # "scrambleteams2")
    /\ UNCHANGED <<frameVars, stateVars, waitVars, readyVars, resetVars, resultVars,
                   mapTimeVars, hudVars, playerVars>>

\* CC_CH_TournamentRestart
TournamentRestartCommand ==
    /\ Between /\ "tournament_restart" \in Commands /\ Tournament
    /\ RestartTournament
    /\ UNCHANGED <<frameVars, stateVars, cvars, flagVars, resetVars, resultVars,
                   hudVars, playerVars>>

\* CheckChatForReadySignal, or tournament_readystate 1 before a tournament match.
TeamReadies(t) ==
    /\ Between /\ t \in pop \ teamReady
    /\ IF Tournament THEN inWaiting ELSE awaitingReady
    /\ teamReady' = teamReady \cup {t}
    /\ UNCHANGED <<frameVars, stateVars, waitVars, restartAt, awaitingReady, cvars, flagVars,
                   resetVars, resultVars, mapTimeVars, hudVars, playerVars>>

\* tournament_readystate 0: the countdown is called off.
TeamUnreadies(t) ==
    /\ Between /\ IsInPreMatch /\ t \in pop \cap teamReady
    /\ teamReady' = teamReady \ {t}
    /\ restartAt' = "unset" /\ awaitingReady' = TRUE
    /\ UNCHANGED <<frameVars, stateVars, waitVars, cvars, flagVars, resetVars, resultVars,
                   mapTimeVars, hudVars, playerVars>>

\* CTeamplayRoundWin::RoundWin: the map's logic declares a winner, or nobody.
RoundWin(t, force, switch) ==
    /\ Between /\ MoreWins /\ <<force, switch>> \in WinInputs
    /\ \/ /\ t # None /\ SetWinningTeam(t, force, switch /\ force, FALSE)
          /\ IF roundState = "TEAM_WIN"
             THEN UNCHANGED <<scrambleTeams, resetTeamScores, resetRoundsPlayed>>
             ELSE AutoScramble(t, force)
          /\ UNCHANGED <<staleEnds, playerVars>>
       \/ /\ t = None /\ SetStalemate(force, switch)
          /\ UNCHANGED <<scrambleTeams, resetTeamScores, resetRoundsPlayed>>
    /\ UNCHANGED <<frameVars, waitVars, readyVars, cvars, prevRoundWasWaiting, mapTimeVars>>

AddScore(t, n) ==
    /\ score[t] + n \in -MaxScore .. MaxScore
    /\ score' = [score EXCEPT ![t] = @ + n]
    /\ UNCHANGED <<frameVars, stateVars, waitVars, readyVars, cvars, flagVars, resetVars,
                   winner, roundsPlayed, mapTimeVars, hudVars, playerVars>>

\* SetOwner and InputSetOwner of a control point score before they change its owner;
\* the map may declare the win that follows (RoundWin).
HandleScoring(t) ==
    /\ Between /\ ~ShouldScorePerRound
    /\ roundState \in {"RND_RUNNING", "STALEMATE"} /\ ~inWaiting
    /\ AddScore(t, 1)

\* CTFTeamManager::AddTeamScore and AddPointsToTeam, which ask for no state: a flag
\* capture that counts as a score, the inputs AddRedTeamScore and AddBlueTeamScore, or
\* game_score.  The number may be negative.
AddTeamScore(t, n) ==
    /\ Between /\ n \in ScoreInputs
    /\ AddScore(t, n)

\* Only deaths that can decide a sudden death matter here; everyone respawns when
\* one begins.
Die(t) ==
    /\ Between /\ roundState = "STALEMATE" /\ t \in alive
    /\ alive' = alive \ {t} /\ UNCHANGED pop
    /\ UNCHANGED <<frameVars, stateVars, waitVars, readyVars, cvars, flagVars, resetVars,
                   resultVars, mapTimeVars, hudVars>>

\* The first player of a team joins (and waits for the next spawn in sudden death),
\* or its last player leaves.
TeamFills(t) ==
    /\ Between /\ t \notin pop
    /\ pop' = pop \cup {t}
    /\ alive' = IF roundState = "STALEMATE" THEN alive ELSE alive \cup {t}
    /\ UNCHANGED <<frameVars, stateVars, waitVars, readyVars, cvars, flagVars, resetVars,
                   resultVars, mapTimeVars, hudVars>>

\* Mutant: the players who leave are still counted as alive.
TeamEmptiesStillAlive(t) ==
    /\ Between /\ t \in pop
    /\ pop' = pop \ {t} /\ UNCHANGED alive
    /\ UNCHANGED <<frameVars, stateVars, waitVars, readyVars, cvars, flagVars, resetVars,
                   resultVars, mapTimeVars, hudVars>>

TeamEmpties(t) ==
    /\ Between /\ t \in pop
    /\ pop' = pop \ {t} /\ alive' = alive \ {t}
    /\ UNCHANGED <<frameVars, stateVars, waitVars, readyVars, cvars, flagVars, resetVars,
                   resultVars, mapTimeVars, hudVars>>

\* HandleCommand_JoinTeam: a player of one team joins the other, and the team that
\* is left is no longer ready.
JoinTeam(t) ==
    /\ Between /\ t \in pop
    /\ teamReady' = teamReady \ {t}
    /\ \E emptied \in {{}, {t}} :
        /\ pop' = (pop \cup {Other(t)}) \ emptied
        /\ alive' = (IF roundState = "STALEMATE" THEN alive ELSE alive \cup {Other(t)}) \ emptied
    /\ UNCHANGED <<frameVars, stateVars, waitVars, restartAt, awaitingReady, cvars, flagVars,
                   resetVars, resultVars, mapTimeVars, hudVars>>

\* Time passes between two frames.
StateTimeUp ==
    /\ phase = "entities" /\ stateEnds = "pending" /\ stateEnds' = "due"
    /\ UNCHANGED <<frameVars, roundState, waitVars, readyVars, cvars, flagVars, resetVars,
                   resultVars, mapTimeVars, hudVars, playerVars>>

WaitTimeUp ==
    /\ phase = "entities" /\ waitEnds = "pending" /\ waitEnds' = "due"
    /\ UNCHANGED <<frameVars, stateVars, inWaiting, readyVars, cvars, flagVars, resetVars,
                   resultVars, mapTimeVars, hudVars, playerVars>>

RestartTimeUp ==
    /\ phase = "entities" /\ restartAt = "pending" /\ restartAt' = "due"
    /\ UNCHANGED <<frameVars, stateVars, waitVars, awaitingReady, teamReady, cvars, flagVars,
                   resetVars, resultVars, mapTimeVars, hudVars, playerVars>>

StalemateTimeUp ==
    /\ phase = "entities" /\ staleEnds = "pending" /\ staleEnds' = "due"
    /\ UNCHANGED <<frameVars, stateVars, waitVars, readyVars, cvars, flagVars, resetVars,
                   resultVars, mapTimeVars, hud, playerVars>>

MapTimePasses ==
    /\ phase = "entities" /\ TimeLimit /\ timeLeft # "due"
    /\ timeLeft' = IF timeLeft = "far" THEN "near" ELSE "due"
    /\ UNCHANGED <<frameVars, stateVars, waitVars, readyVars, cvars, flagVars, resetVars,
                   resultVars, changelevelAfterStalemate, hudVars, playerVars>>

\* The entities marked for deletion go, and the next frame begins.
EndFrame ==
    /\ phase = "events" /\ phase' = "entities"
    /\ hud' = CleanupDeleteList(hud)
    /\ UNCHANGED <<gameOver, stateVars, waitVars, readyVars, cvars, flagVars, resetVars,
                   resultVars, mapTimeVars, staleEnds, playerVars>>

-----------------------------------------------------------------------------
\* The constructor, on a map whose timer shows from the start.
Init ==
    /\ phase = "entities" /\ gameOver = FALSE
    /\ roundState = "PREGAME" /\ stateEnds = "unset"
    /\ inWaiting = FALSE /\ waitEnds = "unset"
    /\ restartAt = "unset" /\ awaitingReady = Tournament /\ teamReady = {}
    /\ cvars = {}
    /\ switchTeams = FALSE /\ scrambleTeams = FALSE
    /\ resetTeamScores = TRUE /\ resetRoundsPlayed = TRUE
    /\ forceMapReset = TRUE /\ prevRoundWasWaiting = FALSE
    /\ winner = None /\ score = [t \in Teams |-> 0] /\ roundsPlayed = 0
    /\ changelevelAfterStalemate = FALSE /\ timeLeft = "far"
    /\ staleEnds = "unset"
    /\ hud = [wait |-> "none", stale |-> "none",
              shown |-> IF MapTimer THEN {"round"} ELSE {}, hidden |-> None]
    /\ pop = {} /\ alive = {}

Think ==
    /\ WithinBounds
    /\ \/ Think_PREGAME \/ Think_STARTGAME \/ Think_PREROUND \/ Think_RND_RUNNING
       \/ Think_TEAM_WIN \/ Think_STALEMATE

Periodic == Periodic_NotDue \/ Periodic_LimitReached \/ Periodic_Checks

Command ==
    \/ \E c \in CVars : SetCVar(c)
    \/ SwitchTeamsCommand
    \/ \E c \in {"scrambleteams", "scrambleteams2"} : ScrambleTeamsCommand(c)
    \/ TournamentRestartCommand
    \/ \E t \in Teams : TeamReadies(t) \/ TeamUnreadies(t)

Scoring == \E t \in Teams : HandleScoring(t) \/ \E n \in ScoreInputs : AddTeamScore(t, n)

Map ==
    \/ \E t \in Teams \cup {None}, force, switch \in BOOLEAN : RoundWin(t, force, switch)
    \/ Scoring
Players == \E t \in Teams : Die(t) \/ TeamFills(t) \/ TeamEmpties(t) \/ JoinTeam(t)

TimePasses == StateTimeUp \/ WaitTimeUp \/ RestartTimeUp \/ StalemateTimeUp \/ MapTimePasses

Next ==
    \/ Think \/ Think_GAME_OVER \/ Periodic \/ EndFrame
    \/ Command \/ Map \/ Players \/ TimePasses

Spec == Init /\ [][Next]_vars

-----------------------------------------------------------------------------
(***************************************************************************)
(* Properties.                                                             *)
(***************************************************************************)

\* Think asserts, once State_Think has run, that the waiting timer exists only
\* while the server waits for players.  UTIL_Remove leaves the handle valid until
\* the end of the frame, so this rests on RESTART noting that the round was a
\* waiting one before it ends the wait: only then does RoundRespawn rebuild the map.
WaitTimerOnlyWhileWaiting == phase = "periodic" /\ hud.wait # "none" => inWaiting

\* Outside tournament mode CheckRestartRound cancels a ready restart when it
\* starts a countdown and cancels a countdown when it asks teams to be ready: the
\* two never run together.
CountdownOrReady == ~Tournament => ~(restartAt # "unset" /\ awaitingReady)

\* A map on which teams score by winning rounds and in no other way.
OnlyRoundsScore == ~ScorePerCapture /\ ScoreInputs = {}

\* On a map where only rounds score, and without a time limit, a score is only given
\* for a full round, and no sequence of restarts and console commands resets the count
\* of rounds but not the scores: no team has won more rounds than were played.
WinsWithinRounds ==
    OnlyRoundsScore /\ ~TimeLimit => \A t \in Teams : score[t] <= roundsPlayed

\* On a casual server without sudden death, no round starts once mp_maxrounds have been
\* played, nor, on a map where only rounds score, once a team has reached mp_winlimit or
\* is mp_windifference ahead, whatever was restarted, switched or scrambled in between.
\* A score that is made within a round may be met by a restart before it is looked at.
NoRoundPastLimit ==
    ~Tournament /\ ~StalemateEnable /\ roundState = "PREROUND" =>
        ~CheckMaxRounds /\ (OnlyRoundsScore => ~CheckWinLimit)

\* What MatchStartsClean supposes of the console, and what it promises.
KeepsNothing == Tournament /\ Commands \cap {"switchteams", "scrambleteams2"} = {}
StartsFromZero == roundsPlayed' = 0 /\ \A t \in Teams : score'[t] = 0

\* A tournament match that follows another starts from zero, although nothing but
\* the restart that begins it clears the scores and the count of rounds: unless
\* mp_switchteams or mp_scrambleteams 2, which keep them, is used between matches.
MatchStartsClean == [][KeepsNothing /\ inWaiting /\ ~inWaiting' => StartsFromZero]_vars

\* Once the intermission has begun, no round ever starts or runs again, although
\* the map's entities can still declare winners.
GameOverIsFinal ==
    [][gameOver => gameOver' /\ roundState' \in {"GAME_OVER", "TEAM_WIN", "STALEMATE"}]_vars

\* In a running round that is not a waiting one the HUD shows the map's timer: each
\* HideActiveTimer has been undone by a RestoreActiveTimer.  A server with sudden
\* death is excepted, where a draw can hide the timer that is to be restored.
MapTimerShown ==
    MapTimer /\ ~StalemateEnable /\ roundState = "RND_RUNNING" /\ ~inWaiting => "round" \in hud.shown

\* HideActiveTimer can remember one timer only: never are two on display, unless
\* one of them is being deleted, and the one it remembers is not on display.  A wait
\* that is cancelled during a sudden death is excepted: it restores the timer that
\* the sudden death has hidden.
OneTimerShown ==
    Cardinality(hud.shown \ Dying(hud)) <= 1 /\ hud.hidden \notin hud.shown

\* What is on display, whoever hid a timer and whoever restores it.
TimersShown == MapTimerShown /\ OneTimerShown

\* A stalemate timer exists, but for one that is being deleted, just as long as
\* the sudden death it was made for, however that ends.
StalemateTimerLives ==
    StalemateTimed => ((hud.stale = "live") <=> (roundState = "STALEMATE"))

\* The waiting period ends on a server that keeps players, however often they come,
\* go and change teams, unless the teams are asked to be ready, something is requested
\* for ever, or a limit ends the game: each of them puts the end of the wait off and
\* none may lose it.
WaitingEnds ==
    <>[](cvars = {}) => (inWaiting ~> ~inWaiting \/ awaitingReady \/ pop = {} \/ gameOver)

\* Once both teams of a tournament that awaits them are ready the match starts,
\* unless one changes its mind or everybody leaves: the restart that is asked for
\* reaches CheckRestartRound, and its countdown is not lost.
AwaitedMatchStarts ==
    []WithinBounds /\ <>[](RestartRequests = {}) =>
        (/\ inWaiting /\ awaitingReady /\ teamReady = Teams
         ~> ~inWaiting \/ teamReady # Teams \/ pop = {})

\* A limit that is passed on a casual server ends the game, however the scores were
\* made: a win that is being celebrated, a restart or an empty server may put that off,
\* but unless the score falls below the limit again the intermission begins.
LimitPassed == CheckWinLimit \/ CheckMaxRounds
LimitEndsGame ==
    ~Tournament /\ ~StalemateEnable =>
        (LimitPassed ~> gameOver \/ ~LimitPassed \/ ~WithinBounds)

(***************************************************************************)
(* Fairness: frames follow one another, the once a second checks keep      *)
(* being made, and time passes.                                            *)
(***************************************************************************)
Fairness ==
    /\ WF_vars(Think) /\ WF_vars(Think_GAME_OVER) /\ WF_vars(Periodic) /\ WF_vars(EndFrame)
    /\ SF_vars(Periodic_LimitReached \/ Periodic_Checks)
    /\ SF_vars(StateTimeUp) /\ SF_vars(WaitTimeUp) /\ SF_vars(RestartTimeUp)

FairSpec == Spec /\ Fairness
====
