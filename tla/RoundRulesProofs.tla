-------------------------- MODULE RoundRulesProofs --------------------------
(***************************************************************************)
(* Theorems about RoundRules, for every value of its constants.            *)
(***************************************************************************)
EXTENDS RoundRules, TLAPS

HudRecord == [wait : {"none", "live", "dying"}, stale : {"none", "live", "dying"},
              shown : SUBSET Timers, hidden : Timers \cup {None}]

-----------------------------------------------------------------------------
(***************************************************************************)
(* What the operators on the HUD timers return.                            *)
(***************************************************************************)

\* The timers of a rebuilt map.
LEMMA FreshHudType == ASSUME NEW left PROVE FreshHud(left) \in HudRecord
  BY DEF FreshHud, HudRecord, Timers

LEMMA RestoreType == ASSUME NEW h \in HudRecord PROVE RestoreActiveTimer(h) \in HudRecord
  BY DEF RestoreActiveTimer, HudRecord

LEMMA LeaveType == ASSUME NEW h \in HudRecord PROVE StateLeave(h) \in HudRecord
  <1>1. [wait |-> h.wait, stale |-> UtilRemove(h.stale), shown |-> h.shown, hidden |-> h.hidden]
            \in HudRecord
    BY DEF HudRecord, UtilRemove
  <1>2. QED BY <1>1, RestoreType DEF StateLeave

LEMMA RemoveWaitType == ASSUME NEW h \in HudRecord PROVE RemoveWaitTimer(h) \in HudRecord
  <1>1. [wait |-> UtilRemove(h.wait), stale |-> h.stale, shown |-> h.shown, hidden |-> h.hidden]
            \in HudRecord
    BY DEF HudRecord, UtilRemove
  <1>2. QED BY <1>1, RestoreType DEF RemoveWaitTimer

LEMMA HideType ==
  ASSUME NEW h \in HudRecord, NEW r \in HideActiveTimer(h)
  PROVE  r \in HudRecord
  BY DEF HideActiveTimer, LastShown, HudRecord, Timers

LEMMA CleanupType == ASSUME NEW h \in HudRecord PROVE CleanupDeleteList(h) \in HudRecord
  BY DEF CleanupDeleteList, HudRecord, Timers

LEMMA SwapType == ASSUME NEW sc \in [Teams -> Int] PROVE Swap(sc) \in [Teams -> Int]
  BY DEF Swap, Other, Teams

-----------------------------------------------------------------------------
(***************************************************************************)
(* Type correctness.                                                       *)
(***************************************************************************)

\* A respawn leaves the types right, and no request to switch or to scramble.
LEMMA RespawnType ==
  ASSUME NEW force, NEW prev, NEW switch, NEW scramble, NEW left,
         NEW sc \in [Teams -> Int], NEW h \in HudRecord,
         RoundRespawn(force, prev, switch, scramble, sc, left, h)
  PROVE  /\ hud' \in HudRecord /\ score' \in [Teams -> Int]
         /\ pop' \subseteq Teams /\ alive' \subseteq pop'
         /\ switchTeams' = FALSE /\ scrambleTeams' = FALSE
  <1>1. hud' \in HudRecord BY FreshHudType DEF RoundRespawn
  <1>2. score' \in [Teams -> Int] BY SwapType DEF RoundRespawn
  <1>3. QED BY <1>1, <1>2 DEF RoundRespawn

LEMMA PreroundType ==
  ASSUME NEW force, NEW prev, NEW switch, NEW scramble, NEW left,
         NEW sc \in [Teams -> Int], NEW h \in HudRecord,
         EnterPREROUND(force, prev, switch, scramble, sc, left, h)
  PROVE  /\ hud' \in HudRecord /\ score' \in [Teams -> Int]
         /\ pop' \subseteq Teams /\ alive' \subseteq pop'
         /\ switchTeams' = FALSE /\ scrambleTeams' = FALSE
         /\ roundState' = "PREROUND" /\ stateEnds' = "pending"
  BY RespawnType DEF EnterPREROUND

LEMMA RestartType ==
  ASSUME TypeOK, NEW waiting \in BOOLEAN, NEW switch, NEW scramble,
         NEW sc \in [Teams -> Int], NEW h \in HudRecord,
         Restart(waiting, switch, scramble, sc, h)
  PROVE  /\ hud' \in HudRecord /\ score' \in [Teams -> Int]
         /\ pop' \subseteq Teams /\ alive' \subseteq pop'
         /\ switchTeams' = FALSE /\ scrambleTeams' = FALSE
         /\ roundState' = "PREROUND" /\ stateEnds' = "pending"
         /\ prevRoundWasWaiting' = waiting /\ inWaiting' = FALSE
         /\ waitEnds' \in Deadlines /\ roundsPlayed' \in Nat /\ timeLeft' = "far"
  <1> DEFINE leaving == StateLeave(h)
             stopped == IF waiting THEN RemoveWaitTimer(leaving) ELSE leaving
             sc0 == IF resetTeamScores THEN [t \in Teams |-> 0] ELSE sc
  <1>1. leaving \in HudRecord BY LeaveType
  <1>2. stopped \in HudRecord BY <1>1, RemoveWaitType
  <1>3. sc0 \in [Teams -> Int] OBVIOUS
  <1>4. EnterPREROUND(forceMapReset, waiting, switch, scramble, sc0, "far", stopped)
    BY DEF Restart
  <1> HIDE DEF stopped, sc0
  <1>5. /\ hud' \in HudRecord /\ score' \in [Teams -> Int]
        /\ pop' \subseteq Teams /\ alive' \subseteq pop'
        /\ switchTeams' = FALSE /\ scrambleTeams' = FALSE
        /\ roundState' = "PREROUND" /\ stateEnds' = "pending"
    BY <1>2, <1>3, <1>4, PreroundType
  <1>6. /\ prevRoundWasWaiting' = waiting /\ inWaiting' = FALSE
        /\ waitEnds' \in Deadlines /\ roundsPlayed' \in Nat /\ timeLeft' = "far"
    BY DEF Restart, EndWaiting, RoundsAfterReset, TypeOK, Deadlines
  <1>7. QED BY <1>5, <1>6

LEMMA WinType ==
  ASSUME TypeOK, NEW t \in Teams \cup {None}, NEW force \in BOOLEAN, NEW switch \in BOOLEAN,
         NEW dont \in BOOLEAN, SetWinningTeam(t, force, switch, dont)
  PROVE  /\ forceMapReset' \in BOOLEAN /\ switchTeams' \in BOOLEAN
         /\ winner' \in Teams \cup {None} /\ score' \in [Teams -> Int]
         /\ roundsPlayed' \in Nat
         /\ roundState' \in States /\ stateEnds' \in Deadlines
         /\ hud' \in HudRecord
  <1>1. hud \in HudRecord BY DEF TypeOK, HudRecord
  <1>2. StateLeave(hud) \in HudRecord BY <1>1, LeaveType
  <1>3. CASE roundState = "TEAM_WIN"
    BY <1>1, <1>3 DEF SetWinningTeam, TypeOK, resultVars, stateVars
  <1>4. CASE roundState # "TEAM_WIN"
    BY <1>2, <1>4 DEF SetWinningTeam, TypeOK, States, Deadlines
  <1>5. QED BY <1>3, <1>4

LEMMA StalemateType ==
  ASSUME TypeOK, NEW h \in HudRecord, EnterSTALEMATE(h)
  PROVE  /\ roundState' \in States /\ stateEnds' \in Deadlines
         /\ pop' \subseteq Teams /\ alive' \subseteq pop'
         /\ hud' \in HudRecord /\ staleEnds' \in Deadlines
  <1>1. PICK hidden \in HideActiveTimer(StateLeave(h)) :
          hud' = [wait |-> hidden.wait,
                stale |-> IF StalemateTimed THEN "live" ELSE "none",
                shown |-> IF StalemateTimed THEN hidden.shown \cup {"stale"} ELSE hidden.shown,
                hidden |-> IF hidden.hidden = "stale" THEN None ELSE hidden.hidden]
    BY DEF EnterSTALEMATE
  <1>2. hidden \in HudRecord BY <1>1, LeaveType, HideType
  <1>3. hud' \in HudRecord BY <1>1, <1>2 DEF HudRecord, Timers
  <1>4. QED BY <1>3 DEF EnterSTALEMATE, TypeOK, States, Deadlines, stateVars

LEMMA DrawType ==
  ASSUME TypeOK, NEW force \in BOOLEAN, NEW switch \in BOOLEAN, SetStalemate(force, switch)
  PROVE  /\ forceMapReset' \in BOOLEAN /\ switchTeams' \in BOOLEAN
         /\ winner' \in Teams \cup {None} /\ score' \in [Teams -> Int]
         /\ roundsPlayed' \in Nat
         /\ roundState' \in States /\ stateEnds' \in Deadlines
         /\ pop' \subseteq Teams /\ alive' \subseteq pop'
         /\ hud' \in HudRecord /\ staleEnds' \in Deadlines
  <1>1. hud \in HudRecord BY DEF TypeOK, HudRecord
  <1>2. CASE IsInPreMatch \/ (StalemateEnable /\ roundState = "STALEMATE")
    BY <1>1, <1>2 DEF SetStalemate, TypeOK, resultVars, stateVars, hudVars, playerVars
  <1>3. CASE ~IsInPreMatch /\ ~StalemateEnable
    <2>1. SetWinningTeam(None, force, switch, FALSE) /\ UNCHANGED <<staleEnds, playerVars>>
      BY <1>3 DEF SetStalemate
    <2>2. QED BY <2>1, WinType DEF TypeOK, playerVars
  <1>4. CASE ~IsInPreMatch /\ StalemateEnable /\ roundState # "STALEMATE"
    <2>1. /\ forceMapReset' = force /\ winner' = None /\ EnterSTALEMATE(hud)
          /\ UNCHANGED <<switchTeams, score, roundsPlayed>>
      BY <1>4 DEF SetStalemate
    <2>2. QED BY <1>1, <2>1, StalemateType DEF TypeOK
  <1>5. QED BY <1>2, <1>3, <1>4

LEMMA TypeInit == Init => TypeOK
  <1> SUFFICES ASSUME Init PROVE TypeOK
    OBVIOUS
  <1>1. hud \in HudRecord BY DEF Init, HudRecord, Timers
  <1>2. score \in [Teams -> Int] BY DEF Init
  <1>3. awaitingReady \in BOOLEAN BY ModeAssumption DEF Init
  <1>4. QED BY <1>1, <1>2, <1>3 DEF Init, TypeOK, HudRecord, States, Deadlines

\* Each action keeps the types.
LEMMA TypePregame == TypeOK /\ Think_PREGAME => TypeOK'
  BY DEF TypeOK, Think_PREGAME, StateThink, stateVars, waitVars, readyVars, flagVars,
         resetVars, resultVars, mapTimeVars, hudVars, playerVars, States, Deadlines

LEMMA TypeStartgame == TypeOK /\ Think_STARTGAME => TypeOK'
  <1> SUFFICES ASSUME TypeOK, Think_STARTGAME PROVE TypeOK'
    OBVIOUS
  <1>1. hud \in HudRecord BY DEF TypeOK, HudRecord
  <1>2. CASE stateEnds = "due"
    <2>1. EnterPREROUND(forceMapReset, prevRoundWasWaiting, switchTeams,
                        scrambleTeams, score, timeLeft, hud)
      BY <1>2 DEF Think_STARTGAME
    <2>2. /\ hud' \in HudRecord /\ score' \in [Teams -> Int]
          /\ pop' \subseteq Teams /\ alive' \subseteq pop'
          /\ switchTeams' = FALSE /\ scrambleTeams' = FALSE
          /\ roundState' = "PREROUND" /\ stateEnds' = "pending"
      BY <1>1, <2>1, PreroundType DEF TypeOK
    <2>3. inWaiting' \in BOOLEAN /\ waitEnds' \in Deadlines
      BY <1>2, ModeAssumption DEF Think_STARTGAME, TypeOK, Deadlines
    <2>4. /\ phase' = "periodic" /\ gameOver' \in BOOLEAN /\ restartAt' \in Deadlines
          /\ awaitingReady' \in BOOLEAN /\ teamReady' \subseteq Teams /\ cvars' \subseteq CVars
          /\ forceMapReset' \in BOOLEAN /\ prevRoundWasWaiting' \in BOOLEAN
          /\ resetTeamScores' \in BOOLEAN /\ resetRoundsPlayed' \in BOOLEAN
      BY <1>2 DEF Think_STARTGAME, StateThink, readyVars, resetVars, TypeOK
    <2>5. /\ winner' \in Teams \cup {None} /\ roundsPlayed' \in Nat
          /\ changelevelAfterStalemate' \in BOOLEAN /\ staleEnds' \in Deadlines
          /\ timeLeft' \in {"far", "near", "due"}
      BY DEF Think_STARTGAME, mapTimeVars, TypeOK
    <2>6. QED BY <2>2, <2>3, <2>4, <2>5 DEF TypeOK, HudRecord, States, Deadlines
  <1>3. CASE stateEnds # "due"
    BY <1>3 DEF Think_STARTGAME, StateThink, TypeOK, stateVars, waitVars, flagVars, readyVars,
                resetVars, mapTimeVars, playerVars
  <1>4. QED BY <1>2, <1>3

LEMMA TypePreround == TypeOK /\ Think_PREROUND => TypeOK'
  <1> SUFFICES ASSUME TypeOK, Think_PREROUND PROVE TypeOK'
    OBVIOUS
  <1>1. /\ roundState' \in States /\ prevRoundWasWaiting' \in BOOLEAN
    BY DEF Think_PREROUND, TypeOK, States
  <1>2. QED BY <1>1 DEF TypeOK, Think_PREROUND, StateThink, waitVars, readyVars, flagVars, resultVars,
         mapTimeVars, hudVars, playerVars

LEMMA TypeNoPlayers == ASSUME TypeOK, NEW s, NoPlayers(s) PROVE TypeOK'
  <1>1. hud' \in HudRecord BY LeaveType DEF TypeOK, HudRecord, NoPlayers
  <1>2. QED BY <1>1 DEF TypeOK, HudRecord, NoPlayers, StateThink, waitVars, readyVars, flagVars,
               resetVars, resultVars, mapTimeVars, playerVars, States

LEMMA TypeRestartRound == ASSUME TypeOK, NEW s, RestartRound(s) PROVE TypeOK'
  <1>1. Restart(inWaiting, switchTeams, scrambleTeams, score, hud) BY DEF RestartRound
  <1>2. /\ hud' \in HudRecord /\ score' \in [Teams -> Int]
        /\ pop' \subseteq Teams /\ alive' \subseteq pop'
        /\ switchTeams' = FALSE /\ scrambleTeams' = FALSE
        /\ roundState' = "PREROUND" /\ stateEnds' = "pending"
        /\ prevRoundWasWaiting' = inWaiting /\ inWaiting' = FALSE
        /\ waitEnds' \in Deadlines /\ roundsPlayed' \in Nat /\ timeLeft' = "far"
    BY <1>1, RestartType DEF TypeOK, HudRecord
  <1>3. QED BY <1>2 DEF RestartRound, StateThink, TypeOK, HudRecord, States, Deadlines, CVars

LEMMA TypeCompetitive == ASSUME TypeOK, NEW s, StartCompetitiveMatch(s) PROVE TypeOK'
  <1> DEFINE ended == IF inWaiting THEN RemoveWaitTimer(hud) ELSE hud
             before == IF forceMapReset \/ prevRoundWasWaiting THEN FreshHud(timeLeft) ELSE ended
  <1>1. Restart(FALSE, switchTeams /\ ~PreventSwitch, scrambleTeams, score, before)
    BY DEF StartCompetitiveMatch
  <1>2. hud \in HudRecord BY DEF TypeOK, HudRecord
  <1>3. before \in HudRecord BY <1>2, FreshHudType, RemoveWaitType
  <1> HIDE DEF before
  <1>4. /\ hud' \in HudRecord /\ score' \in [Teams -> Int]
        /\ pop' \subseteq Teams /\ alive' \subseteq pop'
        /\ switchTeams' = FALSE /\ scrambleTeams' = FALSE
        /\ roundState' = "PREROUND" /\ stateEnds' = "pending"
        /\ prevRoundWasWaiting' = FALSE /\ inWaiting' = FALSE
        /\ waitEnds' \in Deadlines /\ roundsPlayed' \in Nat /\ timeLeft' = "far"
    BY <1>1, <1>3, RestartType DEF TypeOK
  <1>5. QED BY <1>4 DEF StartCompetitiveMatch, StateThink, TypeOK, HudRecord, States, Deadlines

LEMMA ReadyRestartType ==
  ASSUME TypeOK, ReadyRestart
  PROVE  /\ cvars' \subseteq CVars /\ awaitingReady' \in BOOLEAN
         /\ resetTeamScores' \in BOOLEAN /\ resetRoundsPlayed' \in BOOLEAN
  BY DEF ReadyRestart, TypeOK, CVars

LEMMA TypeRunRound == TypeOK /\ RunRound => TypeOK'
  <1> SUFFICES ASSUME TypeOK, RunRound PROVE TypeOK'
    OBVIOUS
  <1>1. /\ cvars' \subseteq CVars /\ awaitingReady' \in BOOLEAN
        /\ resetTeamScores' \in BOOLEAN /\ resetRoundsPlayed' \in BOOLEAN
    BY ReadyRestartType DEF RunRound
  <1>2. /\ phase' = "periodic" /\ gameOver' = gameOver /\ inWaiting' = inWaiting
        /\ waitEnds' = waitEnds /\ restartAt' = restartAt /\ teamReady' = teamReady
        /\ scrambleTeams' = scrambleTeams /\ prevRoundWasWaiting' = prevRoundWasWaiting
        /\ timeLeft' = timeLeft
    BY DEF RunRound, StateThink, waitVars
  <1>3. CASE UNCHANGED <<forceMapReset, switchTeams, resultVars, stateVars, hudVars,
                         playerVars, changelevelAfterStalemate>>
    BY <1>1, <1>2, <1>3 DEF TypeOK, resultVars, stateVars, hudVars, playerVars
  <1>4. CASE changelevelAfterStalemate' = TRUE /\ SetStalemate(forceMapReset, FALSE)
    <2>1. forceMapReset \in BOOLEAN BY DEF TypeOK
    <2>2. /\ forceMapReset' \in BOOLEAN /\ switchTeams' \in BOOLEAN
          /\ winner' \in Teams \cup {None} /\ score' \in [Teams -> Int]
          /\ roundsPlayed' \in Nat
          /\ roundState' \in States /\ stateEnds' \in Deadlines
          /\ pop' \subseteq Teams /\ alive' \subseteq pop'
          /\ hud' \in HudRecord /\ staleEnds' \in Deadlines
      BY <1>4, <2>1, DrawType
    <2>3. QED BY <1>1, <1>2, <1>4, <2>2 DEF TypeOK, HudRecord
  <1>5. CASE /\ \E t \in Teams : SetWinningTeam(t, TRUE, FALSE, TRUE)
             /\ UNCHANGED <<staleEnds, playerVars, changelevelAfterStalemate>>
    <2>1. /\ forceMapReset' \in BOOLEAN /\ switchTeams' \in BOOLEAN
          /\ winner' \in Teams \cup {None} /\ score' \in [Teams -> Int]
          /\ roundsPlayed' \in Nat
          /\ roundState' \in States /\ stateEnds' \in Deadlines
          /\ hud' \in HudRecord
      BY <1>5, WinType
    <2>2. QED BY <1>1, <1>2, <1>5, <2>1 DEF TypeOK, HudRecord, playerVars
  <1>6. QED BY <1>3, <1>4, <1>5 DEF RunRound

LEMMA TypeRunning == TypeOK /\ Think_RND_RUNNING => TypeOK'
  BY TypeNoPlayers, TypeRestartRound, TypeCompetitive, TypeRunRound DEF Think_RND_RUNNING

LEMMA TypeTeamWin == TypeOK /\ Think_TEAM_WIN => TypeOK'
  <1> SUFFICES ASSUME TypeOK, Think_TEAM_WIN PROVE TypeOK'
    OBVIOUS
  <1>1. /\ phase' = "periodic" /\ cvars' \subseteq CVars /\ winner' \in Teams \cup {None}
        /\ roundsPlayed' \in Nat /\ staleEnds' \in Deadlines
    BY DEF Think_TEAM_WIN, StateThink, TypeOK
  <1>2. CASE UNCHANGED <<stateVars, gameOver, waitVars, readyVars, flagVars, resetVars,
                         score, mapTimeVars, hud, playerVars>>
    BY <1>1, <1>2 DEF TypeOK, stateVars, waitVars, readyVars, flagVars, resetVars, mapTimeVars,
                      playerVars
  <1>3. CASE /\ EnterPREROUND(forceMapReset, prevRoundWasWaiting, switchTeams,
                              scrambleTeams, score, timeLeft, hud)
             /\ UNCHANGED <<gameOver, waitVars, readyVars, resetTeamScores,
                            resetRoundsPlayed, resetVars, mapTimeVars>>
    <2>1. hud \in HudRecord BY DEF TypeOK, HudRecord
    <2>2. /\ hud' \in HudRecord /\ score' \in [Teams -> Int]
          /\ pop' \subseteq Teams /\ alive' \subseteq pop'
          /\ switchTeams' = FALSE /\ scrambleTeams' = FALSE
          /\ roundState' = "PREROUND" /\ stateEnds' = "pending"
      BY <1>3, <2>1, PreroundType DEF TypeOK
    <2>3. /\ gameOver' \in BOOLEAN /\ inWaiting' \in BOOLEAN /\ waitEnds' \in Deadlines
          /\ restartAt' \in Deadlines /\ awaitingReady' \in BOOLEAN /\ teamReady' \subseteq Teams
          /\ resetTeamScores' \in BOOLEAN /\ resetRoundsPlayed' \in BOOLEAN
          /\ forceMapReset' \in BOOLEAN /\ prevRoundWasWaiting' \in BOOLEAN
          /\ changelevelAfterStalemate' \in BOOLEAN /\ timeLeft' \in {"far", "near", "due"}
      BY <1>3 DEF waitVars, readyVars, resetVars, mapTimeVars, TypeOK
    <2>4. QED BY <1>1, <2>2, <2>3 DEF TypeOK, HudRecord, States, Deadlines
  <1>4. CASE /\ GoToIntermission
             /\ UNCHANGED <<waitVars, readyVars, flagVars, resetVars, score,
                            mapTimeVars, hud, playerVars>>
    BY <1>1, <1>4 DEF GoToIntermission, TypeOK, States, waitVars, readyVars, flagVars, resetVars,
                      mapTimeVars, playerVars
  <1>5. CASE /\ RestartTournament
             /\ roundState' = "RND_RUNNING" /\ prevRoundWasWaiting' = FALSE
             /\ UNCHANGED <<gameOver, stateEnds, flagVars, forceMapReset, score,
                            hud, playerVars>>
    <2>1. /\ inWaiting' \in BOOLEAN /\ waitEnds' \in Deadlines /\ restartAt' \in Deadlines
          /\ awaitingReady' \in BOOLEAN /\ teamReady' \subseteq Teams
          /\ changelevelAfterStalemate' \in BOOLEAN /\ timeLeft' \in {"far", "near", "due"}
      BY <1>5 DEF RestartTournament, TypeOK, Deadlines
    <2>2. /\ gameOver' \in BOOLEAN /\ stateEnds' \in Deadlines /\ roundState' \in States
          /\ switchTeams' \in BOOLEAN /\ scrambleTeams' \in BOOLEAN
          /\ resetTeamScores' \in BOOLEAN /\ resetRoundsPlayed' \in BOOLEAN
          /\ forceMapReset' \in BOOLEAN /\ prevRoundWasWaiting' \in BOOLEAN
      BY <1>5 DEF TypeOK, States, flagVars
    <2>3. QED BY <1>1, <1>5, <2>1, <2>2 DEF TypeOK, playerVars
  <1>6. QED BY <1>2, <1>3, <1>4, <1>5 DEF Think_TEAM_WIN

\* The flags an automatic scramble sets.
LEMMA ScrambleType ==
  ASSUME TypeOK, NEW t, NEW force, AutoScramble(t, force)
  PROVE  /\ scrambleTeams' \in BOOLEAN
         /\ resetTeamScores' \in BOOLEAN /\ resetRoundsPlayed' \in BOOLEAN
  BY DEF AutoScramble, TypeOK

LEMMA TypeStalemate == TypeOK /\ Think_STALEMATE => TypeOK'
  <1> SUFFICES ASSUME TypeOK, Think_STALEMATE PROVE TypeOK'
    OBVIOUS
  <1>1. CASE NoPlayers("STALEMATE") BY <1>1, TypeNoPlayers
  <1>2. CASE StartCompetitiveMatch("STALEMATE") BY <1>2, TypeCompetitive
  <1>3. CASE /\ StateThink("STALEMATE") /\ ReadyRestart
             /\ alive' \in {p \in SUBSET pop : alive \subseteq p}
             /\ UNCHANGED <<gameOver, stateVars, waitVars, restartAt, teamReady, switchTeams,
                            scrambleTeams, resetVars, resultVars, mapTimeVars, hudVars, pop>>
    BY <1>3, ReadyRestartType DEF TypeOK, StateThink, stateVars, waitVars, resetVars, resultVars,
                                  mapTimeVars, hudVars
  <1>4. CASE /\ StateThink("STALEMATE")
             /\ \/ StalemateDecided
                \/ UNCHANGED <<forceMapReset, flagVars, resultVars, stateVars, hud>>
             /\ UNCHANGED <<gameOver, waitVars, readyVars, cvars, prevRoundWasWaiting,
                            mapTimeVars, staleEnds, playerVars>>
    <2>1. /\ phase' = "periodic" /\ gameOver' \in BOOLEAN /\ inWaiting' \in BOOLEAN
          /\ waitEnds' \in Deadlines /\ restartAt' \in Deadlines /\ awaitingReady' \in BOOLEAN
          /\ teamReady' \subseteq Teams /\ cvars' \subseteq CVars
          /\ prevRoundWasWaiting' \in BOOLEAN /\ changelevelAfterStalemate' \in BOOLEAN
          /\ timeLeft' \in {"far", "near", "due"} /\ staleEnds' \in Deadlines
          /\ pop' \subseteq Teams /\ alive' \subseteq pop'
      BY <1>4 DEF StateThink, waitVars, readyVars, mapTimeVars, playerVars, TypeOK
    <2>2. /\ forceMapReset' \in BOOLEAN /\ switchTeams' \in BOOLEAN
          /\ winner' \in Teams \cup {None} /\ score' \in [Teams -> Int]
          /\ roundsPlayed' \in Nat
          /\ roundState' \in States /\ stateEnds' \in Deadlines
          /\ hud' \in HudRecord
          /\ scrambleTeams' \in BOOLEAN
          /\ resetTeamScores' \in BOOLEAN /\ resetRoundsPlayed' \in BOOLEAN
      <3>1. CASE StalemateDecided
        <4>1. CASE \E t \in alive, force \in BOOLEAN, switch \in BOOLEAN :
                      SetWinningTeam(t, force, switch, FALSE) /\ AutoScramble(t, force)
          BY <4>1, WinType, ScrambleType DEF TypeOK
        <4>2. CASE /\ \E fullReset \in BOOLEAN : SetWinningTeam(None, fullReset, FALSE, FALSE)
                   /\ UNCHANGED <<scrambleTeams, resetTeamScores, resetRoundsPlayed>>
          BY <4>2, WinType DEF TypeOK
        <4>3. QED BY <3>1, <4>1, <4>2 DEF StalemateDecided
      <3>2. CASE UNCHANGED <<forceMapReset, flagVars, resultVars, stateVars, hud>>
        BY <3>2 DEF TypeOK, HudRecord, flagVars, resultVars, stateVars
      <3>3. QED BY <1>4, <3>1, <3>2
    <2>3. QED BY <2>1, <2>2 DEF TypeOK, HudRecord
  <1>5. QED BY <1>1, <1>2, <1>3, <1>4 DEF Think_STALEMATE

LEMMA LimitTeamsType == LimitTeams \subseteq Teams
  BY DEF LimitTeams

LEMMA TypePeriodic == TypeOK /\ Periodic => TypeOK'
  <1> SUFFICES ASSUME TypeOK, Periodic PROVE TypeOK'
    OBVIOUS
  <1>1. CASE Periodic_NotDue
    BY <1>1 DEF Periodic_NotDue, PeriodicStart, TypeOK, stateVars, waitVars, readyVars, flagVars,
                resetVars, resultVars, mapTimeVars, hudVars, playerVars
  <1>2. CASE Periodic_LimitReached
    <2>1. /\ phase' = "events" /\ inWaiting' \in BOOLEAN /\ waitEnds' \in Deadlines
          /\ restartAt' \in Deadlines /\ awaitingReady' \in BOOLEAN
          /\ teamReady' \subseteq Teams /\ cvars' \subseteq CVars /\ scrambleTeams' \in BOOLEAN
          /\ resetTeamScores' \in BOOLEAN /\ resetRoundsPlayed' \in BOOLEAN
          /\ prevRoundWasWaiting' \in BOOLEAN /\ changelevelAfterStalemate' \in BOOLEAN
          /\ timeLeft' \in {"far", "near", "due"} /\ staleEnds' \in Deadlines
          /\ pop' \subseteq Teams /\ alive' \subseteq pop'
      BY <1>2 DEF Periodic_LimitReached, PeriodicStart, waitVars, readyVars, mapTimeVars,
                  playerVars, TypeOK
    <2>2. CASE /\ GoToIntermission
               /\ UNCHANGED <<forceMapReset, switchTeams, resultVars, hud>>
      BY <2>1, <2>2 DEF GoToIntermission, TypeOK, States, resultVars
    <2>3. CASE /\ UNCHANGED gameOver
               /\ \E t \in Teams : SetWinningTeam(t, TRUE, FALSE, TRUE)
      <3>1. /\ forceMapReset' \in BOOLEAN /\ switchTeams' \in BOOLEAN
            /\ winner' \in Teams \cup {None} /\ score' \in [Teams -> Int]
            /\ roundsPlayed' \in Nat
            /\ roundState' \in States /\ stateEnds' \in Deadlines
            /\ hud' \in HudRecord
        BY <2>3, WinType
      <3>2. QED BY <2>1, <2>3, <3>1 DEF TypeOK, HudRecord
    <2>4. CASE UNCHANGED <<gameOver, forceMapReset, switchTeams, resultVars, stateVars, hud>>
      BY <2>1, <2>4 DEF TypeOK, resultVars, stateVars
    <2>5. QED BY <1>2, <2>2, <2>3, <2>4, LimitTeamsType DEF Periodic_LimitReached
  <1>3. CASE Periodic_Checks
    <2> DEFINE checked == CheckRestartRound
               started == inWaiting \/ "waitrestart" \in cvars
               waiting == started /\ ~WaitCancelled
               timers  == IF started /\ ~waiting THEN RemoveWaitTimer(hud) ELSE hud
    <2>1. /\ checked.awaiting \in BOOLEAN /\ checked.ready \subseteq Teams
          /\ checked.reset \in BOOLEAN /\ checked.at \in Deadlines
      BY DEF CheckRestartRound, ReadyRequested, TypeOK, Deadlines
    <2>2. /\ awaitingReady' \in BOOLEAN /\ teamReady' \subseteq Teams
          /\ forceMapReset' \in BOOLEAN /\ restartAt' \in Deadlines
      BY <1>3, <2>1 DEF Periodic_Checks, Deadlines
    <2>3. inWaiting' \in BOOLEAN /\ waitEnds' \in Deadlines
      BY <1>3 DEF Periodic_Checks, TypeOK, Deadlines, WaitCancelled
    <2>4. timers \in HudRecord
      BY RemoveWaitType DEF TypeOK, HudRecord
    <2>5. hud' \in HudRecord
      <3>1. CASE hud' = timers BY <2>4, <3>1
      <3>2. CASE \E h \in HideActiveTimer(timers) :
                    hud' = [wait |-> "live", stale |-> h.stale, shown |-> h.shown \cup {"wait"},
                            hidden |-> h.hidden]
        <4>1. PICK h \in HideActiveTimer(timers) :
                    hud' = [wait |-> "live", stale |-> h.stale, shown |-> h.shown \cup {"wait"},
                            hidden |-> h.hidden]
          BY <3>2
        <4>2. h \in HudRecord BY <2>4, HideType
        <4>3. QED BY <4>1, <4>2 DEF HudRecord, Timers
      <3>3. QED BY <1>3, <3>1, <3>2 DEF Periodic_Checks
    <2>6. /\ phase' = "events" /\ cvars' \subseteq CVars
      BY <1>3 DEF Periodic_Checks, PeriodicStart, TypeOK
    <2>7. /\ UNCHANGED <<gameOver, stateVars, flagVars, prevRoundWasWaiting, resultVars,
                         mapTimeVars, staleEnds, playerVars>>
      BY <1>3 DEF Periodic_Checks
    <2>8. QED BY <2>2, <2>3, <2>5, <2>6, <2>7 DEF TypeOK, HudRecord, stateVars, flagVars,
                 resultVars, mapTimeVars, playerVars
  <1>4. QED BY <1>1, <1>2, <1>3 DEF Periodic

LEMMA TypeCommand == TypeOK /\ Command => TypeOK'
  <1> SUFFICES ASSUME TypeOK, Command PROVE TypeOK'
    OBVIOUS
  <1>1. ASSUME NEW c \in CVars, SetCVar(c) PROVE TypeOK'
    BY <1>1 DEF SetCVar, TypeOK, frameVars, stateVars, waitVars, readyVars, flagVars, resetVars,
                resultVars, mapTimeVars, hudVars, playerVars
  <1>2. CASE SwitchTeamsCommand
    <2>1. /\ cvars' \subseteq CVars /\ switchTeams' \in BOOLEAN /\ scrambleTeams' \in BOOLEAN
          /\ resetTeamScores' \in BOOLEAN /\ resetRoundsPlayed' \in BOOLEAN
      BY <1>2 DEF SwitchTeamsCommand, TypeOK, CVars
    <2>2. UNCHANGED <<frameVars, stateVars, waitVars, readyVars, resetVars, resultVars,
                      mapTimeVars, hudVars, playerVars>>
      BY <1>2 DEF SwitchTeamsCommand
    <2>3. QED BY <2>1, <2>2 DEF TypeOK, frameVars, stateVars, waitVars, readyVars, resetVars,
                 resultVars, mapTimeVars, hudVars, playerVars
  <1>3. ASSUME NEW c, ScrambleTeamsCommand(c) PROVE TypeOK'
    BY <1>3 DEF ScrambleTeamsCommand, TypeOK, CVars, frameVars, stateVars, waitVars, readyVars,
                resetVars, resultVars, mapTimeVars, hudVars, playerVars
  <1>4. CASE TournamentRestartCommand
    <2>1. /\ inWaiting' \in BOOLEAN /\ waitEnds' \in Deadlines /\ restartAt' \in Deadlines
          /\ awaitingReady' \in BOOLEAN /\ teamReady' \subseteq Teams
          /\ changelevelAfterStalemate' \in BOOLEAN /\ timeLeft' \in {"far", "near", "due"}
      BY <1>4 DEF TournamentRestartCommand, RestartTournament, TypeOK, Deadlines
    <2>2. UNCHANGED <<frameVars, stateVars, cvars, flagVars, resetVars, resultVars,
                      hudVars, playerVars>>
      BY <1>4 DEF TournamentRestartCommand
    <2>3. QED BY <2>1, <2>2 DEF TypeOK, frameVars, stateVars, flagVars, resetVars, resultVars,
                 hudVars, playerVars
  <1>5. ASSUME NEW t \in Teams, TeamReadies(t) PROVE TypeOK'
    BY <1>5 DEF TeamReadies, TypeOK, frameVars, stateVars, waitVars, flagVars, resetVars,
                resultVars, mapTimeVars, hudVars, playerVars
  <1>6. ASSUME NEW t \in Teams, TeamUnreadies(t) PROVE TypeOK'
    <2>1. restartAt' \in Deadlines /\ awaitingReady' \in BOOLEAN /\ teamReady' \subseteq Teams
      BY <1>6 DEF TeamUnreadies, TypeOK, Deadlines
    <2>2. UNCHANGED <<frameVars, stateVars, waitVars, cvars, flagVars, resetVars, resultVars,
                      mapTimeVars, hudVars, playerVars>>
      BY <1>6 DEF TeamUnreadies
    <2>3. QED BY <2>1, <2>2 DEF TypeOK, frameVars, stateVars, waitVars, flagVars, resetVars,
                 resultVars, mapTimeVars, hudVars, playerVars
  <1>7. QED BY <1>1, <1>2, <1>3, <1>4, <1>5, <1>6 DEF Command

LEMMA TypeRoundWin ==
  ASSUME TypeOK, NEW t \in Teams \cup {None}, NEW force \in BOOLEAN, NEW switch \in BOOLEAN,
         RoundWin(t, force, switch)
  PROVE  TypeOK'
  <1>1. /\ phase' \in {"entities", "periodic", "events"} /\ gameOver' \in BOOLEAN
        /\ inWaiting' \in BOOLEAN /\ waitEnds' \in Deadlines
        /\ restartAt' \in Deadlines /\ awaitingReady' \in BOOLEAN
        /\ teamReady' \subseteq Teams /\ cvars' \subseteq CVars
        /\ prevRoundWasWaiting' \in BOOLEAN /\ changelevelAfterStalemate' \in BOOLEAN
        /\ timeLeft' \in {"far", "near", "due"}
    BY DEF RoundWin, frameVars, waitVars, readyVars, mapTimeVars, TypeOK
  <1>2. CASE /\ SetWinningTeam(t, force, switch /\ force, FALSE)
             /\ \/ UNCHANGED <<scrambleTeams, resetTeamScores, resetRoundsPlayed>>
                \/ AutoScramble(t, force)
             /\ UNCHANGED <<staleEnds, playerVars>>
    <2>1. /\ scrambleTeams' \in BOOLEAN
          /\ resetTeamScores' \in BOOLEAN /\ resetRoundsPlayed' \in BOOLEAN
      BY <1>2, ScrambleType DEF TypeOK
    <2>2. /\ forceMapReset' \in BOOLEAN /\ switchTeams' \in BOOLEAN
          /\ winner' \in Teams \cup {None} /\ score' \in [Teams -> Int]
          /\ roundsPlayed' \in Nat
          /\ roundState' \in States /\ stateEnds' \in Deadlines
          /\ hud' \in HudRecord
      BY <1>2, WinType
    <2>3. QED BY <1>1, <1>2, <2>1, <2>2 DEF TypeOK, HudRecord, playerVars
  <1>3. CASE /\ SetStalemate(force, switch)
             /\ UNCHANGED <<scrambleTeams, resetTeamScores, resetRoundsPlayed>>
    <2>1. /\ forceMapReset' \in BOOLEAN /\ switchTeams' \in BOOLEAN
          /\ winner' \in Teams \cup {None} /\ score' \in [Teams -> Int]
          /\ roundsPlayed' \in Nat
          /\ roundState' \in States /\ stateEnds' \in Deadlines
          /\ pop' \subseteq Teams /\ alive' \subseteq pop'
          /\ hud' \in HudRecord /\ staleEnds' \in Deadlines
      BY <1>3, DrawType
    <2>2. QED BY <1>1, <1>3, <2>1 DEF TypeOK, HudRecord
  <1>4. QED BY <1>2, <1>3 DEF RoundWin

\* What scores without a win: one team's score, and nothing else, on a map where not
\* only rounds score.
LEMMA ScoringChanges ==
  ASSUME Scoring
  PROVE  /\ \E t \in Teams, n \in Int : score' = [score EXCEPT ![t] = @ + n]
         /\ UNCHANGED <<frameVars, stateVars, waitVars, readyVars, cvars, flagVars, resetVars,
                        winner, roundsPlayed, mapTimeVars, hudVars, playerVars>>
         /\ ~OnlyRoundsScore
  <1>1. CASE \E t \in Teams : HandleScoring(t)
    <2>1. PICK t \in Teams : HandleScoring(t) BY <1>1
    <2>2. AddScore(t, 1) /\ ~ShouldScorePerRound BY <2>1 DEF HandleScoring
    <2>3. score' = [score EXCEPT ![t] = @ + 1] BY <2>2 DEF AddScore
    <2>4. \E n \in Int : score' = [score EXCEPT ![t] = @ + n]
      <3> WITNESS 1 \in Int
      <3> QED BY <2>3
    <2>5. QED BY <2>1, <2>2, <2>4 DEF AddScore, ShouldScorePerRound, OnlyRoundsScore
  <1>2. CASE \E t \in Teams, n \in ScoreInputs : AddTeamScore(t, n)
    <2>1. PICK t \in Teams, n \in ScoreInputs : AddTeamScore(t, n) BY <1>2
    <2>2. AddScore(t, n) /\ n \in Int BY <2>1, ModeAssumption DEF AddTeamScore
    <2>3. QED BY <2>1, <2>2 DEF AddScore, OnlyRoundsScore
  <1>3. QED BY <1>1, <1>2 DEF Scoring

LEMMA TypeScoring == TypeOK /\ Scoring => TypeOK'
  <1> SUFFICES ASSUME TypeOK, Scoring PROVE TypeOK'
    OBVIOUS
  <1>1. score' \in [Teams -> Int] BY ScoringChanges DEF TypeOK
  <1>2. QED BY <1>1, ScoringChanges DEF TypeOK, frameVars, stateVars, waitVars, readyVars, flagVars,
               resetVars, mapTimeVars, hudVars, playerVars

LEMMA TypePlayers == TypeOK /\ Players => TypeOK'
  <1> SUFFICES ASSUME TypeOK, NEW t \in Teams,
                      Die(t) \/ TeamFills(t) \/ TeamEmpties(t) \/ JoinTeam(t)
               PROVE  TypeOK'
    BY DEF Players
  <1>1. teamReady' \subseteq Teams /\ pop' \subseteq Teams /\ alive' \subseteq pop'
    BY DEF Die, TeamFills, TeamEmpties, JoinTeam, TypeOK, Teams, Other, readyVars
  <1>2. UNCHANGED <<frameVars, stateVars, waitVars, restartAt, awaitingReady, cvars, flagVars,
                    resetVars, resultVars, mapTimeVars, hudVars>>
    BY DEF Die, TeamFills, TeamEmpties, JoinTeam, readyVars
  <1>3. QED BY <1>1, <1>2 DEF TypeOK, frameVars, stateVars, waitVars, flagVars, resetVars,
               resultVars, mapTimeVars, hudVars

LEMMA TypeTime == TypeOK /\ TimePasses => TypeOK'
  <1> SUFFICES ASSUME TypeOK, TimePasses PROVE TypeOK'
    OBVIOUS
  <1>1. /\ stateEnds' \in Deadlines /\ waitEnds' \in Deadlines /\ restartAt' \in Deadlines
        /\ staleEnds' \in Deadlines /\ timeLeft' \in {"far", "near", "due"}
    BY DEF TimePasses, StateTimeUp, WaitTimeUp, RestartTimeUp, StalemateTimeUp, MapTimePasses,
           TypeOK, Deadlines, stateVars, waitVars, readyVars, mapTimeVars, hudVars
  <1>2. UNCHANGED <<frameVars, roundState, inWaiting, awaitingReady, teamReady, cvars, flagVars,
                    resetVars, resultVars, changelevelAfterStalemate, hud, playerVars>>
    BY DEF TimePasses, StateTimeUp, WaitTimeUp, RestartTimeUp, StalemateTimeUp, MapTimePasses,
           stateVars, waitVars, readyVars, mapTimeVars, hudVars
  <1>3. QED BY <1>1, <1>2 DEF TypeOK, frameVars, flagVars, resetVars, resultVars, playerVars

LEMMA TypeEndFrame == TypeOK /\ EndFrame => TypeOK'
  <1> SUFFICES ASSUME TypeOK, EndFrame PROVE TypeOK'
    OBVIOUS
  <1>1. hud' \in HudRecord BY CleanupType DEF EndFrame, TypeOK, HudRecord
  <1>2. QED BY <1>1 DEF EndFrame, TypeOK, HudRecord, stateVars, waitVars, readyVars, flagVars,
               resetVars, resultVars, mapTimeVars, playerVars

LEMMA TypeGameOver == TypeOK /\ Think_GAME_OVER => TypeOK'
  BY DEF Think_GAME_OVER, TypeOK, stateVars, waitVars, readyVars, flagVars, resetVars,
         resultVars, mapTimeVars, hudVars, playerVars

LEMMA TypeStutter == TypeOK /\ UNCHANGED vars => TypeOK'
  BY DEF TypeOK, vars, frameVars, stateVars, waitVars, readyVars, flagVars, resetVars,
         resultVars, mapTimeVars, hudVars, playerVars

LEMMA TypeNext == TypeOK /\ [Next]_vars => TypeOK'
  BY TypePregame, TypeStartgame, TypePreround, TypeRunning, TypeTeamWin, TypeStalemate,
     TypeGameOver, TypePeriodic, TypeEndFrame, TypeCommand, TypeRoundWin, TypeScoring,
     TypePlayers, TypeTime, TypeStutter
  DEF Next, Think, Map

\* Every variable of the rules keeps the range its C++ type and its use give it:
\* nobody who has left is alive, a timer's handle is empty, live or dying.
THEOREM TypeCorrect == Spec => []TypeOK
  BY TypeInit, TypeNext, PTL DEF Spec

=============================================================================
