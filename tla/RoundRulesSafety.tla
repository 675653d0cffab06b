-------------------------- MODULE RoundRulesSafety --------------------------
(***************************************************************************)
(* The safety properties of RoundRules, proved from inductive invariants   *)
(* for every value of its constants.                                       *)
(***************************************************************************)
EXTENDS RoundRulesProofs, FiniteSetTheorems

-----------------------------------------------------------------------------
(***************************************************************************)
(* A countdown and a ready restart never run together.                     *)
(***************************************************************************)

\* CountdownOrReady is inductive as it stands.
LEMMA CountdownStep ==
  ASSUME TypeOK, CountdownOrReady, [Next]_vars
  PROVE  CountdownOrReady'
  <1> SUFFICES ASSUME ~Tournament, restartAt' # "unset" PROVE ~awaitingReady'
    BY DEF CountdownOrReady
  <1> USE DEF CountdownOrReady
  <1>1. CASE Think_PREGAME \/ Think_PREROUND \/ Think_STARTGAME \/ Think_GAME_OVER
    BY <1>1 DEF Think_PREGAME, Think_PREROUND, Think_STARTGAME, Think_GAME_OVER, readyVars
  <1>2. CASE Think_RND_RUNNING
    BY <1>2 DEF Think_RND_RUNNING, NoPlayers, RestartRound, StartCompetitiveMatch, RunRound,
                ReadyRestart, readyVars
  <1>3. CASE Think_TEAM_WIN
    BY <1>3 DEF Think_TEAM_WIN, readyVars
  <1>4. CASE Think_STALEMATE
    BY <1>4 DEF Think_STALEMATE, NoPlayers, StartCompetitiveMatch, IsInPreMatch, readyVars
  <1>5. CASE Periodic
    <2>1. CASE Periodic_NotDue \/ Periodic_LimitReached
      BY <2>1 DEF Periodic_NotDue, Periodic_LimitReached, readyVars
    <2>2. CASE Periodic_Checks
      BY <2>2 DEF Periodic_Checks, CheckRestartRound, ReadyRequested, RestartRequests
    <2>3. QED BY <1>5, <2>1, <2>2 DEF Periodic
  <1>6. CASE Command
    BY <1>6 DEF Command, SetCVar, SwitchTeamsCommand, ScrambleTeamsCommand,
                TournamentRestartCommand, TeamReadies, TeamUnreadies, IsInPreMatch, readyVars
  <1>7. CASE Map \/ Players \/ EndFrame
    BY <1>7, ScoringChanges
    DEF Map, RoundWin, Players, Die, TeamFills, TeamEmpties, JoinTeam, EndFrame, readyVars
  <1>8. CASE TimePasses
    BY <1>8 DEF TimePasses, StateTimeUp, WaitTimeUp, RestartTimeUp, StalemateTimeUp, MapTimePasses,
                readyVars
  <1>9. CASE UNCHANGED vars
    BY <1>9 DEF vars, readyVars
  <1>10. QED BY <1>1, <1>2, <1>3, <1>4, <1>5, <1>6, <1>7, <1>8, <1>9 DEF Next, Think

\* Outside tournament mode CheckRestartRound and the chat that makes teams ready
\* always cancel each other's restart, whatever else the server is asked to do.
THEOREM CountdownOrReadyAlways == Spec => []CountdownOrReady
  <1>1. Init => CountdownOrReady BY DEF Init, CountdownOrReady
  <1>2. TypeOK /\ CountdownOrReady /\ [Next]_vars => CountdownOrReady' BY CountdownStep
  <1>3. QED BY <1>1, <1>2, TypeCorrect, PTL DEF Spec

-----------------------------------------------------------------------------
(***************************************************************************)
(* No team has won more rounds than were played.                           *)
(***************************************************************************)

\* The strengthening: the count of rounds is never reset without the scores.
ScoresFollow == resetRoundsPlayed => resetTeamScores
WinsInv == WinsWithinRounds /\ ScoresFollow

AtMost(sc, n) == \A t \in Teams : sc[t] <= n

LEMMA SwapAtMost ==
  ASSUME NEW sc \in [Teams -> Int], NEW n \in Nat, AtMost(sc, n)
  PROVE  AtMost(Swap(sc), n)
  BY DEF AtMost, Swap, Other, Teams

LEMMA PreroundAtMost ==
  ASSUME NEW force, NEW prev, NEW switch, NEW scramble, NEW left, NEW h,
         NEW sc \in [Teams -> Int], NEW n \in Nat, AtMost(sc, n),
         EnterPREROUND(force, prev, switch, scramble, sc, left, h)
  PROVE  AtMost(score', n)
  BY SwapAtMost DEF EnterPREROUND, RoundRespawn

LEMMA RestartAtMost ==
  ASSUME TypeOK, ScoresFollow, AtMost(score, roundsPlayed),
         NEW waiting, NEW switch, NEW scramble, NEW h,
         Restart(waiting, switch, scramble, score, h)
  PROVE  AtMost(score', roundsPlayed')
  <1> DEFINE leaving == StateLeave(h)
             stopped == IF waiting THEN RemoveWaitTimer(leaving) ELSE leaving
             sc0 == IF resetTeamScores THEN [t \in Teams |-> 0] ELSE score
  <1>1. EnterPREROUND(forceMapReset, waiting, switch, scramble, sc0, "far", stopped)
    BY DEF Restart
  <1>2. sc0 \in [Teams -> Int] BY DEF TypeOK
  <1>3. roundsPlayed' = RoundsAfterReset BY DEF Restart
  <1>4. RoundsAfterReset \in Nat /\ AtMost(sc0, RoundsAfterReset)
    BY DEF RoundsAfterReset, ScoresFollow, AtMost, TypeOK
  <1> HIDE DEF stopped, sc0
  <1>5. QED BY <1>1, <1>2, <1>3, <1>4, PreroundAtMost

\* A win that gives a point counts as a round.
LEMMA WinAtMost ==
  ASSUME TypeOK, ~TimeLimit, AtMost(score, roundsPlayed),
         NEW t, NEW force, NEW switch, NEW dont, SetWinningTeam(t, force, switch, dont)
  PROVE  AtMost(score', roundsPlayed')
  <1>1. CASE UNCHANGED <<score, roundsPlayed>> BY <1>1 DEF AtMost
  <1>2. CASE ~force /\ ~UNCHANGED <<score, roundsPlayed>>
    BY <1>2 DEF SetWinningTeam, resultVars
  <1>3. CASE force /\ ~UNCHANGED <<score, roundsPlayed>>
    <2>1. roundsPlayed' = roundsPlayed + 1 /\ (score' = score \/ score' = [score EXCEPT ![t] = @ + 1])
      BY <1>3 DEF SetWinningTeam, resultVars
    <2>2. QED BY <2>1 DEF AtMost, TypeOK
  <1>4. QED BY <1>1, <1>2, <1>3

LEMMA DrawAtMost ==
  ASSUME TypeOK, ~TimeLimit, AtMost(score, roundsPlayed),
         NEW force, NEW switch, SetStalemate(force, switch)
  PROVE  AtMost(score', roundsPlayed')
  <1>1. UNCHANGED <<score, roundsPlayed>> \/ SetWinningTeam(None, force, switch, FALSE)
    BY DEF SetStalemate, resultVars
  <1>2. CASE UNCHANGED <<score, roundsPlayed>> BY <1>2 DEF AtMost
  <1>3. CASE SetWinningTeam(None, force, switch, FALSE) BY <1>3, WinAtMost
  <1>4. QED BY <1>1, <1>2, <1>3

\* The flags.
LEMMA ScoresFollowStep == ASSUME ScoresFollow, [Next]_vars PROVE ScoresFollow'
  <1> USE DEF ScoresFollow
  <1>1. CASE Think_PREGAME \/ Think_STARTGAME \/ Think_PREROUND \/ Think_GAME_OVER
    BY <1>1 DEF Think_PREGAME, Think_STARTGAME, Think_PREROUND, Think_GAME_OVER, flagVars
  <1>2. CASE Think_RND_RUNNING
    BY <1>2 DEF Think_RND_RUNNING, NoPlayers, RestartRound, StartCompetitiveMatch, RunRound,
                ReadyRestart, flagVars
  <1>3. CASE Think_TEAM_WIN
    <2>1. UNCHANGED <<resetTeamScores, resetRoundsPlayed>> BY <1>3 DEF Think_TEAM_WIN, flagVars
    <2>2. QED BY <2>1
  <1>4. CASE Think_STALEMATE
    BY <1>4 DEF Think_STALEMATE, NoPlayers, StartCompetitiveMatch, StalemateDecided, AutoScramble,
                ReadyRestart, flagVars
  <1>5. CASE Periodic
    <2>1. UNCHANGED <<resetTeamScores, resetRoundsPlayed>>
      BY <1>5 DEF Periodic, Periodic_NotDue, Periodic_LimitReached, Periodic_Checks, flagVars
    <2>2. QED BY <2>1
  <1>6. CASE Command
    BY <1>6 DEF Command, SetCVar, SwitchTeamsCommand, ScrambleTeamsCommand,
                TournamentRestartCommand, TeamReadies, TeamUnreadies, flagVars
  <1>7. CASE Map
    <2>1. \/ UNCHANGED <<resetTeamScores, resetRoundsPlayed>>
          \/ resetTeamScores' = TRUE
      BY <1>7, ScoringChanges DEF Map, RoundWin, AutoScramble, flagVars
    <2>2. QED BY <2>1
  <1>8. CASE Players \/ EndFrame
    BY <1>8 DEF Players, Die, TeamFills, TeamEmpties, JoinTeam, EndFrame, flagVars
  <1>9. CASE TimePasses
    BY <1>9 DEF TimePasses, StateTimeUp, WaitTimeUp, RestartTimeUp, StalemateTimeUp, MapTimePasses,
                flagVars
  <1>10. CASE UNCHANGED vars BY <1>10 DEF vars, flagVars
  <1>11. QED BY <1>1, <1>2, <1>3, <1>4, <1>5, <1>6, <1>7, <1>8, <1>9, <1>10 DEF Next, Think

LEMMA WinsStep == ASSUME TypeOK, WinsInv, [Next]_vars PROVE WinsInv'
  <1>1. ScoresFollow' BY ScoresFollowStep DEF WinsInv
  <1> SUFFICES ASSUME OnlyRoundsScore, ~TimeLimit PROVE AtMost(score', roundsPlayed')
    BY <1>1 DEF WinsInv, WinsWithinRounds, AtMost
  <1>2. AtMost(score, roundsPlayed) /\ ScoresFollow
    BY DEF WinsInv, WinsWithinRounds, AtMost
  <1>3. score \in [Teams -> Int] /\ roundsPlayed \in Nat BY DEF TypeOK
  <1>4. CASE UNCHANGED <<score, roundsPlayed>> BY <1>2, <1>4 DEF AtMost
  <1>5. CASE Think_PREGAME \/ Think_PREROUND \/ Think_GAME_OVER
    BY <1>4, <1>5 DEF Think_PREGAME, Think_PREROUND, Think_GAME_OVER, resultVars
  <1>6. CASE Think_STARTGAME
    <2>1. roundsPlayed' = roundsPlayed
      BY <1>6 DEF Think_STARTGAME
    <2>2. \/ score' = score
          \/ EnterPREROUND(forceMapReset, prevRoundWasWaiting, switchTeams,
                           scrambleTeams, score, timeLeft, hud)
      BY <1>6 DEF Think_STARTGAME
    <2>3. QED BY <1>2, <1>3, <1>4, <2>1, <2>2, PreroundAtMost
  <1>7. ASSUME NEW s, RestartRound(s) PROVE AtMost(score', roundsPlayed')
    BY <1>2, <1>7, RestartAtMost DEF RestartRound
  <1>8. ASSUME NEW s, StartCompetitiveMatch(s) PROVE AtMost(score', roundsPlayed')
    <2> DEFINE ended == IF inWaiting THEN RemoveWaitTimer(hud) ELSE hud
               before == IF forceMapReset \/ prevRoundWasWaiting THEN FreshHud(timeLeft) ELSE ended
    <2>1. Restart(FALSE, switchTeams /\ ~PreventSwitch, scrambleTeams, score, before)
      BY <1>8 DEF StartCompetitiveMatch
    <2> HIDE DEF before
    <2>2. QED BY <1>2, <2>1, RestartAtMost
  <1>9. CASE Think_RND_RUNNING
    <2>1. CASE NoPlayers("RND_RUNNING") BY <1>4, <2>1 DEF NoPlayers, resultVars
    <2>2. CASE RunRound
      <3>1. \/ UNCHANGED <<score, roundsPlayed>>
            \/ SetStalemate(forceMapReset, FALSE)
            \/ \E t \in Teams : SetWinningTeam(t, TRUE, FALSE, TRUE)
        BY <2>2 DEF RunRound, resultVars
      <3>2. QED BY <1>2, <1>4, <3>1, WinAtMost, DrawAtMost
    <2>3. QED BY <1>7, <1>8, <1>9, <2>1, <2>2 DEF Think_RND_RUNNING
  <1>10. CASE Think_TEAM_WIN
    <2>1. roundsPlayed' = roundsPlayed BY <1>10 DEF Think_TEAM_WIN
    <2>2. \/ score' = score
          \/ EnterPREROUND(forceMapReset, prevRoundWasWaiting, switchTeams,
                           scrambleTeams, score, timeLeft, hud)
      BY <1>10 DEF Think_TEAM_WIN
    <2>3. QED BY <1>2, <1>3, <1>4, <2>1, <2>2, PreroundAtMost
  <1>11. CASE Think_STALEMATE
    <2>1. \/ UNCHANGED <<score, roundsPlayed>>
          \/ StartCompetitiveMatch("STALEMATE")
          \/ \E t \in alive, force, switch \in BOOLEAN : SetWinningTeam(t, force, switch, FALSE)
          \/ \E fullReset \in BOOLEAN : SetWinningTeam(None, fullReset, FALSE, FALSE)
      BY <1>11 DEF Think_STALEMATE, NoPlayers, StalemateDecided, resultVars
    <2>2. QED BY <1>2, <1>4, <1>8, <2>1, WinAtMost
  <1>12. CASE Periodic
    <2>1. \/ UNCHANGED <<score, roundsPlayed>>
          \/ \E t \in Teams : SetWinningTeam(t, TRUE, FALSE, TRUE)
      BY <1>12, LimitTeamsType DEF Periodic, Periodic_NotDue, Periodic_LimitReached, Periodic_Checks, resultVars
    <2>2. QED BY <1>2, <1>4, <2>1, WinAtMost
  <1>13. CASE Command
    BY <1>4, <1>13 DEF Command, SetCVar, SwitchTeamsCommand, ScrambleTeamsCommand,
                TournamentRestartCommand, TeamReadies, TeamUnreadies, resultVars
  <1>14. CASE Map
    <2>1. \/ \E t \in Teams \cup {None}, force, switch \in BOOLEAN :
                SetWinningTeam(t, force, switch /\ force, FALSE)
          \/ \E force, switch \in BOOLEAN : SetStalemate(force, switch)
      BY <1>14, ScoringChanges DEF Map, RoundWin
    <2>2. QED BY <1>2, <2>1, WinAtMost, DrawAtMost
  <1>15. CASE Players \/ EndFrame
    BY <1>4, <1>15 DEF Players, Die, TeamFills, TeamEmpties, JoinTeam, EndFrame, resultVars
  <1>16. CASE TimePasses
    BY <1>4, <1>16 DEF TimePasses, StateTimeUp, WaitTimeUp, RestartTimeUp, StalemateTimeUp,
                       MapTimePasses, resultVars
  <1>17. CASE UNCHANGED vars BY <1>4, <1>17 DEF vars, resultVars
  <1>18. QED
    BY <1>5, <1>6, <1>9, <1>10, <1>11, <1>12, <1>13, <1>14, <1>15, <1>16, <1>17 DEF Next, Think

\* On a map where only rounds score and without a time limit, however often the scores
\* are reset, kept, swapped or scrambled, no team has won more rounds than were played
\* since the last reset.
THEOREM WinsWithinRoundsAlways == Spec => []WinsWithinRounds
  <1>1. Init => WinsInv BY DEF Init, WinsInv, WinsWithinRounds, ScoresFollow
  <1>2. TypeOK /\ WinsInv /\ [Next]_vars => WinsInv' BY WinsStep
  <1>3. WinsInv => WinsWithinRounds BY DEF WinsInv
  <1>4. QED BY <1>1, <1>2, <1>3, TypeCorrect, PTL DEF Spec

-----------------------------------------------------------------------------
(***************************************************************************)
(* The intermission is final.                                              *)
(***************************************************************************)

Ended == {"GAME_OVER", "TEAM_WIN", "STALEMATE"}

\* The strengthening of GameOverIsFinal.
OverInv == gameOver => roundState \in Ended

\* No step ends the intermission, and none starts it in any other state.
LEMMA OverStep ==
  ASSUME OverInv, [Next]_vars
  PROVE  /\ OverInv'
         /\ gameOver => gameOver' /\ roundState' \in Ended
  <1> USE DEF OverInv, Ended
  <1>1. CASE UNCHANGED <<gameOver, roundState>> BY <1>1
  <1>2. CASE Think
    <2>1. ~gameOver /\ roundState \in States
      BY <1>2 DEF Think, Think_PREGAME, Think_STARTGAME, Think_PREROUND, Think_RND_RUNNING,
                  Think_TEAM_WIN, Think_STALEMATE, NoPlayers, RestartRound, StartCompetitiveMatch,
                  RunRound, StateThink, States
    <2>2. gameOver' = gameOver \/ roundState' = "GAME_OVER"
      BY <1>2 DEF Think, Think_PREGAME, Think_STARTGAME, Think_PREROUND, Think_RND_RUNNING,
                  Think_TEAM_WIN, Think_STALEMATE, NoPlayers, RestartRound, StartCompetitiveMatch,
                  RunRound, GoToIntermission
    <2>3. QED BY <2>1, <2>2
  <1>3. CASE Think_GAME_OVER \/ EndFrame
    BY <1>1, <1>3 DEF Think_GAME_OVER, EndFrame, stateVars
  <1>4. CASE Periodic
    <2>1. CASE Periodic_NotDue \/ Periodic_Checks
      BY <1>1, <2>1 DEF Periodic_NotDue, Periodic_Checks, stateVars
    <2>2. CASE Periodic_LimitReached
      <3>1. ~gameOver BY <2>2 DEF Periodic_LimitReached, LimitStates
      <3>2. gameOver' = gameOver \/ roundState' = "GAME_OVER"
        BY <2>2 DEF Periodic_LimitReached, GoToIntermission
      <3>3. QED BY <3>1, <3>2
    <2>3. QED BY <1>4, <2>1, <2>2 DEF Periodic
  <1>5. CASE Map
    <2>1. gameOver' = gameOver BY <1>5, ScoringChanges DEF Map, RoundWin, frameVars
    <2>2. roundState' = roundState \/ roundState' \in Ended
      BY <1>5, ScoringChanges DEF Map, RoundWin, SetWinningTeam, SetStalemate, EnterSTALEMATE, stateVars
    <2>3. QED BY <2>1, <2>2
  <1>6. CASE Command \/ Players
    BY <1>1, <1>6 DEF Command, SetCVar, SwitchTeamsCommand, ScrambleTeamsCommand,
                      TournamentRestartCommand, TeamReadies, TeamUnreadies, Players, Die,
                      TeamFills, TeamEmpties, JoinTeam, frameVars, stateVars
  <1>7. CASE TimePasses
    BY <1>1, <1>7 DEF TimePasses, StateTimeUp, WaitTimeUp, RestartTimeUp, StalemateTimeUp,
                      MapTimePasses, frameVars, stateVars
  <1>8. CASE UNCHANGED vars BY <1>1, <1>8 DEF vars, frameVars, stateVars
  <1>9. QED BY <1>2, <1>3, <1>4, <1>5, <1>6, <1>7, <1>8 DEF Next

LEMMA OverAlways == Spec => []OverInv
  <1>1. Init => OverInv BY DEF Init, OverInv
  <1>2. OverInv /\ [Next]_vars => OverInv' BY OverStep
  <1>3. QED BY <1>1, <1>2, PTL DEF Spec

\* Whatever the map's entities declare and the console asks for during the
\* intermission, the game stays over and no round is started.
THEOREM GameOverIsFinalAlways == Spec => GameOverIsFinal
  <1>1. OverInv /\ [Next]_vars
          => [gameOver => gameOver' /\ roundState' \in {"GAME_OVER", "TEAM_WIN", "STALEMATE"}]_vars
    BY OverStep DEF Ended
  <1>2. QED BY <1>1, OverAlways, PTL DEF Spec, GameOverIsFinal

-----------------------------------------------------------------------------
(***************************************************************************)
(* The timers of the waiting period and of sudden death.                   *)
(***************************************************************************)

\* The strengthening of WaitTimerOnlyWhileWaiting: a live waiting timer belongs to a
\* wait, one being deleted is gone when the frame ends, and a tournament has none.
WaitTimerInv ==
    /\ hud.wait = "live" => inWaiting
    /\ hud.wait = "dying" => phase = "events"
    /\ Tournament => hud.wait = "none"

\* What the operators on the HUD timers do to the two handles.
LEMMA TimerHandles ==
  ASSUME NEW h
  PROVE  /\ StateLeave(h).wait = h.wait
         /\ StateLeave(h).stale = IF roundState = "STALEMATE" THEN UtilRemove(h.stale) ELSE h.stale
         /\ RemoveWaitTimer(h).wait = UtilRemove(h.wait) /\ RemoveWaitTimer(h).stale = h.stale
         /\ CleanupDeleteList(h).wait = IF h.wait = "dying" THEN "none" ELSE h.wait
         /\ CleanupDeleteList(h).stale = IF h.stale = "dying" THEN "none" ELSE h.stale
         /\ \A r \in HideActiveTimer(h) : r.wait = h.wait /\ r.stale = h.stale
  <1>1. \A g : RestoreActiveTimer(g).wait = g.wait /\ RestoreActiveTimer(g).stale = g.stale
    BY DEF RestoreActiveTimer
  <1>2. /\ StateLeave(h).wait = h.wait
        /\ StateLeave(h).stale = IF roundState = "STALEMATE" THEN UtilRemove(h.stale) ELSE h.stale
    BY <1>1 DEF StateLeave
  <1>3. RemoveWaitTimer(h).wait = UtilRemove(h.wait) /\ RemoveWaitTimer(h).stale = h.stale
    BY <1>1 DEF RemoveWaitTimer
  <1>4. /\ CleanupDeleteList(h).wait = IF h.wait = "dying" THEN "none" ELSE h.wait
        /\ CleanupDeleteList(h).stale = IF h.stale = "dying" THEN "none" ELSE h.stale
    BY DEF CleanupDeleteList
  <1>5. \A r \in HideActiveTimer(h) : r.wait = h.wait /\ r.stale = h.stale
    BY DEF HideActiveTimer
  <1>6. QED BY <1>2, <1>3, <1>4, <1>5

\* A round that begins keeps its timers or starts with a rebuilt map.
LEMMA PreroundTimers ==
  ASSUME NEW force, NEW prev, NEW switch, NEW scramble, NEW sc, NEW left, NEW h,
         EnterPREROUND(force, prev, switch, scramble, sc, left, h)
  PROVE  /\ roundState' = "PREROUND"
         /\ \/ hud' = h /\ ~prev
            \/ hud'.wait = "none" /\ hud'.stale = "none"
  BY DEF EnterPREROUND, RoundRespawn, MustResetMap, FreshHud

\* A restart that ends a wait always rebuilds the map.
LEMMA RestartTimers ==
  ASSUME NEW waiting \in BOOLEAN, NEW switch, NEW scramble, NEW sc, NEW h,
         Restart(waiting, switch, scramble, sc, h)
  PROVE  /\ roundState' = "PREROUND" /\ inWaiting' = FALSE
         /\ hud'.wait = "none" \/ (~waiting /\ hud'.wait = h.wait)
         /\ hud'.stale = "none" \/ hud'.stale = StateLeave(h).stale
  <1> DEFINE leaving == StateLeave(h)
             stopped == IF waiting THEN RemoveWaitTimer(leaving) ELSE leaving
             sc0 == IF resetTeamScores THEN [t \in Teams |-> 0] ELSE sc
  <1>1. EnterPREROUND(forceMapReset, waiting, switch, scramble, sc0, "far", stopped)
    BY DEF Restart
  <1>2. inWaiting' = FALSE BY DEF Restart, EndWaiting
  <1>3. leaving.wait = h.wait BY TimerHandles
  <1>4. ~waiting => stopped = leaving OBVIOUS
  <1> HIDE DEF stopped, sc0, leaving
  <1>5. /\ roundState' = "PREROUND"
        /\ \/ hud' = stopped /\ ~waiting
           \/ hud'.wait = "none" /\ hud'.stale = "none"
    BY <1>1, PreroundTimers
  <1>6. QED BY <1>2, <1>3, <1>4, <1>5 DEF leaving

\* ... and so does the one that begins a competitive match.
LEMMA CompetitiveTimers ==
  ASSUME WaitTimerInv, NEW s, StartCompetitiveMatch(s)
  PROVE  /\ roundState' = "PREROUND" /\ inWaiting' = FALSE
         /\ Tournament /\ hud'.wait = "none"
         /\ hud'.stale = "none" \/ hud'.stale = StateLeave(hud).stale
  <1> DEFINE ended == IF inWaiting THEN RemoveWaitTimer(hud) ELSE hud
             before == IF forceMapReset \/ prevRoundWasWaiting THEN FreshHud(timeLeft) ELSE ended
             swtch == switchTeams /\ ~PreventSwitch
  <1>1. Restart(FALSE, swtch, scrambleTeams, score, before) /\ Tournament
    BY DEF StartCompetitiveMatch
  <1>2. before.wait = "none"
    BY <1>1, TimerHandles DEF FreshHud, WaitTimerInv, UtilRemove
  <1>3. before.stale = "none" \/ before.stale = hud.stale
    BY TimerHandles DEF FreshHud
  <1>4. /\ StateLeave(before).stale
             = IF roundState = "STALEMATE" THEN UtilRemove(before.stale) ELSE before.stale
        /\ StateLeave(hud).stale
             = IF roundState = "STALEMATE" THEN UtilRemove(hud.stale) ELSE hud.stale
    BY TimerHandles
  <1> HIDE DEF before, swtch
  <1>5. /\ roundState' = "PREROUND" /\ inWaiting' = FALSE
        /\ hud'.wait = "none" \/ hud'.wait = before.wait
        /\ hud'.stale = "none" \/ hud'.stale = StateLeave(before).stale
    BY <1>1, RestartTimers
  <1>6. QED BY <1>1, <1>2, <1>3, <1>4, <1>5 DEF UtilRemove

\* A win leaves the waiting timer alone and ends a sudden death.
LEMMA WinTimers ==
  ASSUME NEW t, NEW force, NEW switch, NEW dont, SetWinningTeam(t, force, switch, dont)
  PROVE  /\ roundState' = "TEAM_WIN" /\ hud'.wait = hud.wait
         /\ \/ hud' = hud /\ roundState = "TEAM_WIN"
            \/ hud' = StateLeave(hud)
  BY TimerHandles DEF SetWinningTeam, stateVars

LEMMA DrawTimers ==
  ASSUME NEW force, NEW switch, SetStalemate(force, switch)
  PROVE  /\ hud'.wait = hud.wait
         /\ \/ UNCHANGED <<hud, roundState>>
            \/ SetWinningTeam(None, force, switch, FALSE)
            \/ roundState' = "STALEMATE" /\ (StalemateTimed => hud'.stale = "live")
  <1>1. CASE UNCHANGED <<hud, roundState>> BY <1>1
  <1>2. CASE SetWinningTeam(None, force, switch, FALSE) BY <1>2, WinTimers
  <1>3. CASE EnterSTALEMATE(hud)
    <2>1. PICK hidden \in HideActiveTimer(StateLeave(hud)) :
          hud' = [wait |-> hidden.wait,
                stale |-> IF StalemateTimed THEN "live" ELSE "none",
                shown |-> IF StalemateTimed THEN hidden.shown \cup {"stale"} ELSE hidden.shown,
                hidden |-> IF hidden.hidden = "stale" THEN None ELSE hidden.hidden]
      BY <1>3 DEF EnterSTALEMATE
    <2>2. hidden.wait = StateLeave(hud).wait BY <2>1, TimerHandles
    <2>3. StateLeave(hud).wait = hud.wait BY TimerHandles
    <2>4. hud'.wait = hud.wait /\ (StalemateTimed => hud'.stale = "live") BY <2>1, <2>2, <2>3
    <2>5. QED BY <1>3, <2>4 DEF EnterSTALEMATE
  <1>4. QED BY <1>1, <1>2, <1>3 DEF SetStalemate, hudVars, stateVars

LEMMA WaitTimerStep == ASSUME TypeOK, WaitTimerInv, [Next]_vars PROVE WaitTimerInv'
  <1>1. ASSUME hud'.wait = hud.wait \/ hud'.wait = "none", inWaiting => inWaiting',
               phase' = "events" \/ phase # "events"
        PROVE  WaitTimerInv'
    BY <1>1 DEF WaitTimerInv
  <1>2. ASSUME NEW s, StartCompetitiveMatch(s) PROVE WaitTimerInv'
    BY <1>2, CompetitiveTimers DEF WaitTimerInv
  <1>3. CASE Think_PREGAME \/ Think_PREROUND \/ Think_GAME_OVER
    BY <1>1, <1>3 DEF Think_PREGAME, Think_PREROUND, Think_GAME_OVER, StateThink, hudVars, waitVars
  <1>4. CASE Think_STARTGAME
    <2>1. phase = "entities" /\ (inWaiting => inWaiting')
      BY <1>4 DEF Think_STARTGAME, StateThink, waitVars
    <2>2. \/ hud' = hud
          \/ EnterPREROUND(forceMapReset, prevRoundWasWaiting, switchTeams,
                           scrambleTeams, score, timeLeft, hud)
      BY <1>4 DEF Think_STARTGAME
    <2>3. hud'.wait = hud.wait \/ hud'.wait = "none" BY <2>2, PreroundTimers
    <2>4. QED BY <1>1, <2>1, <2>3
  <1>5. ASSUME NEW s, NoPlayers(s) PROVE WaitTimerInv'
    BY <1>1, <1>5, TimerHandles DEF NoPlayers, StateThink, waitVars
  <1>6. CASE Think_RND_RUNNING
    <2>1. CASE RestartRound("RND_RUNNING")
      <3>1. /\ Restart(inWaiting, switchTeams, scrambleTeams, score, hud) /\ phase = "entities"
        BY <2>1 DEF RestartRound, StateThink
      <3>2. inWaiting \in BOOLEAN BY DEF TypeOK
      <3>3. /\ inWaiting' = FALSE
            /\ hud'.wait = "none" \/ (~inWaiting /\ hud'.wait = hud.wait)
        BY <3>1, <3>2, RestartTimers
      <3>4. QED BY <3>1, <3>3 DEF WaitTimerInv
    <2>2. CASE RunRound
      <3>1. phase = "entities" /\ inWaiting' = inWaiting
        BY <2>2 DEF RunRound, StateThink, waitVars
      <3>2. \/ hud' = hud
            \/ SetStalemate(forceMapReset, FALSE)
            \/ \E t \in Teams : SetWinningTeam(t, TRUE, FALSE, TRUE)
        BY <2>2 DEF RunRound, hudVars
      <3>3. hud'.wait = hud.wait BY <3>2, WinTimers, DrawTimers
      <3>4. QED BY <1>1, <3>1, <3>3
    <2>3. QED BY <1>2, <1>5, <1>6, <2>1, <2>2 DEF Think_RND_RUNNING
  <1>7. CASE Think_TEAM_WIN
    <2>1. phase = "entities" /\ (inWaiting => inWaiting')
      BY <1>7 DEF Think_TEAM_WIN, StateThink, waitVars, RestartTournament
    <2>2. \/ hud' = hud
          \/ EnterPREROUND(forceMapReset, prevRoundWasWaiting, switchTeams,
                           scrambleTeams, score, timeLeft, hud)
      BY <1>7 DEF Think_TEAM_WIN
    <2>3. hud'.wait = hud.wait \/ hud'.wait = "none" BY <2>2, PreroundTimers
    <2>4. QED BY <1>1, <2>1, <2>3
  <1>8. CASE Think_STALEMATE
    <2>1. \/ NoPlayers("STALEMATE") \/ StartCompetitiveMatch("STALEMATE")
          \/ /\ phase = "entities" /\ inWaiting' = inWaiting
             /\ \/ hud' = hud
                \/ \E t, force, switch : SetWinningTeam(t, force, switch, FALSE)
      BY <1>8 DEF Think_STALEMATE, StalemateDecided, StateThink, waitVars, hudVars
    <2>2. QED BY <1>1, <1>2, <1>5, <2>1, WinTimers
  <1>9. CASE Periodic
    <2>1. CASE Periodic_NotDue
      BY <1>1, <2>1 DEF Periodic_NotDue, PeriodicStart, hudVars, waitVars
    <2>2. CASE Periodic_LimitReached
      <3>1. phase' = "events" /\ inWaiting' = inWaiting
        BY <2>2 DEF Periodic_LimitReached, PeriodicStart, waitVars
      <3>2. hud' = hud \/ \E t \in Teams : SetWinningTeam(t, TRUE, FALSE, TRUE)
        BY <2>2, LimitTeamsType DEF Periodic_LimitReached
      <3>3. hud'.wait = hud.wait BY <3>2, WinTimers
      <3>4. QED BY <1>1, <3>1, <3>3
    <2>3. CASE Periodic_Checks
      <3> DEFINE started == inWaiting \/ "waitrestart" \in cvars
                 waiting == started /\ ~WaitCancelled
                 timers  == IF started /\ ~waiting THEN RemoveWaitTimer(hud) ELSE hud
      <3>1. phase' = "events" /\ inWaiting' = waiting
        BY <2>3 DEF Periodic_Checks, PeriodicStart
      <3>2. \/ hud' = timers
            \/ waiting /\ ~Tournament /\ hud'.wait = "live"
        BY <2>3 DEF Periodic_Checks
      <3>3. timers.wait = IF started /\ ~waiting THEN UtilRemove(hud.wait) ELSE hud.wait
        BY TimerHandles
      <3>4. (started /\ ~waiting) \/ (inWaiting => waiting)
        OBVIOUS
      <3> HIDE DEF timers
      <3>5. QED BY <3>1, <3>2, <3>3, <3>4 DEF WaitTimerInv, UtilRemove
    <2>4. QED BY <1>9, <2>1, <2>2, <2>3 DEF Periodic
  <1>10. CASE Command
    BY <1>1, <1>10 DEF Command, SetCVar, SwitchTeamsCommand, ScrambleTeamsCommand,
                TournamentRestartCommand, RestartTournament, TeamReadies, TeamUnreadies,
                hudVars, waitVars, frameVars
  <1>11. CASE Map
    <2>1. phase' = phase /\ inWaiting' = inWaiting
      BY <1>11, ScoringChanges DEF Map, RoundWin, frameVars, waitVars
    <2>2. \/ hud' = hud
          \/ \E t, force, switch : SetWinningTeam(t, force, switch, FALSE)
          \/ \E force, switch : SetStalemate(force, switch)
      BY <1>11, ScoringChanges DEF Map, RoundWin, hudVars
    <2>3. hud'.wait = hud.wait BY <2>2, WinTimers, DrawTimers
    <2>4. QED BY <1>1, <2>1, <2>3
  <1>12. CASE Players
    BY <1>1, <1>12 DEF Players, Die, TeamFills, TeamEmpties, JoinTeam, hudVars, waitVars, frameVars
  <1>13. CASE TimePasses
    BY <1>1, <1>13 DEF TimePasses, StateTimeUp, WaitTimeUp, RestartTimeUp, StalemateTimeUp,
                       MapTimePasses, hudVars, waitVars, frameVars
  <1>14. CASE EndFrame
    BY <1>14, TimerHandles DEF EndFrame, WaitTimerInv, waitVars
  <1>15. CASE UNCHANGED vars
    BY <1>1, <1>15 DEF vars, hudVars, waitVars, frameVars
  <1>16. QED
    BY <1>3, <1>4, <1>6, <1>7, <1>8, <1>9, <1>10, <1>11, <1>12, <1>13, <1>14, <1>15 DEF Next, Think

\* The assertion of Think that a server which does not wait for players has no waiting
\* timer: although the handle outlives UTIL_Remove, it never fails.
THEOREM WaitTimerOnlyWhileWaitingAlways == Spec => []WaitTimerOnlyWhileWaiting
  <1>1. Init => WaitTimerInv BY DEF Init, WaitTimerInv
  <1>2. TypeOK /\ WaitTimerInv /\ [Next]_vars => WaitTimerInv' BY WaitTimerStep
  <1>3. TypeOK /\ WaitTimerInv => WaitTimerOnlyWhileWaiting
    BY DEF TypeOK, WaitTimerInv, WaitTimerOnlyWhileWaiting
  <1>4. QED BY <1>1, <1>2, <1>3, TypeCorrect, PTL DEF Spec

\* What StalemateTimerLives says of a server whose sudden deaths are timed.
TimerOfStalemate == (hud.stale = "live") <=> (roundState = "STALEMATE")

\* It is inductive with WaitTimerInv, which a competitive match's restart needs.
LEMMA StaleTimerStep ==
  ASSUME TypeOK, WaitTimerInv, StalemateTimerLives, [Next]_vars
  PROVE  StalemateTimerLives'
  <1> SUFFICES ASSUME StalemateTimed
               PROVE  TimerOfStalemate'
    BY DEF StalemateTimerLives, TimerOfStalemate
  <1>1. (hud.stale = "live") <=> (roundState = "STALEMATE")
    BY DEF StalemateTimerLives
  <1>2. StateLeave(hud).stale # "live"
    BY <1>1, TimerHandles DEF UtilRemove
  <1>3. ASSUME hud'.stale = hud.stale, roundState' = roundState PROVE TimerOfStalemate'
    BY <1>1, <1>3 DEF TimerOfStalemate
  <1>4. ASSUME hud'.stale = hud.stale \/ hud'.stale = "none",
               roundState # "STALEMATE", roundState' # "STALEMATE" PROVE TimerOfStalemate'
    BY <1>1, <1>4 DEF TimerOfStalemate
  <1>5. ASSUME hud'.stale = StateLeave(hud).stale \/ hud'.stale = "none",
               roundState' # "STALEMATE" PROVE TimerOfStalemate'
    BY <1>2, <1>5 DEF TimerOfStalemate
  <1>6. ASSUME NEW t, NEW force, NEW switch, NEW dont, SetWinningTeam(t, force, switch, dont)
        PROVE  TimerOfStalemate'
    BY <1>4, <1>5, <1>6, WinTimers
  <1>7. ASSUME NEW force, NEW switch, SetStalemate(force, switch) PROVE TimerOfStalemate'
    BY <1>3, <1>6, <1>7, DrawTimers DEF TimerOfStalemate
  <1>8. ASSUME NEW s, NoPlayers(s) PROVE TimerOfStalemate'
    BY <1>5, <1>8 DEF NoPlayers
  <1>9. ASSUME NEW s, StartCompetitiveMatch(s) PROVE TimerOfStalemate'
    BY <1>5, <1>9, CompetitiveTimers
  <1>10. CASE Think_PREGAME \/ Think_PREROUND \/ Think_GAME_OVER
    BY <1>3, <1>4, <1>10 DEF Think_PREGAME, Think_PREROUND, Think_GAME_OVER, StateThink, hudVars,
                             stateVars
  <1>11. CASE Think_STARTGAME
    <2>1. \/ UNCHANGED <<hud, roundState>>
          \/ EnterPREROUND(forceMapReset, prevRoundWasWaiting, switchTeams,
                           scrambleTeams, score, timeLeft, hud)
      BY <1>11 DEF Think_STARTGAME, stateVars
    <2>2. roundState = "STARTGAME" BY <1>11 DEF Think_STARTGAME, StateThink
    <2>3. QED BY <1>3, <1>4, <2>1, <2>2, PreroundTimers
  <1>12. CASE Think_RND_RUNNING
    <2>1. CASE RestartRound("RND_RUNNING")
      <3>1. Restart(inWaiting, switchTeams, scrambleTeams, score, hud)
        BY <2>1 DEF RestartRound
      <3>2. inWaiting \in BOOLEAN BY DEF TypeOK
      <3>3. /\ roundState' = "PREROUND"
            /\ hud'.stale = "none" \/ hud'.stale = StateLeave(hud).stale
        BY <3>1, <3>2, RestartTimers
      <3>4. QED BY <1>5, <3>3
    <2>2. CASE RunRound
      <3>1. \/ UNCHANGED <<hud, roundState>>
            \/ SetStalemate(forceMapReset, FALSE)
            \/ \E t \in Teams : SetWinningTeam(t, TRUE, FALSE, TRUE)
        BY <2>2 DEF RunRound, hudVars, stateVars
      <3>2. QED BY <1>3, <1>6, <1>7, <3>1
    <2>3. QED BY <1>8, <1>9, <1>12, <2>1, <2>2 DEF Think_RND_RUNNING
  <1>13. CASE Think_TEAM_WIN
    <2>1. \/ hud' = hud /\ roundState' \in {roundState, "GAME_OVER", "RND_RUNNING"}
          \/ EnterPREROUND(forceMapReset, prevRoundWasWaiting, switchTeams,
                           scrambleTeams, score, timeLeft, hud)
      BY <1>13 DEF Think_TEAM_WIN, stateVars, GoToIntermission
    <2>2. roundState = "TEAM_WIN" BY <1>13 DEF Think_TEAM_WIN, StateThink
    <2>3. QED BY <1>3, <1>4, <2>1, <2>2, PreroundTimers
  <1>14. CASE Think_STALEMATE
    <2>1. \/ NoPlayers("STALEMATE") \/ StartCompetitiveMatch("STALEMATE")
          \/ UNCHANGED <<hud, roundState>>
          \/ \E t, force, switch : SetWinningTeam(t, force, switch, FALSE)
      BY <1>14 DEF Think_STALEMATE, StalemateDecided, stateVars, hudVars
    <2>2. QED BY <1>3, <1>6, <1>8, <1>9, <2>1
  <1>15. CASE Periodic
    <2>1. CASE Periodic_NotDue
      BY <1>3, <2>1 DEF Periodic_NotDue, stateVars, hudVars
    <2>2. CASE Periodic_LimitReached
      <3>1. \/ hud' = hud /\ roundState' \in {roundState, "GAME_OVER"} /\ roundState # "STALEMATE"
            \/ \E t \in Teams : SetWinningTeam(t, TRUE, FALSE, TRUE)
        BY <2>2, LimitTeamsType DEF Periodic_LimitReached, GoToIntermission, LimitStates, stateVars
      <3>2. QED BY <1>3, <1>4, <1>6, <3>1
    <2>3. CASE Periodic_Checks
      <3> DEFINE started == inWaiting \/ "waitrestart" \in cvars
                 waiting == started /\ ~WaitCancelled
                 timers  == IF started /\ ~waiting THEN RemoveWaitTimer(hud) ELSE hud
      <3>1. roundState' = roundState BY <2>3 DEF Periodic_Checks, stateVars
      <3>2. \/ hud' = timers
            \/ \E h \in HideActiveTimer(timers) : hud'.stale = h.stale
        BY <2>3 DEF Periodic_Checks
      <3>3. timers.stale = hud.stale BY TimerHandles
      <3> HIDE DEF timers
      <3>4. hud'.stale = hud.stale BY <3>2, <3>3, TimerHandles
      <3>5. QED BY <1>3, <3>1, <3>4
    <2>4. QED BY <1>15, <2>1, <2>2, <2>3 DEF Periodic
  <1>16. CASE Command
    BY <1>3, <1>16 DEF Command, SetCVar, SwitchTeamsCommand, ScrambleTeamsCommand,
                TournamentRestartCommand, TeamReadies, TeamUnreadies, hudVars, stateVars
  <1>17. CASE Map
    <2>1. \/ UNCHANGED <<hud, roundState>>
          \/ \E t, force, switch : SetWinningTeam(t, force, switch, FALSE)
          \/ \E force, switch : SetStalemate(force, switch)
      BY <1>17, ScoringChanges DEF Map, RoundWin, hudVars, stateVars
    <2>2. QED BY <1>3, <1>6, <1>7, <2>1
  <1>18. CASE Players
    BY <1>3, <1>18 DEF Players, Die, TeamFills, TeamEmpties, JoinTeam, hudVars, stateVars
  <1>19. CASE TimePasses
    BY <1>3, <1>19 DEF TimePasses, StateTimeUp, WaitTimeUp, RestartTimeUp, StalemateTimeUp,
                       MapTimePasses, hudVars, stateVars
  <1>20. CASE EndFrame
    BY <1>1, <1>20, TimerHandles DEF EndFrame, stateVars, TimerOfStalemate
  <1>21. CASE UNCHANGED vars
    BY <1>3, <1>21 DEF vars, hudVars, stateVars
  <1>22. QED
    BY <1>10, <1>11, <1>12, <1>13, <1>14, <1>15, <1>16, <1>17, <1>18, <1>19, <1>20, <1>21
    DEF Next, Think

\* However a sudden death ends, and however soon the next one begins, its timer is there
\* while it lasts and no longer.
THEOREM StalemateTimerLivesAlways == Spec => []StalemateTimerLives
  <1>1. Init => WaitTimerInv /\ StalemateTimerLives
    BY DEF Init, WaitTimerInv, StalemateTimerLives
  <1>2. TypeOK /\ WaitTimerInv /\ StalemateTimerLives /\ [Next]_vars
          => WaitTimerInv' /\ StalemateTimerLives'
    BY WaitTimerStep, StaleTimerStep
  <1>3. QED BY <1>1, <1>2, TypeCorrect, PTL DEF Spec

-----------------------------------------------------------------------------
(***************************************************************************)
(* The timers on display.                                                  *)
(***************************************************************************)

\* The timers on display that are not being deleted.
Lit(h) == {t \in h.shown : \/ t = "round"
                           \/ t = "wait" /\ h.wait = "live"
                           \/ t = "stale" /\ h.stale = "live"}

\* Which timer may be hidden behind which: nothing else is on display while the
\* map's timer is hidden in the wait, or any in a sudden death.
HiddenBehind(st, h) ==
    /\ h.hidden = "round" => h.shown \subseteq (IF st THEN {"stale"} ELSE {"wait"})
    /\ h.hidden = "wait" => st /\ h.shown \subseteq {"stale"}
    /\ h.hidden = "stale" => h.shown \subseteq {"wait"}

\* Without sudden death, the map's timer is on display or hidden behind a wait.
KeepsRound(h) ==
    /\ h.stale = "none"
    /\ MapTimer => "round" \in h.shown \/ (h.hidden = "round" /\ h.wait = "live")

\* The timers as they may be in a sudden death (st) or out of it.
GoodHud(st, h) ==
    /\ h \in HudRecord
    /\ "wait" \in h.shown \cup {h.hidden} => h.wait # "none"
    /\ "stale" \in h.shown \cup {h.hidden} => h.stale # "none"
    /\ \A t, u \in Lit(h) : t = u
    /\ HiddenBehind(st, h)
    /\ st => "round" \notin h.shown
    /\ ~StalemateEnable => ~st /\ KeepsRound(h)

SuddenDeath == roundState = "STALEMATE"

\* The strengthening of TimersShown.
HudInv ==
    /\ GoodHud(SuddenDeath, hud)
    /\ "waitcancel" \in cvars => "waitcancel" \in Commands

\* The provers need the boolean spelled out to substitute it.
LEMMA Peace == ASSUME ~SuddenDeath PROVE SuddenDeath = FALSE
  BY DEF SuddenDeath

\* Outside a sudden death and with nothing hidden, it is enough that the timers on
\* display exist and that one of them at most is not being deleted.
LEMMA GoodShown ==
  ASSUME NEW g \in HudRecord, g.hidden = None,
         "wait" \in g.shown => g.wait # "none",
         "stale" \in g.shown => g.stale # "none",
         \A t, u \in Lit(g) : t = u,
         ~StalemateEnable => KeepsRound(g)
  PROVE  GoodHud(FALSE, g)
  <1>1. HiddenBehind(FALSE, g) BY NoneAssumption DEF HiddenBehind
  <1>2. "wait" # g.hidden /\ "stale" # g.hidden BY NoneAssumption
  <1>3. QED BY <1>1, <1>2 DEF GoodHud

LEMMA GoodFresh == ASSUME NEW left PROVE GoodHud(FALSE, FreshHud(left))
  <1>1. /\ FreshHud(left).wait = "none" /\ FreshHud(left).stale = "none"
        /\ FreshHud(left).hidden = None /\ FreshHud(left).shown \subseteq {"round"}
        /\ MapTimer => "round" \in FreshHud(left).shown
    BY DEF FreshHud, RoundTimerShown
  <1>2. QED BY <1>1, FreshHudType, NoneAssumption DEF GoodHud, Lit, HiddenBehind, KeepsRound

\* What RestoreActiveTimer makes of the record.
LEMMA RestoreFields ==
  ASSUME NEW h \in HudRecord
  PROVE  /\ RestoreActiveTimer(h).wait = h.wait /\ RestoreActiveTimer(h).stale = h.stale
         /\ RestoreActiveTimer(h).hidden = None
         /\ RestoreActiveTimer(h).shown = IF h.hidden = None THEN h.shown ELSE h.shown \cup {h.hidden}
  BY DEF RestoreActiveTimer

LEMMA LeaveFields ==
  ASSUME NEW h \in HudRecord, SuddenDeath
  PROVE  /\ StateLeave(h) \in HudRecord
         /\ StateLeave(h).wait = h.wait /\ StateLeave(h).stale = UtilRemove(h.stale)
         /\ StateLeave(h).hidden = None
         /\ StateLeave(h).shown = IF h.hidden = None THEN h.shown ELSE h.shown \cup {h.hidden}
  <1> DEFINE g == [wait |-> h.wait, stale |-> UtilRemove(h.stale), shown |-> h.shown,
                   hidden |-> h.hidden]
  <1>1. g \in HudRecord BY DEF HudRecord, UtilRemove
  <1>2. StateLeave(h) = RestoreActiveTimer(g) BY DEF StateLeave, SuddenDeath
  <1>3. QED BY <1>1, <1>2, RestoreFields, LeaveType

LEMMA RemoveFields ==
  ASSUME NEW h \in HudRecord
  PROVE  /\ RemoveWaitTimer(h) \in HudRecord
         /\ RemoveWaitTimer(h).wait = UtilRemove(h.wait) /\ RemoveWaitTimer(h).stale = h.stale
         /\ RemoveWaitTimer(h).hidden = None
         /\ RemoveWaitTimer(h).shown = IF h.hidden = None THEN h.shown ELSE h.shown \cup {h.hidden}
  <1> DEFINE g == [wait |-> UtilRemove(h.wait), stale |-> h.stale, shown |-> h.shown,
                   hidden |-> h.hidden]
  <1>1. g \in HudRecord BY DEF HudRecord, UtilRemove
  <1>2. RemoveWaitTimer(h) = RestoreActiveTimer(g) BY DEF RemoveWaitTimer
  <1>3. QED BY <1>1, <1>2, RestoreFields, RemoveWaitType

\* The end of a sudden death deletes its timer as it restores the one hidden.
LEMMA GoodLeave ==
  ASSUME NEW h, GoodHud(SuddenDeath, h)
  PROVE  GoodHud(FALSE, StateLeave(h))
  <1>1. CASE ~SuddenDeath
    <2>1. StateLeave(h) = h BY <1>1 DEF StateLeave, SuddenDeath
    <2>2. QED BY <1>1, <2>1, Peace
  <1>2. CASE SuddenDeath
    <2> DEFINE g == StateLeave(h)
    <2>1. h \in HudRecord BY DEF GoodHud
    <2>2. /\ g \in HudRecord /\ g.wait = h.wait /\ g.stale = UtilRemove(h.stale)
          /\ g.hidden = None
          /\ g.shown = IF h.hidden = None THEN h.shown ELSE h.shown \cup {h.hidden}
      BY <1>2, <2>1, LeaveFields
    <2> HIDE DEF g
    <2>3. g.stale # "live" /\ (h.stale # "none" => g.stale # "none") BY <2>2 DEF UtilRemove
    <2>4. h.hidden \in {None, "round", "wait", "stale"} /\ h.shown \subseteq {"round", "wait", "stale"}
      BY <2>1 DEF HudRecord, Timers
    <2>5. \A t, u \in Lit(g) : t = u
      BY <1>2, <2>2, <2>3, <2>4, NoneAssumption DEF GoodHud, Lit, HiddenBehind
    <2>6. StalemateEnable BY <1>2 DEF GoodHud
    <2>7. /\ "wait" \in g.shown => g.wait # "none"
          /\ "stale" \in g.shown => g.stale # "none"
      BY <2>2, <2>3 DEF GoodHud
    <2>8. GoodHud(FALSE, g) BY <2>2, <2>5, <2>6, <2>7, GoodShown
    <2>9. QED BY <2>8 DEF g
  <1>3. QED BY <1>1, <1>2

\* The end of a wait deletes its timer as it restores the one hidden.
LEMMA GoodRemove ==
  ASSUME NEW h, GoodHud(FALSE, h)
  PROVE  GoodHud(FALSE, RemoveWaitTimer(h))
  <1> DEFINE g == RemoveWaitTimer(h)
  <1>1. h \in HudRecord BY DEF GoodHud
  <1>2. /\ g \in HudRecord /\ g.wait = UtilRemove(h.wait) /\ g.stale = h.stale
        /\ g.hidden = None
        /\ g.shown = IF h.hidden = None THEN h.shown ELSE h.shown \cup {h.hidden}
    BY <1>1, RemoveFields
  <1> HIDE DEF g
  <1>3. g.wait # "live" /\ (h.wait # "none" => g.wait # "none") BY <1>2 DEF UtilRemove
  <1>4. h.hidden \in {None, "round", "wait", "stale"} /\ h.shown \subseteq {"round", "wait", "stale"}
    BY <1>1 DEF HudRecord, Timers
  <1>5. \A t, u \in Lit(g) : t = u
    BY <1>2, <1>3, <1>4, NoneAssumption DEF GoodHud, Lit, HiddenBehind
  <1>6. ~StalemateEnable => KeepsRound(g) BY <1>2, NoneAssumption DEF GoodHud, KeepsRound
  <1>7. /\ "wait" \in g.shown => g.wait # "none"
        /\ "stale" \in g.shown => g.stale # "none"
    BY <1>2, <1>3 DEF GoodHud
  <1>8. GoodHud(FALSE, g) BY <1>2, <1>5, <1>6, <1>7, GoodShown
  <1>9. QED BY <1>8 DEF g

\* A wait that a match ends in the middle of a sudden death: for a moment the
\* timer of the sudden death and the one it hid are both on display.
LEMMA GoodRemoveLeave ==
  ASSUME NEW h, GoodHud(SuddenDeath, h)
  PROVE  GoodHud(FALSE, StateLeave(RemoveWaitTimer(h)))
  <1>1. CASE ~SuddenDeath
    <2>1. StateLeave(RemoveWaitTimer(h)) = RemoveWaitTimer(h) BY <1>1 DEF StateLeave, SuddenDeath
    <2>2. QED BY <1>1, <2>1, GoodRemove, Peace
  <1>2. CASE SuddenDeath
    <2> DEFINE r == RemoveWaitTimer(h)
               g == StateLeave(r)
    <2>1. h \in HudRecord BY DEF GoodHud
    <2>2. /\ r \in HudRecord /\ r.wait = UtilRemove(h.wait) /\ r.stale = h.stale
          /\ r.hidden = None
          /\ r.shown = IF h.hidden = None THEN h.shown ELSE h.shown \cup {h.hidden}
      BY <2>1, RemoveFields
    <2> HIDE DEF r
    <2>3. /\ g \in HudRecord /\ g.wait = r.wait /\ g.stale = UtilRemove(r.stale)
          /\ g.hidden = None /\ g.shown = r.shown
      BY <1>2, <2>2, LeaveFields
    <2> HIDE DEF g
    <2>4. /\ g.wait # "live" /\ (h.wait # "none" => g.wait # "none")
          /\ g.stale # "live" /\ (h.stale # "none" => g.stale # "none")
      BY <2>2, <2>3 DEF UtilRemove
    <2>5. \A t, u \in Lit(g) : t = u BY <2>4 DEF Lit
    <2>6. StalemateEnable BY <1>2 DEF GoodHud
    <2>7. QED BY <2>2, <2>3, <2>4, <2>5, <2>6, NoneAssumption DEF GoodHud, HiddenBehind, r, g
  <1>3. QED BY <1>1, <1>2

LEMMA GoodPreround ==
  ASSUME NEW force, NEW prev, NEW switch, NEW scramble, NEW sc, NEW left, NEW h,
         EnterPREROUND(force, prev, switch, scramble, sc, left, h), GoodHud(FALSE, h)
  PROVE  roundState' = "PREROUND" /\ GoodHud(FALSE, hud')
  <1>1. roundState' = "PREROUND" /\ (hud' = h \/ hud' = FreshHud(left))
    BY DEF EnterPREROUND, RoundRespawn
  <1>2. QED BY <1>1, GoodFresh

LEMMA GoodRestart ==
  ASSUME NEW waiting, NEW switch, NEW scramble, NEW sc, NEW h,
         Restart(waiting, switch, scramble, sc, h), GoodHud(FALSE, StateLeave(h))
  PROVE  roundState' = "PREROUND" /\ GoodHud(FALSE, hud')
  <1> DEFINE leaving == StateLeave(h)
             stopped == IF waiting THEN RemoveWaitTimer(leaving) ELSE leaving
             sc0 == IF resetTeamScores THEN [t \in Teams |-> 0] ELSE sc
  <1>1. EnterPREROUND(forceMapReset, waiting, switch, scramble, sc0, "far", stopped)
    BY DEF Restart
  <1>2. GoodHud(FALSE, stopped) BY GoodRemove
  <1> HIDE DEF stopped, sc0
  <1>3. QED BY <1>1, <1>2, GoodPreround

LEMMA GoodMatch ==
  ASSUME GoodHud(SuddenDeath, hud), NEW s, StartCompetitiveMatch(s)
  PROVE  roundState' = "PREROUND" /\ GoodHud(FALSE, hud')
  <1> DEFINE ended == IF inWaiting THEN RemoveWaitTimer(hud) ELSE hud
             before == IF forceMapReset \/ prevRoundWasWaiting THEN FreshHud(timeLeft) ELSE ended
             swtch == switchTeams /\ ~PreventSwitch
  <1>1. Restart(FALSE, swtch, scrambleTeams, score, before) BY DEF StartCompetitiveMatch
  <1>2. GoodHud(FALSE, StateLeave(ended)) BY GoodLeave, GoodRemoveLeave
  <1>3. GoodHud(FALSE, StateLeave(FreshHud(timeLeft)))
    <2> DEFINE f == FreshHud(timeLeft)
    <2>1. /\ f \in HudRecord /\ f.wait = "none" /\ f.stale = "none" /\ f.hidden = None
          /\ GoodHud(FALSE, f)
      BY FreshHudType, GoodFresh DEF FreshHud
    <2>2. CASE ~SuddenDeath
      <3>1. StateLeave(f) = f BY <2>2 DEF StateLeave, SuddenDeath
      <3>2. QED BY <2>1, <3>1
    <2>3. CASE SuddenDeath
      <3>1. /\ StateLeave(f) \in HudRecord
            /\ StateLeave(f).wait = "none" /\ StateLeave(f).stale = "none"
            /\ StateLeave(f).hidden = None /\ StateLeave(f).shown = f.shown
        BY <2>1, <2>3, LeaveFields DEF UtilRemove
      <3> HIDE DEF f
      <3>2. StalemateEnable BY <2>3 DEF GoodHud
      <3>3. Lit(StateLeave(f)) \subseteq Lit(f) BY <3>1 DEF Lit
      <3>4. \A t, u \in Lit(StateLeave(f)) : t = u BY <2>1, <3>3 DEF GoodHud
      <3>5. "wait" \notin f.shown /\ "stale" \notin f.shown BY <2>1 DEF GoodHud
      <3>6. GoodHud(FALSE, StateLeave(f)) BY <3>1, <3>2, <3>4, <3>5, GoodShown
      <3>7. QED BY <3>6 DEF f
    <2>4. QED BY <2>2, <2>3
  <1>4. GoodHud(FALSE, StateLeave(before)) BY <1>2, <1>3
  <1> HIDE DEF before, swtch
  <1>5. QED BY <1>1, <1>4, GoodRestart

LEMMA GoodWin ==
  ASSUME GoodHud(SuddenDeath, hud), NEW t, NEW force, NEW switch, NEW dont,
         SetWinningTeam(t, force, switch, dont)
  PROVE  roundState' = "TEAM_WIN" /\ GoodHud(FALSE, hud')
  <1>1. roundState' = "TEAM_WIN" BY WinTimers
  <1>2. CASE hud' = hud /\ roundState = "TEAM_WIN" BY <1>1, <1>2 DEF SuddenDeath
  <1>3. CASE hud' = StateLeave(hud) BY <1>1, <1>3, GoodLeave
  <1>4. QED BY <1>2, <1>3, WinTimers

\* What HideActiveTimer makes of the record.
LEMMA HideFields ==
  ASSUME NEW h \in HudRecord, NEW r \in HideActiveTimer(h)
  PROVE  /\ r \in HudRecord /\ r.wait = h.wait /\ r.stale = h.stale /\ r.shown = {}
         /\ r.hidden \in h.shown \cup {None}
         /\ r.hidden = "round" => h.shown \subseteq {"round"}
         /\ "round" \in h.shown /\ h.shown \subseteq {"round"} => r.hidden = "round"
  <1>1. r \in HudRecord BY HideType
  <1>2. PICK t \in LastShown(h.shown) :
            r = [wait |-> h.wait, stale |-> h.stale, shown |-> {}, hidden |-> t]
    BY DEF HideActiveTimer
  <1>3. /\ t \in h.shown \cup {None} /\ (t = "round" => h.shown \subseteq {"round"})
        /\ "round" \in h.shown /\ h.shown \subseteq {"round"} => t = "round"
    BY NoneAssumption DEF LastShown
  <1>4. QED BY <1>1, <1>2, <1>3

\* A sudden death hides what is on display before it shows its own timer.
LEMMA GoodStalemate ==
  ASSUME GoodHud(FALSE, StateLeave(hud)), StalemateEnable, EnterSTALEMATE(hud)
  PROVE  roundState' = "STALEMATE" /\ GoodHud(TRUE, hud')
  <1> DEFINE h == StateLeave(hud)
  <1>1. PICK r \in HideActiveTimer(h) :
          hud' = [wait |-> r.wait,
                  stale |-> IF StalemateTimed THEN "live" ELSE "none",
                  shown |-> IF StalemateTimed THEN r.shown \cup {"stale"} ELSE r.shown,
                  hidden |-> IF r.hidden = "stale" THEN None ELSE r.hidden]
    BY DEF EnterSTALEMATE
  <1>2. GoodHud(FALSE, h) OBVIOUS
  <1> HIDE DEF h
  <1>3. h \in HudRecord BY <1>2 DEF GoodHud
  <1>4. /\ r \in HudRecord /\ r.wait = h.wait /\ r.shown = {} /\ r.hidden \in h.shown \cup {None}
    BY <1>3, HideFields
  <1>5. hud' \in HudRecord BY <1>1, <1>4 DEF HudRecord, Timers
  <1>6. /\ hud'.shown \subseteq {"stale"} /\ ("stale" \in hud'.shown => hud'.stale = "live")
        /\ hud'.hidden \in (h.shown \cup {None}) \ {"stale"} /\ hud'.wait = h.wait
    BY <1>1, <1>4, NoneAssumption
  <1>7. QED BY <1>2, <1>5, <1>6, NoneAssumption DEF GoodHud, Lit, HiddenBehind, EnterSTALEMATE

LEMMA GoodDraw ==
  ASSUME GoodHud(SuddenDeath, hud), NEW force, NEW switch, SetStalemate(force, switch)
  PROVE  GoodHud(SuddenDeath', hud')
  <1>1. CASE UNCHANGED <<hud, roundState>>
    BY <1>1 DEF SuddenDeath
  <1>2. CASE SetWinningTeam(None, force, switch, FALSE) BY <1>2, GoodWin DEF SuddenDeath
  <1>3. CASE StalemateEnable /\ EnterSTALEMATE(hud)
    BY <1>3, GoodLeave, GoodStalemate DEF SuddenDeath
  <1>4. QED BY <1>1, <1>2, <1>3 DEF SetStalemate, hudVars, stateVars

\* The wait shows a timer of its own when there is none from an earlier wait.
LEMMA GoodWait ==
  ASSUME NEW st \in BOOLEAN, NEW h, GoodHud(st, h), h.wait = "none", NEW r \in HideActiveTimer(h)
  PROVE  GoodHud(st, [wait |-> "live", stale |-> r.stale, shown |-> r.shown \cup {"wait"},
                      hidden |-> r.hidden])
  <1> DEFINE g == [wait |-> "live", stale |-> r.stale, shown |-> r.shown \cup {"wait"},
                   hidden |-> r.hidden]
  <1>1. h \in HudRecord BY DEF GoodHud
  <1>2. /\ r \in HudRecord /\ r.stale = h.stale /\ r.shown = {} /\ r.hidden \in h.shown \cup {None}
        /\ "round" \in h.shown /\ h.shown \subseteq {"round"} => r.hidden = "round"
    BY <1>1, HideFields
  <1>3. g \in HudRecord BY <1>2 DEF HudRecord, Timers
  <1>4. g.wait = "live" /\ g.stale = h.stale /\ g.shown = {"wait"} /\ g.hidden = r.hidden
    BY <1>2
  <1> HIDE DEF g
  <1>5. "wait" \notin h.shown /\ h.hidden # "wait" BY DEF GoodHud
  <1>6. HiddenBehind(st, g)
    BY <1>2, <1>4, <1>5, NoneAssumption DEF GoodHud, HiddenBehind
  <1>7. ~StalemateEnable => KeepsRound(g)
    <2> SUFFICES ASSUME ~StalemateEnable PROVE KeepsRound(g) OBVIOUS
    <2>1. h.stale = "none" /\ (MapTimer => "round" \in h.shown)
      BY DEF GoodHud, KeepsRound
    <2>2. h.shown \subseteq {"round"} BY <1>1, <1>5, <2>1 DEF GoodHud, HudRecord, Timers
    <2>3. QED BY <1>2, <1>4, <2>1, <2>2 DEF KeepsRound
  <1>8. QED BY <1>2, <1>3, <1>4, <1>6, <1>7, NoneAssumption DEF GoodHud, Lit, g

LEMMA GoodCleanup ==
  ASSUME NEW st \in BOOLEAN, NEW h, GoodHud(st, h)
  PROVE  GoodHud(st, CleanupDeleteList(h))
  <1> DEFINE g == CleanupDeleteList(h)
  <1>1. h \in HudRecord BY DEF GoodHud
  <1>2. /\ "round" \notin Dying(h) /\ None \notin Dying(h)
        /\ "wait" \in Dying(h) <=> h.wait = "dying"
        /\ "stale" \in Dying(h) <=> h.stale = "dying"
    BY <1>1, NoneAssumption DEF Dying, HudRecord
  <1>3. /\ g \in HudRecord
        /\ g.wait = IF h.wait = "dying" THEN "none" ELSE h.wait
        /\ g.stale = IF h.stale = "dying" THEN "none" ELSE h.stale
        /\ g.shown = h.shown \ Dying(h)
        /\ g.hidden = IF h.hidden \in Dying(h) THEN None ELSE h.hidden
    BY <1>1, CleanupType DEF CleanupDeleteList
  <1> HIDE DEF g
  <1>4. Lit(g) \subseteq Lit(h) BY <1>2, <1>3 DEF Lit
  <1>5. HiddenBehind(st, g) BY <1>3, NoneAssumption DEF GoodHud, HiddenBehind
  <1>6. ~StalemateEnable => KeepsRound(g) BY <1>2, <1>3 DEF GoodHud, KeepsRound
  <1>7. /\ "wait" \in g.shown \cup {g.hidden} => g.wait # "none"
        /\ "stale" \in g.shown \cup {g.hidden} => g.stale # "none"
    BY <1>2, <1>3, NoneAssumption DEF GoodHud
  <1>8. QED BY <1>3, <1>4, <1>5, <1>6, <1>7 DEF GoodHud, g

\* The request to cancel the wait comes from the console alone.
LEMMA CancelStep ==
  ASSUME "waitcancel" \in cvars => "waitcancel" \in Commands, [Next]_vars
  PROVE  ("waitcancel" \in cvars => "waitcancel" \in Commands)'
  <1>1. CASE cvars' \subseteq cvars \cup {"restartgame"} BY <1>1
  <1>2. CASE Think_PREGAME \/ Think_STARTGAME \/ Think_PREROUND \/ Think_TEAM_WIN \/ Think_GAME_OVER
    BY <1>1, <1>2 DEF Think_PREGAME, Think_STARTGAME, Think_PREROUND, Think_TEAM_WIN, Think_GAME_OVER
  <1>3. CASE Think_RND_RUNNING \/ Think_STALEMATE
    BY <1>1, <1>3 DEF Think_RND_RUNNING, Think_STALEMATE, NoPlayers, RestartRound,
                      StartCompetitiveMatch, RunRound, ReadyRestart
  <1>4. CASE Periodic
    <2>1. cvars' \subseteq cvars
      BY <1>4 DEF Periodic, Periodic_NotDue, Periodic_LimitReached, Periodic_Checks
    <2>2. QED BY <1>1, <2>1
  <1>5. CASE Command
    BY <1>1, <1>5 DEF Command, SetCVar, SwitchTeamsCommand, ScrambleTeamsCommand,
                      TournamentRestartCommand, TeamReadies, TeamUnreadies
  <1>6. CASE Map \/ Players \/ EndFrame
    BY <1>1, <1>6, ScoringChanges
    DEF Map, RoundWin, Players, Die, TeamFills, TeamEmpties, JoinTeam, EndFrame
  <1>7. CASE TimePasses
    BY <1>1, <1>7 DEF TimePasses, StateTimeUp, WaitTimeUp, RestartTimeUp, StalemateTimeUp, MapTimePasses
  <1>8. CASE UNCHANGED vars BY <1>1, <1>8 DEF vars
  <1>9. QED BY <1>2, <1>3, <1>4, <1>5, <1>6, <1>7, <1>8 DEF Next, Think

\* No wait is cancelled in the middle of a sudden death: a tournament ignores the
\* request, and no other server with sudden death is sent it.  On one that is,
\* SetInWaitingForPlayers restores the timer that the sudden death has hidden.
NoCancelledStalemate == Tournament \/ ~StalemateEnable \/ "waitcancel" \notin Commands

LEMMA HudStep ==
  ASSUME NoCancelledStalemate, TypeOK, HudInv, [Next]_vars
  PROVE  GoodHud(SuddenDeath', hud')
  <1>0. GoodHud(SuddenDeath, hud) BY DEF HudInv
  <1>1. CASE UNCHANGED <<hud, roundState>> BY <1>0, <1>1 DEF SuddenDeath
  <1>2. ASSUME hud' = hud, ~SuddenDeath, ~SuddenDeath' PROVE GoodHud(SuddenDeath', hud')
    BY <1>0, <1>2 DEF SuddenDeath
  <1>3. ASSUME NEW t, NEW force, NEW switch, NEW dont, SetWinningTeam(t, force, switch, dont)
        PROVE  GoodHud(SuddenDeath', hud')
    BY <1>0, <1>3, GoodWin DEF SuddenDeath
  <1>4. ASSUME NEW force, NEW switch, SetStalemate(force, switch) PROVE GoodHud(SuddenDeath', hud')
    BY <1>0, <1>4, GoodDraw
  <1>5. ASSUME NEW s, NoPlayers(s) PROVE GoodHud(SuddenDeath', hud')
    BY <1>0, <1>5, GoodLeave DEF NoPlayers, SuddenDeath
  <1>6. ASSUME NEW s, StartCompetitiveMatch(s) PROVE GoodHud(SuddenDeath', hud')
    BY <1>0, <1>6, GoodMatch DEF SuddenDeath
  <1>7. ASSUME ~SuddenDeath, EnterPREROUND(forceMapReset, prevRoundWasWaiting, switchTeams,
                                           scrambleTeams, score, timeLeft, hud)
        PROVE  GoodHud(SuddenDeath', hud')
    BY <1>0, <1>7, GoodPreround DEF SuddenDeath
  <1>8. CASE Think_PREGAME \/ Think_PREROUND \/ Think_GAME_OVER
    BY <1>1, <1>2, <1>8 DEF Think_PREGAME, Think_PREROUND, Think_GAME_OVER, StateThink, hudVars,
                            stateVars, SuddenDeath
  <1>9. CASE Think_STARTGAME
    <2>1. \/ UNCHANGED <<hud, roundState>>
          \/ EnterPREROUND(forceMapReset, prevRoundWasWaiting, switchTeams,
                           scrambleTeams, score, timeLeft, hud)
      BY <1>9 DEF Think_STARTGAME, stateVars
    <2>2. ~SuddenDeath BY <1>9 DEF Think_STARTGAME, StateThink, SuddenDeath
    <2>3. QED BY <1>1, <1>7, <2>1, <2>2
  <1>10. CASE Think_RND_RUNNING
    <2>1. CASE RestartRound("RND_RUNNING")
      <3>1. Restart(inWaiting, switchTeams, scrambleTeams, score, hud)
        BY <2>1 DEF RestartRound
      <3>2. GoodHud(FALSE, StateLeave(hud)) BY <1>0, GoodLeave
      <3>3. QED BY <3>1, <3>2, GoodRestart DEF SuddenDeath
    <2>2. CASE RunRound
      <3>1. \/ UNCHANGED <<hud, roundState>>
            \/ SetStalemate(forceMapReset, FALSE)
            \/ \E t \in Teams : SetWinningTeam(t, TRUE, FALSE, TRUE)
        BY <2>2 DEF RunRound, hudVars, stateVars
      <3>2. QED BY <1>1, <1>3, <1>4, <3>1
    <2>3. QED BY <1>5, <1>6, <1>10, <2>1, <2>2 DEF Think_RND_RUNNING
  <1>11. CASE Think_TEAM_WIN
    <2>1. \/ hud' = hud /\ roundState' \in {roundState, "GAME_OVER", "RND_RUNNING"}
          \/ EnterPREROUND(forceMapReset, prevRoundWasWaiting, switchTeams,
                           scrambleTeams, score, timeLeft, hud)
      BY <1>11 DEF Think_TEAM_WIN, stateVars, GoToIntermission
    <2>2. roundState = "TEAM_WIN" BY <1>11 DEF Think_TEAM_WIN, StateThink
    <2>3. QED BY <1>2, <1>7, <2>1, <2>2 DEF SuddenDeath
  <1>12. CASE Think_STALEMATE
    <2>1. \/ NoPlayers("STALEMATE") \/ StartCompetitiveMatch("STALEMATE")
          \/ UNCHANGED <<hud, roundState>>
          \/ \E t, force, switch : SetWinningTeam(t, force, switch, FALSE)
      BY <1>12 DEF Think_STALEMATE, StalemateDecided, stateVars, hudVars
    <2>2. QED BY <1>1, <1>3, <1>5, <1>6, <2>1
  <1>13. CASE Periodic
    <2>1. CASE Periodic_NotDue
      BY <1>1, <2>1 DEF Periodic_NotDue, stateVars, hudVars
    <2>2. CASE Periodic_LimitReached
      <3>1. \/ hud' = hud /\ roundState' \in {roundState, "GAME_OVER"} /\ roundState # "STALEMATE"
            \/ \E t \in Teams : SetWinningTeam(t, TRUE, FALSE, TRUE)
        BY <2>2, LimitTeamsType DEF Periodic_LimitReached, GoToIntermission, LimitStates, stateVars
      <3>2. QED BY <1>2, <1>3, <3>1 DEF SuddenDeath
    <2>3. CASE Periodic_Checks
      <3> DEFINE started == inWaiting \/ "waitrestart" \in cvars
                 waiting == started /\ ~WaitCancelled
                 timers  == IF started /\ ~waiting THEN RemoveWaitTimer(hud) ELSE hud
      <3>1. roundState' = roundState BY <2>3 DEF Periodic_Checks, stateVars
      <3>2. \/ hud' = timers
            \/ /\ waiting /\ timers.wait = "none"
               /\ \E h \in HideActiveTimer(timers) :
                     hud' = [wait |-> "live", stale |-> h.stale, shown |-> h.shown \cup {"wait"},
                             hidden |-> h.hidden]
        BY <2>3 DEF Periodic_Checks
      <3>3. CASE waiting \/ ~started
        <4>1. timers = hud BY <3>3
        <4> HIDE DEF timers
        <4>2. SuddenDeath \in BOOLEAN BY DEF SuddenDeath
        <4>3. QED BY <1>0, <3>1, <3>2, <4>1, <4>2, GoodWait DEF SuddenDeath
      <3>4. CASE started /\ ~waiting
        <4>1. WaitCancelled BY <3>4
        <4>2. ~SuddenDeath BY <1>0, <4>1 DEF WaitCancelled, HudInv, NoCancelledStalemate, GoodHud
        <4>3. hud' = RemoveWaitTimer(hud) BY <3>2, <3>4
        <4>4. QED BY <1>0, <3>1, <4>2, <4>3, GoodRemove DEF SuddenDeath
      <3>5. QED BY <3>3, <3>4
    <2>4. QED BY <1>13, <2>1, <2>2, <2>3 DEF Periodic
  <1>14. CASE Command
    BY <1>1, <1>14 DEF Command, SetCVar, SwitchTeamsCommand, ScrambleTeamsCommand,
                TournamentRestartCommand, TeamReadies, TeamUnreadies, hudVars, stateVars
  <1>15. CASE Map
    <2>1. \/ UNCHANGED <<hud, roundState>>
          \/ \E t, force, switch : SetWinningTeam(t, force, switch, FALSE)
          \/ \E force, switch : SetStalemate(force, switch)
      BY <1>15, ScoringChanges DEF Map, RoundWin, hudVars, stateVars
    <2>2. QED BY <1>1, <1>3, <1>4, <2>1
  <1>16. CASE Players
    BY <1>1, <1>16 DEF Players, Die, TeamFills, TeamEmpties, JoinTeam, hudVars, stateVars
  <1>17. CASE TimePasses
    BY <1>1, <1>17 DEF TimePasses, StateTimeUp, WaitTimeUp, RestartTimeUp, StalemateTimeUp,
                       MapTimePasses, hudVars, stateVars
  <1>18. CASE EndFrame
    <2>1. hud' = CleanupDeleteList(hud) /\ roundState' = roundState
      BY <1>18 DEF EndFrame, stateVars
    <2>2. SuddenDeath \in BOOLEAN BY DEF SuddenDeath
    <2>3. QED BY <1>0, <2>1, <2>2, GoodCleanup DEF SuddenDeath
  <1>19. CASE UNCHANGED vars
    BY <1>1, <1>19 DEF vars, hudVars, stateVars
  <1>20. QED
    BY <1>8, <1>9, <1>10, <1>11, <1>12, <1>13, <1>14, <1>15, <1>16, <1>17, <1>18, <1>19
    DEF Next, Think

LEMMA HudIsShown ==
  ASSUME TypeOK, WaitTimerInv, GoodHud(SuddenDeath, hud)
  PROVE  TimersShown
  <1>1. hud \in HudRecord BY DEF GoodHud
  <1>2. hud.shown \ Dying(hud) = Lit(hud)
    <2>1. /\ "round" \notin Dying(hud)
          /\ "wait" \in Dying(hud) <=> hud.wait = "dying"
          /\ "stale" \in Dying(hud) <=> hud.stale = "dying"
      BY <1>1 DEF Dying, HudRecord
    <2>2. hud.shown \subseteq {"round", "wait", "stale"} /\ hud.wait \in {"none", "live", "dying"}
          /\ hud.stale \in {"none", "live", "dying"}
      BY <1>1 DEF HudRecord, Timers
    <2>3. QED BY <2>1, <2>2 DEF GoodHud, Lit
  <1>3. Cardinality(Lit(hud)) <= 1
    <2>1. CASE Lit(hud) = {} BY <2>1, FS_EmptySet
    <2>2. CASE Lit(hud) # {}
      <3>1. PICK t \in Lit(hud) : TRUE BY <2>2
      <3>2. Lit(hud) = {t} BY <3>1 DEF GoodHud
      <3>3. Cardinality({t}) = 1 BY FS_Singleton
      <3>4. QED BY <3>2, <3>3
    <2>3. QED BY <2>1, <2>2
  <1>4. hud.hidden \notin hud.shown
    BY <1>1, NoneAssumption DEF GoodHud, HiddenBehind, HudRecord, Timers
  <1>5. MapTimerShown
    BY DEF GoodHud, KeepsRound, WaitTimerInv, MapTimerShown
  <1>6. QED BY <1>2, <1>3, <1>4, <1>5 DEF TimersShown, OneTimerShown

\* HideActiveTimer and RestoreActiveTimer pair up over all waits, restarts, draws and
\* sudden deaths: the map's timer comes back, and never are two timers on display.
THEOREM TimersShownAlways == ASSUME NoCancelledStalemate PROVE Spec => []TimersShown
  <1>1. Init => HudInv /\ WaitTimerInv
    <2> SUFFICES ASSUME Init PROVE HudInv /\ WaitTimerInv OBVIOUS
    <2>1. /\ hud.wait = "none" /\ hud.stale = "none" /\ hud.hidden = None
          /\ hud.shown \subseteq {"round"} /\ (MapTimer => "round" \in hud.shown)
          /\ cvars = {} /\ ~SuddenDeath
      BY DEF Init, SuddenDeath
    <2>2. hud \in HudRecord BY TypeInit DEF TypeOK, HudRecord
    <2>3. QED
      BY <2>1, <2>2, NoneAssumption DEF HudInv, GoodHud, Lit, HiddenBehind, KeepsRound, WaitTimerInv
  <1>2. TypeOK /\ HudInv /\ [Next]_vars => HudInv'
    <2> SUFFICES ASSUME TypeOK, HudInv, [Next]_vars PROVE HudInv' OBVIOUS
    <2>1. GoodHud(SuddenDeath', hud') BY HudStep
    <2>2. ("waitcancel" \in cvars => "waitcancel" \in Commands)' BY CancelStep DEF HudInv
    <2>3. QED BY <2>1, <2>2 DEF HudInv, GoodHud, HiddenBehind, KeepsRound, Lit, SuddenDeath
  <1>3. TypeOK /\ WaitTimerInv /\ [Next]_vars => WaitTimerInv' BY WaitTimerStep
  <1>4. TypeOK /\ WaitTimerInv /\ HudInv => TimersShown BY HudIsShown DEF HudInv
  <1>5. QED BY <1>1, <1>2, <1>3, <1>4, TypeCorrect, PTL DEF Spec

-----------------------------------------------------------------------------
(***************************************************************************)
(* No round starts past a limit.                                           *)
(***************************************************************************)

\* sc and n are below the limits; a score is only held to its limits where a win is
\* what raises it.
BelowLimits(sc, n) ==
    /\ MaxRounds > 0 => n < MaxRounds
    /\ OnlyRoundsScore => \A t \in Teams :
        /\ WinLimit > 0 => sc[t] < WinLimit
        /\ WinDifference > 0 =>
            \/ sc[t] - sc[Other(t)] < WinDifference
            \/ WinDifferenceMin # 0 /\ sc[t] < WinDifferenceMin

\* The strengthening of NoRoundPastLimit: only a win takes such a server to a limit,
\* and a server without sudden death never leaves the win but by testing the limits.
LimitInv ==
    ~Tournament /\ ~StalemateEnable =>
        /\ roundState # "STALEMATE"
        /\ roundState \notin {"TEAM_WIN", "GAME_OVER"} => BelowLimits(score, roundsPlayed)

\* The teams that switch take their scores with them.
LEMMA SwapBelow ==
  ASSUME NEW sc \in [Teams -> Int], NEW n, BelowLimits(sc, n)
  PROVE  BelowLimits(Swap(sc), n)
  BY DEF BelowLimits, Swap, Other, Teams

LEMMA PreroundBelow ==
  ASSUME NEW force, NEW prev, NEW switch, NEW scramble, NEW left, NEW h,
         NEW sc \in [Teams -> Int], NEW n, BelowLimits(sc, n),
         EnterPREROUND(force, prev, switch, scramble, sc, left, h)
  PROVE  BelowLimits(score', n) /\ roundState' = "PREROUND"
  BY SwapBelow DEF EnterPREROUND, RoundRespawn

\* Scores of zero are below every limit.
LEMMA ZeroBelow ==
  ASSUME NEW n, MaxRounds > 0 => n < MaxRounds
  PROVE  BelowLimits([t \in Teams |-> 0], n)
  <1> DEFINE zero == [t \in Teams |-> 0]
  <1>1. \A t \in Teams : zero[t] = 0 /\ zero[Other(t)] = 0 BY DEF Other, Teams
  <1> HIDE DEF zero
  <1>2. BelowLimits(zero, n) BY <1>1, LimitAssumption DEF BelowLimits
  <1>3. QED BY <1>2 DEF zero

LEMMA RestartBelow ==
  ASSUME TypeOK, BelowLimits(score, roundsPlayed),
         NEW waiting, NEW switch, NEW scramble, NEW h,
         Restart(waiting, switch, scramble, score, h)
  PROVE  BelowLimits(score', roundsPlayed') /\ roundState' = "PREROUND"
  <1> DEFINE leaving == StateLeave(h)
             stopped == IF waiting THEN RemoveWaitTimer(leaving) ELSE leaving
             sc0 == IF resetTeamScores THEN [t \in Teams |-> 0] ELSE score
  <1>1. EnterPREROUND(forceMapReset, waiting, switch, scramble, sc0, "far", stopped)
    BY DEF Restart
  <1>2. sc0 \in [Teams -> Int] BY DEF TypeOK
  <1>3. roundsPlayed' = RoundsAfterReset BY DEF Restart
  <1>4. BelowLimits(sc0, RoundsAfterReset)
    <2>1. MaxRounds > 0 => RoundsAfterReset < MaxRounds
      BY LimitAssumption DEF RoundsAfterReset, BelowLimits
    <2>2. CASE resetTeamScores BY <2>1, <2>2, ZeroBelow
    <2>3. CASE ~resetTeamScores BY <2>1, <2>3 DEF BelowLimits
    <2>4. QED BY <2>2, <2>3
  <1> HIDE DEF stopped, sc0
  <1>5. QED BY <1>1, <1>2, <1>3, <1>4, PreroundBelow

\* CheckWinLimit finds a team just if one is not below the limits of the scores.
LEMMA LimitTeamsBelow ==
  ASSUME TypeOK
  PROVE  LimitTeams = {} <=>
            \A t \in Teams :
                /\ WinLimit > 0 => score[t] < WinLimit
                /\ WinDifference > 0 =>
                    \/ score[t] - score[Other(t)] < WinDifference
                    \/ WinDifferenceMin # 0 /\ score[t] < WinDifferenceMin
  <1>1. LimitTeams = {} <=> \A t \in Teams : ~WinLimitReached(t) /\ ~FarAhead(t)
    BY DEF LimitTeams
  <1>2. ASSUME NEW t \in Teams
        PROVE  /\ WinLimitReached(t) <=> WinLimit > 0 /\ ~(score[t] < WinLimit)
               /\ FarAhead(t) <=>
                    /\ WinDifference > 0
                    /\ ~(score[t] - score[Other(t)] < WinDifference)
                    /\ ~(WinDifferenceMin # 0 /\ score[t] < WinDifferenceMin)
    <2>1. score[t] \in Int /\ score[Other(t)] \in Int BY DEF TypeOK, Other, Teams
    <2>2. QED BY <2>1, LimitAssumption DEF WinLimitReached, FarAhead
  <1>3. QED BY <1>1, <1>2

\* The tests made when a win is over are the limits.
LEMMA NotDecidedBelow ==
  ASSUME TypeOK, ~Tournament, NEW timeUp, ~MatchDecided(timeUp)
  PROVE  BelowLimits(score, roundsPlayed)
  <1>1. LimitTeams = {} /\ ~(MaxRounds > 0 /\ roundsPlayed >= MaxRounds)
    BY DEF MatchDecided, CheckWinLimit, CheckMaxRounds, IsInPreMatch
  <1>2. MaxRounds > 0 => roundsPlayed < MaxRounds BY <1>1, LimitAssumption DEF TypeOK
  <1>3. QED BY <1>1, <1>2, LimitTeamsBelow DEF BelowLimits

LEMMA LimitStep == ASSUME TypeOK, LimitInv, [Next]_vars PROVE LimitInv'
  <1> SUFFICES ASSUME ~Tournament, ~StalemateEnable PROVE LimitInv'
    BY DEF LimitInv
  <1>1. /\ roundState # "STALEMATE"
        /\ roundState \notin {"TEAM_WIN", "GAME_OVER"} => BelowLimits(score, roundsPlayed)
    BY DEF LimitInv
  <1>2. ASSUME UNCHANGED <<score, roundsPlayed>>, roundState' = roundState PROVE LimitInv'
    BY <1>1, <1>2 DEF LimitInv, BelowLimits
  <1>3. ASSUME UNCHANGED <<score, roundsPlayed>>, roundState \notin {"TEAM_WIN", "GAME_OVER"},
               roundState' # "STALEMATE"
        PROVE  LimitInv'
    BY <1>1, <1>3 DEF LimitInv, BelowLimits
  <1>4. ASSUME roundState' \in {"TEAM_WIN", "GAME_OVER"} PROVE LimitInv'
    BY <1>4 DEF LimitInv
  <1>5. ASSUME BelowLimits(score', roundsPlayed'), roundState' = "PREROUND" PROVE LimitInv'
    BY <1>5 DEF LimitInv
  <1>6. ASSUME NEW t, NEW force, NEW switch, NEW dont, SetWinningTeam(t, force, switch, dont)
        PROVE  LimitInv'
    BY <1>4, <1>6, WinTimers
  <1>7. ASSUME NEW force, NEW switch, SetStalemate(force, switch) PROVE LimitInv'
    BY <1>2, <1>6, <1>7 DEF SetStalemate, IsInPreMatch
  <1>8. score \in [Teams -> Int] BY DEF TypeOK
  <1>9. CASE Think_PREGAME \/ Think_PREROUND \/ Think_GAME_OVER
    BY <1>2, <1>3, <1>9 DEF Think_PREGAME, Think_PREROUND, Think_GAME_OVER, StateThink, stateVars,
                            resultVars
  <1>10. CASE Think_STARTGAME
    <2>1. roundsPlayed' = roundsPlayed /\ roundState = "STARTGAME"
      BY <1>10 DEF Think_STARTGAME, StateThink
    <2>2. \/ UNCHANGED <<score, roundState>>
          \/ EnterPREROUND(forceMapReset, prevRoundWasWaiting, switchTeams,
                           scrambleTeams, score, timeLeft, hud)
      BY <1>10 DEF Think_STARTGAME, stateVars
    <2>3. QED BY <1>1, <1>2, <1>5, <1>8, <2>1, <2>2, PreroundBelow
  <1>11. CASE Think_RND_RUNNING
    <2>1. CASE NoPlayers("RND_RUNNING")
      BY <1>3, <2>1 DEF NoPlayers, StateThink, resultVars
    <2>2. CASE RestartRound("RND_RUNNING")
      <3>1. /\ Restart(inWaiting, switchTeams, scrambleTeams, score, hud)
            /\ roundState = "RND_RUNNING"
        BY <2>2 DEF RestartRound, StateThink
      <3>2. QED BY <1>1, <1>5, <3>1, RestartBelow
    <2>3. CASE RunRound
      <3>1. \/ UNCHANGED <<score, roundsPlayed, roundState>>
            \/ SetStalemate(forceMapReset, FALSE)
            \/ \E t \in Teams : SetWinningTeam(t, TRUE, FALSE, TRUE)
        BY <2>3 DEF RunRound, resultVars, stateVars
      <3>2. QED BY <1>2, <1>6, <1>7, <3>1
    <2>4. QED BY <1>11, <2>1, <2>2, <2>3 DEF Think_RND_RUNNING, StartCompetitiveMatch
  <1>12. CASE Think_TEAM_WIN
    <2>1. roundsPlayed' = roundsPlayed BY <1>12 DEF Think_TEAM_WIN
    <2>2. \/ UNCHANGED <<score, roundState>>
          \/ roundState' = "GAME_OVER"
          \/ \E timeUp \in CheckTimeLimit :
                /\ ~MatchDecided(timeUp)
                /\ EnterPREROUND(forceMapReset, prevRoundWasWaiting, switchTeams,
                                 scrambleTeams, score, timeLeft, hud)
      BY <1>12 DEF Think_TEAM_WIN, GoToIntermission, stateVars
    <2>3. QED BY <1>2, <1>4, <1>5, <1>8, <2>1, <2>2, PreroundBelow, NotDecidedBelow
  <1>13. CASE Think_STALEMATE
    BY <1>1, <1>13 DEF Think_STALEMATE, NoPlayers, StartCompetitiveMatch, StateThink
  <1>14. CASE Periodic
    <2>1. \/ UNCHANGED <<score, roundsPlayed, roundState>>
          \/ roundState' = "GAME_OVER"
          \/ \E t \in Teams : SetWinningTeam(t, TRUE, FALSE, TRUE)
      BY <1>14, LimitTeamsType DEF Periodic, Periodic_NotDue, Periodic_LimitReached, Periodic_Checks,
                   GoToIntermission, resultVars, stateVars
    <2>2. QED BY <1>2, <1>4, <1>6, <2>1
  <1>15. CASE Command
    BY <1>2, <1>15 DEF Command, SetCVar, SwitchTeamsCommand, ScrambleTeamsCommand,
                TournamentRestartCommand, TeamReadies, TeamUnreadies, resultVars, stateVars
  <1>16. CASE Map
    <2>1. CASE Scoring
      <3>1. UNCHANGED <<roundsPlayed, roundState>> /\ ~OnlyRoundsScore
        BY <2>1, ScoringChanges DEF stateVars
      <3>2. QED BY <1>1, <3>1 DEF LimitInv, BelowLimits
    <2>2. \/ Scoring
          \/ \E t, force, switch : SetWinningTeam(t, force, switch, FALSE)
          \/ \E force, switch : SetStalemate(force, switch)
      BY <1>16 DEF Map, RoundWin
    <2>3. QED BY <1>6, <1>7, <2>1, <2>2
  <1>17. CASE Players \/ EndFrame
    BY <1>2, <1>17 DEF Players, Die, TeamFills, TeamEmpties, JoinTeam, EndFrame, resultVars,
                       stateVars
  <1>18. CASE TimePasses
    BY <1>2, <1>18 DEF TimePasses, StateTimeUp, WaitTimeUp, RestartTimeUp, StalemateTimeUp,
                       MapTimePasses, resultVars, stateVars
  <1>19. CASE UNCHANGED vars BY <1>2, <1>19 DEF vars, resultVars, stateVars
  <1>20. QED
    BY <1>9, <1>10, <1>11, <1>12, <1>13, <1>14, <1>15, <1>16, <1>17, <1>18, <1>19 DEF Next, Think

\* For every value of the limits: a casual server without sudden death starts no round
\* past mp_maxrounds, nor, where only rounds score, past mp_winlimit or mp_windifference.
THEOREM NoRoundPastLimitAlways == Spec => []NoRoundPastLimit
  <1>1. Init => LimitInv
    BY LimitAssumption, ZeroBelow DEF Init, LimitInv
  <1>2. TypeOK /\ LimitInv /\ [Next]_vars => LimitInv' BY LimitStep
  <1>3. TypeOK /\ LimitInv => NoRoundPastLimit
    <2> SUFFICES ASSUME TypeOK, ~Tournament, ~StalemateEnable, roundState = "PREROUND",
                        BelowLimits(score, roundsPlayed)
                 PROVE  ~CheckMaxRounds /\ (OnlyRoundsScore => ~CheckWinLimit)
      BY DEF LimitInv, NoRoundPastLimit
    <2>1. ~CheckMaxRounds BY LimitAssumption DEF BelowLimits, CheckMaxRounds, TypeOK
    <2>2. OnlyRoundsScore => ~CheckWinLimit BY LimitTeamsBelow DEF BelowLimits, CheckWinLimit
    <2>3. QED BY <2>1, <2>2
  <1>4. QED BY <1>1, <1>2, <1>3, TypeCorrect, PTL DEF Spec

-----------------------------------------------------------------------------
(***************************************************************************)
(* A tournament match starts from zero.                                    *)
(***************************************************************************)

\* The strengthening of MatchStartsClean: no other request clears a reset flag, for the
\* automatic scramble is not for tournaments.
CleanInv == KeepsNothing => resetTeamScores /\ resetRoundsPlayed

LEMMA CleanInvStep == ASSUME CleanInv, [Next]_vars PROVE CleanInv'
  <1> SUFFICES ASSUME KeepsNothing PROVE resetTeamScores' /\ resetRoundsPlayed'
    BY DEF CleanInv, KeepsNothing
  <1>1. resetTeamScores /\ resetRoundsPlayed BY DEF CleanInv
  <1>2. Tournament /\ "switchteams" \notin Commands /\ "scrambleteams2" \notin Commands
    BY DEF KeepsNothing
  <1> DEFINE Kept == UNCHANGED <<resetTeamScores, resetRoundsPlayed>>
             Set == resetTeamScores' = TRUE /\ resetRoundsPlayed' = TRUE
  <1>3. CASE Think_PREGAME \/ Think_STARTGAME \/ Think_PREROUND \/ Think_GAME_OVER
    <2>1. Kept
      BY <1>3 DEF Think_PREGAME, Think_STARTGAME, Think_PREROUND, Think_GAME_OVER, flagVars
    <2>2. QED BY <1>1, <2>1
  <1>4. CASE Think_RND_RUNNING
    <2>1. Kept \/ Set
      BY <1>4 DEF Think_RND_RUNNING, NoPlayers, RestartRound, StartCompetitiveMatch, RunRound,
                  ReadyRestart, flagVars
    <2>2. QED BY <1>1, <2>1
  <1>5. CASE Think_TEAM_WIN
    <2>1. Kept BY <1>5 DEF Think_TEAM_WIN, flagVars
    <2>2. QED BY <1>1, <2>1
  <1>6. CASE Think_STALEMATE
    <2>1. Kept \/ Set
      BY <1>2, <1>6 DEF Think_STALEMATE, NoPlayers, StartCompetitiveMatch, StalemateDecided,
                        AutoScramble, ReadyRestart, flagVars
    <2>2. QED BY <1>1, <2>1
  <1>7. CASE Periodic
    <2>1. Kept
      BY <1>7 DEF Periodic, Periodic_NotDue, Periodic_LimitReached, Periodic_Checks, flagVars
    <2>2. QED BY <1>1, <2>1
  <1>8. CASE Command
    <2>1. CASE \E c \in {"scrambleteams", "scrambleteams2"} : ScrambleTeamsCommand(c)
      BY <1>1, <1>2, <2>1 DEF ScrambleTeamsCommand
    <2>2. CASE SwitchTeamsCommand BY <1>2, <2>2 DEF SwitchTeamsCommand
    <2>3. Kept \/ SwitchTeamsCommand
               \/ \E c \in {"scrambleteams", "scrambleteams2"} : ScrambleTeamsCommand(c)
      BY <1>8 DEF Command, SetCVar, TournamentRestartCommand, TeamReadies, TeamUnreadies, flagVars
    <2>4. QED BY <1>1, <2>1, <2>2, <2>3
  <1>9. CASE Map
    <2>1. Kept BY <1>2, <1>9, ScoringChanges DEF Map, RoundWin, AutoScramble, flagVars
    <2>2. QED BY <1>1, <2>1
  <1>10. CASE Players \/ EndFrame
    <2>1. Kept BY <1>10 DEF Players, Die, TeamFills, TeamEmpties, JoinTeam, EndFrame, flagVars
    <2>2. QED BY <1>1, <2>1
  <1>11. CASE TimePasses
    <2>1. Kept
      BY <1>11 DEF TimePasses, StateTimeUp, WaitTimeUp, RestartTimeUp, StalemateTimeUp,
                   MapTimePasses, flagVars
    <2>2. QED BY <1>1, <2>1
  <1>12. CASE UNCHANGED vars
    <2>1. Kept BY <1>12 DEF vars, flagVars
    <2>2. QED BY <1>1, <2>1
  <1>13. QED
    BY <1>3, <1>4, <1>5, <1>6, <1>7, <1>8, <1>9, <1>10, <1>11, <1>12 DEF Next, Think

\* A restart that resets both leaves nothing.
LEMMA RestartFromZero ==
  ASSUME resetTeamScores, resetRoundsPlayed,
         NEW waiting, NEW switch, NEW scramble, NEW h,
         Restart(waiting, switch, scramble, score, h)
  PROVE  roundsPlayed' = 0 /\ \A t \in Teams : score'[t] = 0
  <1> DEFINE leaving == StateLeave(h)
             stopped == IF waiting THEN RemoveWaitTimer(leaving) ELSE leaving
             zero == [t \in Teams |-> 0]
  <1>1. EnterPREROUND(forceMapReset, waiting, switch, scramble, zero, "far", stopped)
    BY DEF Restart
  <1>2. roundsPlayed' = 0 BY DEF Restart, RoundsAfterReset
  <1> HIDE DEF stopped
  <1>3. score' = zero \/ score' = Swap(zero) BY <1>1 DEF EnterPREROUND, RoundRespawn
  <1>4. QED BY <1>2, <1>3 DEF Swap, Other, Teams

\* Only the restart that begins a match ends the wait of a tournament.
LEMMA WaitEndsInRestart ==
  ASSUME Tournament, inWaiting, ~inWaiting', [Next]_vars
  PROVE  \E s \in States : StartCompetitiveMatch(s)
  <1>1. ~UNCHANGED waitVars BY DEF waitVars
  <1>2. CASE Think_PREGAME \/ Think_PREROUND \/ Think_GAME_OVER \/ Think_STARTGAME
    BY <1>1, <1>2 DEF Think_PREGAME, Think_PREROUND, Think_GAME_OVER, Think_STARTGAME
  <1>3. CASE Think_RND_RUNNING
    BY <1>1, <1>3 DEF Think_RND_RUNNING, NoPlayers, RestartRound, RunRound, States
  <1>4. CASE Think_TEAM_WIN BY <1>1, <1>4 DEF Think_TEAM_WIN, RestartTournament
  <1>5. CASE Think_STALEMATE BY <1>1, <1>5 DEF Think_STALEMATE, NoPlayers, States
  <1>6. CASE Periodic
    <2>1. CASE Periodic_NotDue \/ Periodic_LimitReached
      BY <1>1, <2>1 DEF Periodic_NotDue, Periodic_LimitReached
    <2>2. CASE Periodic_Checks BY <2>2 DEF Periodic_Checks, WaitCancelled
    <2>3. QED BY <1>6, <2>1, <2>2 DEF Periodic
  <1>7. CASE Command
    BY <1>1, <1>7 DEF Command, SetCVar, SwitchTeamsCommand, ScrambleTeamsCommand,
                TournamentRestartCommand, RestartTournament, TeamReadies, TeamUnreadies
  <1>8. CASE Map BY <1>1, <1>8, ScoringChanges DEF Map, RoundWin
  <1>9. CASE Players \/ EndFrame
    BY <1>1, <1>9 DEF Players, Die, TeamFills, TeamEmpties, JoinTeam, EndFrame
  <1>10. CASE TimePasses
    <2>1. inWaiting' = inWaiting
      BY <1>10 DEF TimePasses, StateTimeUp, WaitTimeUp, RestartTimeUp, StalemateTimeUp,
                   MapTimePasses, waitVars
    <2>2. QED BY <2>1
  <1>11. CASE UNCHANGED vars BY <1>1, <1>11 DEF vars
  <1>12. QED
    BY <1>2, <1>3, <1>4, <1>5, <1>6, <1>7, <1>8, <1>9, <1>10, <1>11 DEF Next, Think

\* Whatever happened in the match before, a tournament match whose server nobody asked
\* to keep the scores begins with no rounds played and no rounds won.
THEOREM MatchStartsCleanAlways == Spec => MatchStartsClean
  <1>1. Init => CleanInv BY DEF Init, CleanInv
  <1>2. CleanInv /\ [Next]_vars => CleanInv' BY CleanInvStep
  <1>3. ASSUME CleanInv, [Next]_vars, KeepsNothing, inWaiting, ~inWaiting'
        PROVE  StartsFromZero
    <2>1. PICK s \in States : StartCompetitiveMatch(s)
      BY <1>3, WaitEndsInRestart DEF KeepsNothing
    <2> DEFINE ended == IF inWaiting THEN RemoveWaitTimer(hud) ELSE hud
               before == IF forceMapReset \/ prevRoundWasWaiting THEN FreshHud(timeLeft) ELSE ended
    <2>2. Restart(FALSE, switchTeams /\ ~PreventSwitch, scrambleTeams, score, before)
      BY <2>1 DEF StartCompetitiveMatch
    <2>3. resetTeamScores /\ resetRoundsPlayed BY <1>3 DEF CleanInv
    <2> HIDE DEF before
    <2>4. QED BY <2>2, <2>3, RestartFromZero DEF StartsFromZero
  <1>4. CleanInv /\ [Next]_vars => [KeepsNothing /\ inWaiting /\ ~inWaiting' => StartsFromZero]_vars
    BY <1>3
  <1>5. QED BY <1>1, <1>2, <1>4, PTL DEF Spec, MatchStartsClean
=============================================================================
