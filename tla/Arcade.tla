-------------------------------- MODULE Arcade --------------------------------
(***************************************************************************)
(* The Top-100 board of one boot game (game/arcade_leaderboard_store), the *)
(* single score that an older firmware kept in its place                   *)
(* (game/easter_egg_score_store), and the screens around a run             *)
(* (game/arcade_shell).  A commit replaces the image or leaves it alone.   *)
(***************************************************************************)
EXTENDS Integers, FiniteSets, SequencesExt

CONSTANTS
  MaxEntries,   \* LeaderboardTable::kMaximumEntries
  VisibleRows,  \* kVisibleLeaderboardRows
  Letters,      \* size of kInitialAlphabet
  NameLength,   \* initials of a name
  MaxScore,     \* bound: scores are 0..MaxScore
  MaxRuns,      \* bound: names entered since the board was cleared
  Outcomes,     \* what commits may do: subset of {"ok", "failed", "late"}
  NoRecord

ArcadeAssumption ==
  /\ {MaxEntries, VisibleRows, Letters, NameLength} \subseteq Nat \ {0}
  /\ {MaxScore, MaxRuns} \subseteq Nat /\ Outcomes \subseteq {"ok", "failed", "late"}

VARIABLES
  record,     \* the board in the image: NoRecord or a sequence of entries
  legacy,     \* the older single score: NoRecord or an entry
  mode,       \* "off", "clock" (no game at this boot), or the shell's screen
  table,      \* table_: the shell's copy of the board
  pending,    \* pendingScore_
  initials,   \* initials_, as places in the alphabet
  position,   \* initialPosition_
  letter,     \* alphabetIndex_
  scroll,     \* leaderboardScroll_
  rank,       \* highlightedRank_, counted from 1; 0 for none
  history     \* every entry the board accepted since it was cleared, in order

vars == <<record, legacy, mode, table, pending, initials, position, letter, scroll, rank, history>>
shell == <<table, pending, initials, position, letter, scroll, rank>>
Names == [1..NameLength -> 0..Letters - 1]
FirstName == [i \in 1..NameLength |-> 0]

-----------------------------------------------------------------------------
\* loadLegacyFallback; a score of zero is no score.
Fallback == IF legacy = NoRecord THEN <<>>
            ELSE IF legacy.score = 0 THEN <<>> ELSE <<legacy>>

\* Mutant: an empty board falls back to the older score.
LoadUnlessEmpty == IF record \in {NoRecord, <<>>} THEN Fallback ELSE record

Load == IF record = NoRecord THEN Fallback ELSE record

\* qualifyingRank, counted from 1; 0 where the code answers -1.
QualifyingRank(score, board) ==
  IF score = 0 THEN 0
  ELSE LET lower == {i \in DOMAIN board : score > board[i].score}
       IN  IF lower # {} THEN CHOOSE i \in lower : \A j \in lower : i <= j
           ELSE IF Len(board) < MaxEntries THEN Len(board) + 1 ELSE 0

Inserted(board, i, entry) ==
  LET longer == InsertAt(board, i, entry)
  IN  SubSeq(longer, 1, IF Len(longer) <= MaxEntries THEN Len(longer) ELSE MaxEntries)

\* save(): the image after a commit with outcome o.
Saved(o, board) == IF o = "failed" THEN record ELSE board

\* The rows renderLeaderboard draws.
Shown == {i \in DOMAIN table : i - 1 \in scroll..scroll + VisibleRows - 1}

LastScroll(board) == IF Len(board) <= VisibleRows THEN 0 ELSE Len(board) - VisibleRows
Clamp(x, low, high) == IF x < low THEN low ELSE IF x > high THEN high ELSE x

\* setLeaderboardScrollAround: r - 3 leaves two rows above rank r.
ScrollAround(r, board) == IF r = 0 THEN 0 ELSE Clamp(r - 3, 0, LastScroll(board))

-----------------------------------------------------------------------------
Rest ==
  /\ table = <<>> /\ pending = 0 /\ initials = FirstName /\ position = 1
  /\ letter = 0 /\ scroll = 0 /\ rank = 0

Init ==
  /\ record = NoRecord /\ legacy \in {NoRecord} \cup [score : 0..MaxScore, name : {FirstName}]
  /\ mode = "off" /\ Rest /\ history = Fallback

\* ArcadeShell::begin
Begin ==
  /\ table' = Load' /\ pending' = 0 /\ initials' = FirstName /\ position' = 1
  /\ letter' = 0 /\ scroll' = 0 /\ rank' = 0

\* The boot with its Easter egg: markStarted makes the record durable.
BootGame(o) ==
  /\ mode = "off" /\ mode' = "Intro"
  /\ record' = IF record = NoRecord THEN Saved(o, Fallback) ELSE record
  /\ UNCHANGED <<legacy, history>> /\ Begin

BootClock == mode = "off" /\ mode' = "clock" /\ UNCHANGED <<record, legacy, history>> /\ UNCHANGED shell

PowerLoss ==
  /\ mode # "off" /\ mode' = "off"
  /\ table' = <<>> /\ pending' = 0 /\ initials' = FirstName /\ position' = 1
  /\ letter' = 0 /\ scroll' = 0 /\ rank' = 0
  /\ UNCHANGED <<record, legacy, history>>

StartRun ==
  /\ mode = "Intro" /\ mode' = "Playing"
  /\ UNCHANGED <<record, legacy, history>> /\ UNCHANGED shell

\* The game is over: finishRun.
FinishRun(score) ==
  /\ mode = "Playing"
  /\ pending' = score /\ table' = Load
  /\ LET r == QualifyingRank(score, Load)
     IN  /\ rank' = r
         /\ mode' = IF r # 0 THEN "NameEntry" ELSE "Leaderboard"
         /\ IF r # 0
            THEN initials' = FirstName /\ position' = 1 /\ letter' = 0 /\ UNCHANGED scroll
            ELSE scroll' = 0 /\ UNCHANGED <<initials, position, letter>>
  /\ UNCHANGED <<record, legacy, history>>

TurnLetter(delta) ==
  /\ mode = "NameEntry"
  /\ letter' = (letter + delta) % Letters
  /\ initials' = [initials EXCEPT ![position] = letter']
  /\ UNCHANGED <<record, legacy, mode, table, pending, position, scroll, rank, history>>

NextInitial ==
  /\ mode = "NameEntry" /\ position < NameLength
  /\ position' = position + 1 /\ letter' = 0
  /\ UNCHANGED <<record, legacy, mode, table, pending, initials, scroll, rank, history>>

\* The last initial: insertAndSave, then the board as the image has it.
EnterName(o) ==
  /\ mode = "NameEntry" /\ position = NameLength /\ Len(history) < MaxRuns
  /\ LET entry == [score |-> pending, name |-> initials]
         r == QualifyingRank(pending, Load)
     IN  /\ record' = IF r = 0 THEN record ELSE Saved(o, Inserted(Load, r, entry))
         /\ rank' = IF o = "ok" THEN r ELSE 0
         /\ history' = IF r = 0 \/ o = "failed" THEN history ELSE Append(history, entry)
  /\ UNCHANGED <<legacy, pending, initials>>
  /\ table' = Load' /\ scroll' = ScrollAround(rank', Load')
  /\ mode' = "Leaderboard" /\ position' = position + 1 /\ letter' = 0

Scroll(delta) ==
  /\ mode = "Leaderboard" /\ Len(table) > VisibleRows
  /\ scroll' = Clamp(scroll + delta, 0, LastScroll(table))
  /\ UNCHANGED <<record, legacy, mode, table, pending, initials, position, letter, rank, history>>

RestartRun ==
  /\ mode = "Leaderboard" /\ mode' = "Playing" /\ rank' = 0
  /\ UNCHANGED <<record, legacy, table, pending, initials, position, letter, scroll, history>>

\* RESET HI-SCORES in the settings, which appears once there is a record.
Clear(o) ==
  /\ mode = "clock" /\ record # NoRecord
  /\ record' = Saved(o, <<>>)
  /\ history' = IF o = "failed" THEN history ELSE <<>>
  /\ UNCHANGED <<legacy, mode>> /\ UNCHANGED shell

\* The whole image is erased, the older score with it.
FactoryReset(o) ==
  /\ mode = "clock" /\ o # "failed"
  /\ record' = NoRecord /\ legacy' = NoRecord /\ history' = <<>>
  /\ UNCHANGED mode /\ UNCHANGED shell

Next ==
  \/ BootClock \/ PowerLoss \/ StartRun \/ NextInitial \/ RestartRun
  \/ \E score \in 0..MaxScore : FinishRun(score)
  \/ \E delta \in {-1, 1} : TurnLetter(delta) \/ Scroll(delta)
  \/ \E o \in Outcomes : BootGame(o) \/ EnterName(o) \/ Clear(o) \/ FactoryReset(o)

Spec == Init /\ [][Next]_vars

-----------------------------------------------------------------------------
(* Properties *)

\* The reference definition of the board: one place for every entry, the higher
\* score ahead of the lower and the earlier entry ahead of a later equal one.
Ahead(entries, j, i) ==
  \/ entries[j].score > entries[i].score
  \/ entries[j].score = entries[i].score /\ j < i
Place(entries, i) == 1 + Cardinality({j \in DOMAIN entries : Ahead(entries, j, i)})

\* The board is the top of its history, whatever the order of the scores, with
\* ties kept in the order they were played, through failed and late commits,
\* power cycles and the take-over of the older score, which a cleared board
\* never brings back.
BoardIsTopOfHistory ==
  /\ Len(Load) = IF Len(history) <= MaxEntries THEN Len(history) ELSE MaxEntries
  /\ \A i \in DOMAIN history :
       Place(history, i) <= MaxEntries => Load[Place(history, i)] = history[i]

=============================================================================
