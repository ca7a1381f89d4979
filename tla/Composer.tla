------------------------------- MODULE Composer -------------------------------
(***************************************************************************)
(* The draft of the chat composer (composer/index, state, slash,           *)
(* attachments, slash-commands) and everyone who writes it: the keyboard,  *)
(* a dictated transcript, a suggestion, a command that prefills, and a     *)
(* correction that failed.  A draft is a sequence of Words and commands;   *)
(* each word is entered once, so that its fate can be followed.            *)
(***************************************************************************)
EXTENDS Naturals, Sequences, FiniteSets

CONSTANTS Words, MaxLength, MaxFiles, MaxTurns

VARIABLE composer

C == composer
\* The registry has a command that runs and one that Wave refuses; a skill is
\* known from the gateway's catalog only, and a partial token from nowhere.
Registry == {"/title", "/config"}
Commands == Registry \cup {"/skill", "/"}
NoCommand == [kind |-> "none", words |-> {}]

\* Files and commands, or dictation: one composer at a time.
Init ==
  \E part \in {"commands", "dictation"} :
  composer = [part |-> part, text |-> <<>>, entered |-> {}, files |-> 0,
              catalog |-> "unseen", slash |-> NoCommand, mic |-> "idle",
              fix |-> <<>>, correcting |-> FALSE,
              turn |-> "idle", turns |-> 0, cancelling |-> FALSE, prompt |-> FALSE,
              delivered |-> {}, lost |-> {}, unanswered |-> {}]

WordsOf(text) == {text[i] : i \in DOMAIN text} \cap Words

\* The screen calls the composer busy while a turn runs; the loop of the chat
\* is busy until the turn's reconciliation is over.
Busy(c) == c.turn = "running"
Editable(c) == ~c.cancelling /\ ~c.correcting

----------------------------------------------------------------------------
(* Writing the draft.                                                      *)
Type(w) ==
  /\ Editable(C) /\ w \notin C.entered /\ Len(C.text) < MaxLength
  /\ composer' = [C EXCEPT !.text = Append(@, w), !.entered = @ \cup {w}]

\* A slash opens the trigger, and the first one asks for the catalog.
TypeCommand(cmd) ==
  /\ C.part = "commands" /\ Editable(C) /\ Len(C.text) < MaxLength
  /\ \A i \in DOMAIN C.text : C.text[i] \notin Commands
  /\ composer' = [C EXCEPT !.text = Append(@, cmd),
                           !.catalog = IF @ = "unseen" THEN "asked" ELSE @]

Erase ==
  /\ Editable(C) /\ C.text # <<>>
  /\ LET kept == SubSeq(C.text, 1, Len(C.text) - 1)
     IN composer' = [C EXCEPT !.text = kept,
                              !.lost = @ \cup (WordsOf(C.text) \ WordsOf(kept))]

\* A suggestion replaces the token the caret is in and keeps what follows.
Accept(cmd) ==
  /\ Editable(C) /\ (cmd = "/skill" => C.catalog = "known")
  /\ \E i \in DOMAIN C.text :
       /\ C.text[i] = "/" /\ (i > 1 => cmd = "/skill")
       /\ composer' = [C EXCEPT !.text[i] = cmd]

CatalogAnswers ==
  /\ C.catalog = "asked"
  /\ \E state \in {"known", "failed"} : composer' = [C EXCEPT !.catalog = state]

StartDictation ==
  C.part = "dictation" /\ C.mic = "idle" /\ composer' = [C EXCEPT !.mic = "recording"]
StopDictation == C.mic = "recording" /\ composer' = [C EXCEPT !.mic = "transcribing"]

\* The transcript joins the draft of the moment it arrives.
Transcribed(w) ==
  /\ C.mic = "transcribing" /\ w \notin C.entered
  /\ composer' = [C EXCEPT !.mic = "idle", !.text = Append(@, w), !.entered = @ \cup {w}]

NothingHeard == C.mic = "transcribing" /\ composer' = [C EXCEPT !.mic = "idle"]

\* A file comes back from the system's picker and fits, or it is refused.
AddFile ==
  C.part = "commands" /\ C.files < MaxFiles /\ composer' = [C EXCEPT !.files = @ + 1]
RemoveFile == C.files > 0 /\ composer' = [C EXCEPT !.files = @ - 1]

----------------------------------------------------------------------------
(* Submitting it.                                                          *)
\* The client's own commands first, then what the catalog, once known, says.
Resolution(c) ==
  IF c.text = <<>> \/ Head(c.text) \notin Commands \ {"/"} THEN "chat"
  ELSE IF Head(c.text) = "/title" THEN "title"
  ELSE IF Head(c.text) = "/config" \/ c.catalog = "failed" THEN "unavailable"
  ELSE IF c.catalog = "known" THEN "execute"
  ELSE "chat"

IsCommand(c) == c.files = 0 /\ Resolution(c) # "chat"
HasWords(c) == c.text # <<>>

\* The trailing button's lane.
Action(c) ==
  IF IsCommand(c) THEN "run"
  ELSE IF c.correcting THEN "correction-loading"
  ELSE IF Busy(c) /\ ~c.cancelling /\ ~c.prompt /\ c.files = 0 /\ HasWords(c) THEN "correct"
  ELSE IF Busy(c) THEN "stop"
  ELSE IF HasWords(c) THEN "send"
  ELSE "live"

\* A command leaves the draft; one that is refused on the spot shows why.
RunSlash ==
  /\ IsCommand(C) /\ C.slash = NoCommand
  /\ composer' = [C EXCEPT !.text = <<>>,
                           !.slash = [kind |-> Resolution(C), words |-> WordsOf(C.text)]]

\* What the chat is handed; it refuses, silently, while its loop is busy or a
\* correction is out.
Chat(c, words) ==
  IF c.turn # "idle" \/ c.correcting \/ c.turns = MaxTurns THEN [c EXCEPT !.lost = @ \cup words]
  ELSE [c EXCEPT !.turn = "running", !.turns = @ + 1, !.delivered = @ \cup words]

Send ==
  /\ ~IsCommand(C) /\ HasWords(C) /\ ~Busy(C)
  /\ composer' = [Chat(C, WordsOf(C.text)) EXCEPT !.text = <<>>, !.files = 0]

Correct ==
  /\ ~IsCommand(C) /\ HasWords(C) /\ Busy(C) /\ ~C.cancelling /\ ~C.correcting
  /\ ~C.prompt /\ C.files = 0
  /\ composer' = [C EXCEPT !.text = <<>>, !.fix = C.text, !.correcting = TRUE]

Stop ==
  /\ Action(C) = "stop" /\ ~C.cancelling
  /\ composer' = [C EXCEPT !.cancelling = TRUE]

----------------------------------------------------------------------------
(* Answers.                                                                *)
Corrected(c) == [c EXCEPT !.fix = <<>>, !.correcting = FALSE]

CorrectionTaken ==
  /\ C.correcting
  /\ composer' = [Corrected(C) EXCEPT !.delivered = @ \cup WordsOf(C.fix)]

\* The failed draft comes back whatever was written since.
Restored_Always(current, failed) == failed

Restored(current, failed) == IF current = <<>> THEN failed ELSE current

\* A failed correction comes back to an empty draft; a newer draft stays.
Returned(c) ==
  [Corrected(c) EXCEPT !.text = Restored(@, c.fix),
                       !.lost = IF c.text = <<>> THEN @ ELSE @ \cup WordsOf(c.fix)]

CorrectionFails == C.correcting /\ composer' = Returned(C)

\* The gateway took the correction and its answer did not come, or made no sense:
\* to the composer that is a failure like any other.
AnswerLost ==
  /\ C.correcting
  /\ composer' = [Returned(C) EXCEPT !.delivered = @ \cup WordsOf(C.fix),
                                     !.unanswered = @ \cup WordsOf(C.fix)]

SlashDone(c) == [c EXCEPT !.slash = NoCommand]
SlashOut(kinds) == C.slash.kind \in kinds

\* The command's result is shown, or its failure, with the draft left empty.
SlashShows ==
  /\ SlashOut({"title", "execute"})
  /\ composer' = [SlashDone(C) EXCEPT !.delivered = @ \cup C.slash.words]

SlashFails ==
  /\ SlashOut({"title", "execute", "unavailable"})
  /\ composer' = [SlashDone(C) EXCEPT !.lost = @ \cup C.slash.words]

\* The answer is a text for the draft, whatever the draft holds by now.
SlashPrefills ==
  /\ SlashOut({"execute"})
  /\ composer' = [SlashDone(C) EXCEPT !.text = <<"offered">>,
                                      !.delivered = @ \cup C.slash.words,
                                      !.lost = @ \cup WordsOf(C.text)]

\* The answer is a prompt to send.
SlashSends ==
  /\ SlashOut({"execute"})
  /\ composer' = Chat(SlashDone(C), C.slash.words)

----------------------------------------------------------------------------
(* The turn, as the composer sees it.                                      *)
TurnEnds ==
  /\ C.turn = "running"
  /\ composer' = [C EXCEPT !.turn = "settling", !.cancelling = FALSE, !.prompt = FALSE]
TurnSettles == C.turn = "settling" /\ composer' = [C EXCEPT !.turn = "idle"]
PromptShows == C.turn = "running" /\ composer' = [C EXCEPT !.prompt = TRUE]

Next ==
  \/ \E w \in Words : Type(w) \/ Transcribed(w)
  \/ \E cmd \in Commands : TypeCommand(cmd)
  \/ \E cmd \in Commands \ {"/"} : Accept(cmd)
  \/ Erase \/ CatalogAnswers \/ StartDictation \/ StopDictation \/ NothingHeard
  \/ AddFile \/ RemoveFile
  \/ RunSlash \/ Send \/ Correct \/ Stop
  \/ CorrectionTaken \/ CorrectionFails \/ AnswerLost
  \/ SlashShows \/ SlashFails \/ SlashPrefills \/ SlashSends
  \/ TurnEnds \/ TurnSettles \/ PromptShows

Spec == Init /\ [][Next]_composer

----------------------------------------------------------------------------
\* No word disappears on the way: what was entered is in the draft, in the
\* correction or the command that is out, delivered, erased by the user, or
\* overtaken in one of the ways the code accepts.
NoWordVanishes ==
  C.entered = UNION {WordsOf(C.text), WordsOf(C.fix), C.slash.words, C.delivered, C.lost}

\* What is restored, prefilled or dictated is not also on its way, and was not
\* already sent: a word of the draft is with the gateway only if it was part of a
\* correction whose answer was lost.
NoWordTwice ==
  /\ WordsOf(C.text) \cap (WordsOf(C.fix) \cup C.slash.words) = {}
  /\ WordsOf(C.text) \cap C.delivered \subseteq C.unanswered
=============================================================================
