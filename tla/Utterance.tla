----------------------------- MODULE Utterance -----------------------------
(***************************************************************************)
(* The end of an utterance (observeUtterance in                            *)
(* src/features/voice/gateway-voice-machine.ts): metering samples folded   *)
(* into a tracker with a rolling noise floor.  Levels and times are small  *)
(* integers; one sample is one interval.                                   *)
(***************************************************************************)
EXTENDS Integers, Sequences, FiniteSetsExt

CONSTANTS
  Levels,      \* levels a sample may report, from 0 up
  Margin,      \* SPEECH_MARGIN_DB
  QuietLevel,  \* MIN_SPEECH_DBFS
  Window,      \* FLOOR_WINDOW_SAMPLES
  Hold,        \* SILENCE_HOLD_MS in samples
  Shortest,    \* MIN_UTTERANCE_MS in samples
  Longest      \* MAX_UTTERANCE_MS in samples

VARIABLE utterance

Sustained == 2
Unmetered == -1

Init ==
  utterance = [samples |-> <<>>, recent |-> <<>>, heard |-> FALSE, streak |-> 0,
               silent |-> 0, elapsed |-> 0, decision |-> "continue"]

Elements(s) == {s[i] : i \in DOMAIN s}
Newest(s, n) == SubSeq(s, IF Len(s) > n THEN Len(s) - n + 1 ELSE 1, Len(s))
Threshold(recent) ==
  LET cut == Min(Elements(recent)) + Margin
  IN IF cut > QuietLevel THEN cut ELSE QuietLevel

Observed_LonePeak(u, level) ==
  LET recent   == Newest(Append(u.recent, level), Window)
      speaking == level > Threshold(recent)
      silent   == IF speaking THEN 0 ELSE u.silent + 1
      heard    == u.heard \/ speaking
  IN [u EXCEPT !.recent = recent, !.heard = heard, !.silent = silent,
               !.decision = IF heard /\ silent >= Hold /\ u.elapsed >= Shortest
                              THEN "silence" ELSE "continue"]

Observed(u, level) ==
  LET recent    == Newest(Append(u.recent, level), Window)
      speaking  == level > Threshold(recent)
      streak    == IF speaking THEN u.streak + 1 ELSE 0
      sustained == streak >= Sustained
      silent    == IF sustained THEN 0 ELSE IF speaking THEN u.silent ELSE u.silent + 1
      heard     == u.heard \/ sustained
  IN [u EXCEPT !.recent = recent, !.heard = heard, !.streak = streak, !.silent = silent,
               !.decision = IF heard /\ silent >= Hold /\ u.elapsed >= Shortest
                              THEN "silence" ELSE "continue"]

Sample(level) ==
  /\ utterance.decision = "continue"
  /\ LET u == [utterance EXCEPT !.elapsed = @ + 1, !.samples = Append(@, level)]
     IN utterance' = IF u.elapsed >= Longest THEN [u EXCEPT !.decision = "max_duration"]
                     ELSE IF level = Unmetered THEN u
                     ELSE Observed(u, level)

Next == \E level \in Levels \cup {Unmetered} : Sample(level)
Spec == Init /\ [][Next]_utterance
----------------------------------------------------------------------------
Metered == SelectSeq(utterance.samples, LAMBDA x : x # Unmetered)

\* The reference reading of a recording: which samples are loud against the
\* floor of their own window, and which end a run of two.
Loud(s, i) ==
  s[i] > LET cut == Min({s[j] : j \in {k \in 1..i : k > i - Window}}) + Margin
         IN IF cut > QuietLevel THEN cut ELSE QuietLevel
SpeechAt(s, i) == i > 1 /\ Loud(s, i) /\ Loud(s, i - 1)

(* A recording is handed over for silence only if it holds speech, that is *)
(* two loud samples in a row, followed by the full hold of quiet samples;  *)
(* a lone peak neither counts as speech nor restarts the hold.             *)
SilenceFollowsSpeech ==
  utterance.decision = "silence" =>
    LET s == Metered
        speech == {i \in DOMAIN s : SpeechAt(s, i)}
    IN /\ speech # {}
       /\ Cardinality({i \in DOMAIN s : i > Max(speech) /\ ~Loud(s, i)}) >= Hold

(* And it is handed over no later than that: while the tracker goes on,    *)
(* the hold after the last speech has not run out.                         *)
SpeechIsNotHeldBack ==
  utterance.decision = "continue" /\ utterance.elapsed > Shortest =>
    LET s == Metered
        speech == {i \in DOMAIN s : SpeechAt(s, i)}
    IN speech # {} =>
         Cardinality({i \in DOMAIN s : i > Max(speech) /\ ~Loud(s, i)}) < Hold
                      \/ utterance.samples[Len(utterance.samples)] = Unmetered
=============================================================================
