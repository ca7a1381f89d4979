---------------------------- MODULE ReplyFeeder ----------------------------
(***************************************************************************)
(* StreamedReplyFeeder (src/features/voice/speech-text.ts): routes one     *)
(* turn's narration into the speech stream.  The reply is the numbers      *)
(* 1..Words cut into segments; deltas carry the next word of a segment and *)
(* may be lost with the tail of the segment, a sealed segment carries the  *)
(* whole of it, the completion the last segment or the whole reply.        *)
(***************************************************************************)
EXTENDS Naturals, Sequences, SequencesExt

CONSTANT Words

VARIABLE feeder

Init ==
  feeder = [from |-> 0, heard |-> 0, segmentRaw |-> <<>>, fedNarration |-> <<>>,
            spoken |-> <<>>, finished |-> FALSE, completed |-> FALSE]

Range2(a, b) == [i \in 1..(b - a) |-> a + i]
Feed(f, words) == [f EXCEPT !.fedNarration = @ \o words, !.spoken = @ \o words]

\* The gateway streams the next word of the segment that began after `from`.
AppendDelta ==
  /\ ~feeder.completed /\ feeder.heard < Words
  /\ LET word == <<feeder.heard + 1>>
     IN feeder' = IF feeder.finished THEN feeder
                  ELSE [Feed(feeder, word) EXCEPT !.heard = @ + 1, !.segmentRaw = @ \o word]

\* It seals the segment at `end`: what streamed of it is a prefix.
NoteInterim(end) ==
  /\ ~feeder.completed /\ ~feeder.finished /\ end > feeder.from /\ end >= feeder.heard
  /\ LET content == Range2(feeder.from, end)
         segment == feeder.segmentRaw
         tail == IF segment = <<>> THEN content
                 ELSE IF Len(content) > Len(segment) /\ IsPrefix(segment, content)
                   THEN SubSeq(content, Len(segment) + 1, Len(content))
                 ELSE <<>>
     IN feeder' = [Feed(feeder, tail) EXCEPT !.segmentRaw = <<>>, !.from = end, !.heard = end]

NoteCompleted(content, interrupted) ==
  LET fed == feeder.fedNarration
  IN feeder' =
       [(IF ~feeder.finished /\ ~interrupted /\ Len(content) > Len(fed) /\ IsPrefix(fed, content)
           THEN [feeder EXCEPT !.fedNarration = content,
                   !.spoken = @ \o SubSeq(content, Len(fed) + 1, Len(content))]
         ELSE feeder) EXCEPT !.completed = TRUE]

Completes ==
  /\ ~feeder.completed
  /\ \E interrupted \in BOOLEAN :
       \/ NoteCompleted(Range2(0, Words), interrupted)
       \/ NoteCompleted(Range2(feeder.from, Words), interrupted)

FinishReply == ~feeder.finished /\ feeder' = [feeder EXCEPT !.finished = TRUE]

Next ==
  \/ AppendDelta \/ (\E end \in 1..Words : NoteInterim(end)) \/ Completes \/ FinishReply

Spec == Init /\ [][Next]_feeder
----------------------------------------------------------------------------
(* No word is spoken twice and none out of order, whatever streamed before *)
(* a segment was sealed and however the completion repeats it.             *)
SpokenOnce ==
  \A i, j \in DOMAIN feeder.spoken : i < j => feeder.spoken[i] < feeder.spoken[j]
=============================================================================
