----------------------------- MODULE SpeechText -----------------------------
(***************************************************************************)
(* SpeechTextFilter (src/features/voice/speech-text.ts): turns the deltas  *)
(* of a reply into text that can be spoken.  Markdown control syntax, link *)
(* targets and fenced code are dropped as they stream past; what could     *)
(* still become syntax is held until more arrives, the line ends, or the   *)
(* reply is flushed.  The text is a sequence of characters of a small      *)
(* alphabet, "a" for a letter, "tick" for a backtick and "nl" for a line break; a numbered    *)
(* list marker is like a bullet, and left out.                             *)
(***************************************************************************)
EXTENDS Naturals, Sequences, SequencesExt, FiniteSetsExt

CONSTANTS Alphabet,   \* of the characters below
          Length,     \* of the reply
          Chunk,      \* the longest delta
          Run,        \* the marks of a fence or a rule, 3 in the code
          Cap         \* LINK_SCAN_CAP, and TAG_SCAN_CAP

VARIABLE text

Indent == 3
Heading == 6
Bullets == {"-", "*"}
FenceMarks == {"tick", "~"}

\* heard: all deltas so far; spoken: the output; over: flushed; torn: see Tears.
Init ==
  text = [heard |-> <<>>, pending |-> <<>>, atLineStart |-> TRUE, inFence |-> FALSE,
          fenceMarker |-> "tick", poisoned |-> FALSE, lastEmitted |-> "", spoken |-> <<>>,
          over |-> FALSE, torn |-> FALSE]

----------------------------------------------------------------------------
(* The scanner, on the text that is pending.                               *)

runLength(b, c) == LET other == {i \in DOMAIN b : b[i] # c}
                   IN IF other = {} THEN Len(b) ELSE Min(other) - 1

From(b, i) == SubSeq(b, i, Len(b))
Newline(b) == LET at == {i \in DOMAIN b : b[i] = "nl"} IN IF at = {} THEN 0 ELSE Min(at)

\* n characters are consumed, and `out` is emitted.
emit(s, out, n) ==
  [s EXCEPT !.pending = From(@, n + 1), !.spoken = @ \o out,
            !.lastEmitted = IF out = <<>> THEN @ ELSE Last(out)]

\* boundedScan(): where `target` is, before the line ends and within the cap.
GiveUp == 0
Hold(b) == Len(b) + 1
boundedScan(b, from, target) ==
  LET limit == Min({Len(b), from + Cap - 1})
      stops == {i \in from..limit : b[i] \in {target, "nl"}}
  IN CASE stops # {} -> IF b[Min(stops)] = target THEN Min(stops) ELSE GiveUp
       [] stops = {} -> IF Len(b) < from - 1 + Cap THEN Hold(b) ELSE GiveUp

\* lineOrCapEnd(), from the second character on.
lineOrCapEnd(b) == LET limit == Min({Len(b), Cap + 1})
                   IN IF Newline(b) \in 2..limit THEN Newline(b) - 1 ELSE limit

stripInlineMarkers(label) ==
  LET kept == SelectSeq(label, LAMBDA c : c \notin {"tick", "*", "~"})
      pair(acc, c) == IF c = "_" /\ acc # <<>> /\ Last(acc) = "_" THEN Front(acc)
                      ELSE Append(acc, IF c = "|" THEN " " ELSE c)
  IN FoldLeft(pair, <<>>, kept)

\* scanLink(), b[1] being the bracket: the label and the characters consumed.
scanLink(b) ==
  LET close == boundedScan(b, 2, "]")
      label == SubSeq(b, 2, close - 1)
      after == IF close < Len(b) THEN b[close + 1] ELSE "none"
      target == boundedScan(b, close + 2, IF after = "(" THEN ")" ELSE "]")
  IN CASE close = GiveUp -> [label |-> SubSeq(b, 2, lineOrCapEnd(b)), end |-> lineOrCapEnd(b)]
       [] close >= Len(b) -> [label |-> <<>>, end |-> Hold(b)]
       [] close \in 1..(Len(b) - 1) /\ after \notin {"(", "["} -> [label |-> label, end |-> close]
       [] OTHER -> [label |-> label, end |-> IF target = GiveUp THEN close ELSE target]

couldCloseFence(s, line) ==
  LET k == runLength(line, " ") marks == From(line, k + 1)
  IN k <= Indent /\ runLength(marks, s.fenceMarker) = Len(marks) /\ Len(marks) <= Run

closesFence(s, line) ==
  LET k == runLength(line, " ")
      marks == From(line, k + 1)
      run == runLength(marks, s.fenceMarker)
  IN k <= Indent /\ run >= Run /\ runLength(From(marks, run + 1), " ") = Len(marks) - run

\* A line of code: held while it may close the fence, else dropped.
FenceLine(s) ==
  LET b == s.pending
      end == Newline(b)
  IN IF end = 0
       THEN IF ~s.poisoned /\ couldCloseFence(s, b) THEN s
            ELSE [s EXCEPT !.pending = <<>>, !.poisoned = TRUE]
     ELSE LET closed == ~s.poisoned /\ closesFence(s, SubSeq(b, 1, end - 1))
          IN [s EXCEPT !.pending = From(b, end + 1), !.poisoned = FALSE,
                       !.inFence = ~closed, !.atLineStart = closed \/ @]

\* What is pending could still grow into a marker of a line start.
Undecided(marks) ==
  \/ marks = <<>>
  \/ \E c \in {"#", ">"} \cup Bullets \cup FenceMarks :
       /\ runLength(marks, c) = Len(marks)
       /\ \/ c = ">"
          \/ c = "#" /\ Len(marks) <= Heading
          \/ c \in Bullets /\ Len(marks) = 1
          \/ c \in FenceMarks /\ Len(marks) <= Run

OpenFence(s, k, marks) ==
  LET b == s.pending
      fence == k + runLength(marks, marks[1])
      end == Newline(b)
  IN [s EXCEPT !.inFence = TRUE, !.fenceMarker = marks[1],
               !.poisoned = end = 0 /\ Len(b) > fence,
               !.pending = IF end = 0 THEN <<>> ELSE From(b, end + 1)]

\* The length of a marker of `marks`, and of the blanks it takes with it; or 0.
MarkerLength(marks) ==
  LET run == runLength(marks, marks[1])
      blanks == runLength(From(marks, run + 1), " ")
  IN CASE marks[1] = ">" -> IF Len(marks) > 1 /\ marks[2] = " " THEN 2 ELSE 1
       [] marks[1] = "#" -> IF run <= Heading /\ blanks > 0 THEN run + blanks ELSE 0
       [] marks[1] \in Bullets -> IF run = 1 /\ blanks > 0 THEN 1 + blanks ELSE 0
       [] OTHER -> 0

\* matchLineStart(); markers can nest, so the line start is tried again after one.
LineStart(s) ==
  LET k == runLength(s.pending, " ")
      marks == From(s.pending, k + 1)
      none == [s EXCEPT !.atLineStart = FALSE]
  IN CASE k > Indent -> none
       [] k <= Indent /\ Undecided(marks) -> s
       [] OTHER ->
            CASE marks[1] \in FenceMarks /\ runLength(marks, marks[1]) >= Run -> OpenFence(s, k, marks)
              [] MarkerLength(marks) > 0 -> emit(s, <<>>, k + MarkerLength(marks))
              [] OTHER -> none

isWordChar(c) == c = "a"

\* The characters that mean something within a line.
Inline(s) ==
  LET b == s.pending
      c == Head(b)
      run == runLength(b, c)
      ends == run = Len(b)
      next == IF Len(b) > 1 THEN b[2] ELSE "none"
      link(l, out, skip) == IF l.end >= Hold(b) - skip THEN s ELSE emit(s, out, l.end + skip)
  IN CASE c \in {"tick", "*"} -> emit(s, <<>>, run)
       [] c = "~" -> IF run = 1 /\ ends THEN s ELSE emit(s, IF run = 1 THEN <<c>> ELSE <<>>, run)
       [] c = "_" -> IF run = 1 /\ ends THEN s
                     ELSE emit(s, IF run = 1 /\ isWordChar(s.lastEmitted) /\ isWordChar(next)
                                    THEN <<c>> ELSE <<>>, run)
       [] c \in {"-", "="} -> IF run < Run /\ ends THEN s
                              ELSE emit(s, IF run < Run THEN SubSeq(b, 1, run) ELSE <<>>, run)
       [] c = "|" -> emit(s, <<" ">>, 1)
       [] c = "!" -> CASE next = "none" -> s
                       [] next = "[" -> link(scanLink(Tail(b)), <<>>, 1)
                       [] OTHER -> emit(s, <<c>>, 1)
       [] c = "[" -> link(scanLink(b), stripInlineMarkers(scanLink(b).label), 0)
       [] c = "<" -> LET close == boundedScan(b, 2, ">")
                     IN CASE next = "none" \/ (next = "a" /\ close = Hold(b)) -> s
                          [] next = "a" /\ close \in DOMAIN b -> emit(s, <<>>, close)
                          [] OTHER -> emit(s, <<c>>, 1)
       [] OTHER -> emit(s, <<c>>, 1)

Step(s) ==
  CASE s.pending = <<>> -> s
    [] s.pending # <<>> /\ s.inFence -> FenceLine(s)
    [] OTHER -> CASE Head(s.pending) = "nl" -> [emit(s, <<"nl">>, 1) EXCEPT !.atLineStart = TRUE]
                  [] Head(s.pending) # "nl" /\ s.atLineStart -> LineStart(s)
                  [] OTHER -> Inline(s)

\* process(): until nothing is left, or the rest is held.
RECURSIVE process(_)
process(s) == IF Step(s) = s THEN s ELSE process(Step(s))

feed(s, chunk) == process([s EXCEPT !.pending = @ \o chunk])
flush(s) == [feed(s, <<"nl">>) EXCEPT !.pending = <<>>]

----------------------------------------------------------------------------
\* The delta before ends within a run of marks longer than a fence, or between the
\* marks that would close a fence, more than it takes or blanks after them, and the
\* end of their line: process() decides on a part of what it would see as a whole.
Tears(chunk) ==
  LET before == Reverse(text.heard)
      blanks == runLength(before, " ")
      marks == From(before, blanks + 1)
      run == runLength(marks, Head(marks))
  IN /\ marks # <<>> /\ Head(marks) # "a"
     /\ \/ blanks = 0 /\ Head(chunk) = Head(marks) /\ run + runLength(chunk, Head(marks)) > Run
        \/ Head(chunk) \in {" ", "nl"} /\ run >= Run /\ (run > Run \/ blanks > 0)

Deltas == UNION {[1..n -> Alphabet] : n \in 1..Chunk}

AppendDelta ==
  /\ ~text.over
  /\ \E chunk \in Deltas :
       /\ Len(text.heard) + Len(chunk) <= Length
       /\ text' = [feed(text, chunk) EXCEPT !.heard = @ \o chunk, !.torn = @ \/ Tears(chunk)]

FinishReply == ~text.over /\ text' = [flush(text) EXCEPT !.over = TRUE]

Next == AppendDelta \/ FinishReply

Spec == Init /\ [][Next]_text
----------------------------------------------------------------------------
\* A reply means one thing, however the gateway cut it into deltas: what is spoken
\* of it is what would be spoken had it come in one piece.
Fresh == [text EXCEPT !.pending = <<>>, !.atLineStart = TRUE, !.inFence = FALSE,
           !.fenceMarker = "tick", !.poisoned = FALSE, !.lastEmitted = "", !.spoken = <<>>]
Words(out) == SelectSeq(out, LAMBDA c : c \notin {" ", "nl"})

CutsDoNotMatter ==
  text.over /\ ~text.torn => Words(text.spoken) = Words(flush(feed(Fresh, text.heard)).spoken)

\* No code is spoken, and all that is not code is.  Here a reply is its lines, of
\* letters, blanks and backticks: a fence opens with a line that begins with Run
\* of them, and the next line that has Run of them and nothing else closes it.
LineEnds == {i \in DOMAIN text.heard : text.heard[i] = "nl"} \cup {0, Len(text.heard) + 1}
Line(from) == SubSeq(text.heard, from + 1, Min({i \in LineEnds : i > from}) - 1)
Marks(line) == LET k == runLength(line, " ")
               IN IF k > Indent THEN 0 ELSE runLength(From(line, k + 1), "tick")
Bare(line) == LET ticks == {i \in DOMAIN line : line[i] = "tick"}
              IN /\ \A i \in DOMAIN line : line[i] # "a"
                 /\ ticks = Min(ticks)..Max(ticks)
Fences == {i \in LineEnds : i <= Len(text.heard) /\ Marks(Line(i)) >= Run}
Outside == LET step(open, i) == IF open = {} THEN {i}
                                ELSE IF Bare(Line(i)) THEN {} ELSE open
           IN [i \in LineEnds |->
                 i \notin Fences /\ FoldLeft(step, {}, SetToSortSeq({j \in Fences : j < i}, <)) = {}]
Letters(out) == Len(SelectSeq(out, LAMBDA c : c = "a"))

CodeIsSilent ==
  text.over /\ ~text.torn =>
    Letters(text.spoken) =
      MapThenSumSet(LAMBDA i : IF Outside[i] THEN Letters(Line(i)) ELSE 0, LineEnds \ {Len(text.heard) + 1})
=============================================================================
