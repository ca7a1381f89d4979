------------------------------ MODULE AskService ------------------------------
(***************************************************************************)
(* What a live call is promised by its tool dispatcher, without saying     *)
(* how: a call is taken on once and answered once, nothing is said after   *)
(* the call closed, one Hermes turn works at a time, and an instruction is *)
(* handed to Hermes once.                                                  *)
(***************************************************************************)
EXTENDS FiniteSets, Integers

CONSTANTS Calls, Keys, None

VARIABLES
  open,      \* the live call still accepts and answers tool calls
  taken,     \* calls the dispatcher took on
  replies,   \* how many answers each call of taken got
  working,   \* the instruction whose own turn Hermes is running
  landed     \* instructions handed to Hermes

svars == <<open, taken, replies, working, landed>>

Init ==
  /\ open = TRUE
  /\ taken = {} /\ landed = {}
  /\ replies = [c \in Calls |-> 0]
  /\ working = None

\* Take on at most one call and answer some: never a call twice, never when closed.
Converse ==
  /\ taken' = taken \/ \E c \in Calls : taken' = taken \cup {c}
  /\ \E replied \in SUBSET taken' :
       /\ \A c \in replied : replies[c] = 0
       /\ replies' = [c \in Calls |-> IF c \in replied THEN 1 ELSE replies[c]]
  /\ ~open => UNCHANGED <<taken, replies>>

\* Hand over instructions: as a turn of its own when Hermes is free, or folded
\* into what Hermes is doing.
Work ==
  \/ UNCHANGED <<working, landed>>
  \/ \E k \in Keys \ landed :
       /\ landed' = landed \cup {k}
       /\ \/ UNCHANGED working
          \/ working = None /\ working' = k
  \/ working' = None /\ UNCHANGED landed

Serve == Converse /\ Work /\ UNCHANGED open

Close == open' = FALSE /\ UNCHANGED <<taken, replies, working, landed>>

Answer(c) == c \in taken /\ replies[c] = 0 /\ Serve /\ replies'[c] = 1

Next == Serve \/ Close

Spec ==
  /\ Init /\ [][Next]_svars
  /\ \A c \in Calls : WF_svars(Answer(c))
=============================================================================
