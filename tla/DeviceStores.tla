----------------------------- MODULE DeviceStores -----------------------------
(***************************************************************************)
(* What the device keeps for itself: a preference store (src/state/        *)
(* create-preference-store, and the stores of device-preferences), read    *)
(* once, written optimistically; and the presence of the user's OpenAI key *)
(* (openai-key-state, use-openai-key-settings), re-read after every        *)
(* mutation.  The secure store answers in any order, or fails; value 0 is  *)
(* the default, or an absent or corrupt record.                            *)
(***************************************************************************)
EXTENDS Naturals, FiniteSets

CONSTANTS Values, MaxSets, MaxReads

VARIABLE stores

S == stores
Reads == 1..MaxReads
NoRead == [at |-> "none", key |-> FALSE, enabled |-> TRUE, failed |-> FALSE]

Init ==
  \E part \in {"preference", "key"}, v \in Values \cup {0}, key \in BOOLEAN :
    stores = [part |-> part, value |-> 0, hydrated |-> FALSE, hydration |-> "none", stored |-> 0,
              disk |-> v, writes |-> {}, sets |-> 0, chosen |-> 0, uncertain |-> FALSE,
              key |-> key, enabled |-> TRUE, hasKey |-> FALSE, realtime |-> TRUE,
              read |-> [r \in Reads |-> NoRead], reads |-> 0, told |-> FALSE,
              save |-> "none", removal |-> "none"]

----------------------------------------------------------------------------
(* A preference.                                                           *)
Hydrate ==
  S.hydration = "none" /\ stores' = [S EXCEPT !.hydration = "reading"]

\* The stored record, or the default for one that is missing or unreadable.
RecordRead ==
  /\ S.hydration = "reading"
  /\ \E readable \in BOOLEAN :
       stores' = [S EXCEPT !.hydration = "read", !.stored = IF readable THEN S.disk ELSE 0]

\* A set that raced ahead of hydration wins.
Hydrated ==
  /\ S.hydration = "read"
  /\ stores' = [S EXCEPT !.hydration = "done", !.hydrated = TRUE,
                         !.value = IF S.hydrated THEN @ ELSE S.stored]

Set(v) ==
  /\ S.sets < MaxSets
  /\ stores' = [S EXCEPT !.value = v, !.hydrated = TRUE, !.chosen = v, !.sets = @ + 1,
                         !.uncertain = S.writes # {},
                         !.writes = @ \cup {<<S.sets, v>>}]

\* A write lands or fails; the value in memory stands either way.
Written(w) ==
  /\ w \in S.writes
  /\ \E ok \in BOOLEAN :
       stores' = [S EXCEPT !.writes = @ \ {w}, !.disk = IF ok THEN w[2] ELSE @,
                           !.uncertain = @ \/ ~ok]

\* The app is started again.
Relaunch ==
  /\ S.hydration = "done"
  /\ stores' = [S EXCEPT !.value = 0, !.hydrated = FALSE, !.hydration = "none",
                         !.chosen = 0, !.writes = {}, !.uncertain = FALSE]

----------------------------------------------------------------------------
(* The key.  What is shown is told by the read that began last, unless it   *)
(* overlapped an older one or failed.                                       *)
ReadsOut == {r \in Reads : S.read[r].at # "none"}

\* readState(): one of the MaxReads reads a behaviour has.
ReadState(s) ==
  [s EXCEPT !.reads = @ + 1, !.read[s.reads + 1].at = "out", !.told = ReadsOut = {}]

CanRead == S.reads + Cardinality({m \in {"save", "removal"} : S[m] # "none"}) < MaxReads

HydrateKey == S.reads = 0 /\ CanRead /\ stores' = ReadState(S)

\* Both values are taken from the store, or it is unreadable.
Taken(r) ==
  /\ S.read[r].at = "out"
  /\ \E failed \in BOOLEAN :
       stores' = [S EXCEPT !.read[r] = [at |-> "taken", key |-> S.key, enabled |-> S.enabled,
                                        failed |-> failed]]

Applied(r) ==
  /\ S.read[r].at = "taken"
  /\ LET read == S.read[r]
     IN stores' = [S EXCEPT !.read[r] = NoRead,
                            !.hasKey = read.key /\ ~read.failed,
                            !.realtime = read.enabled \/ read.failed,
                            !.told = @ /\ ~read.failed]

\* saveKey: the provider is asked before anything is stored.
SaveKey ==
  S.save = "none" /\ CanRead /\ stores' = [S EXCEPT !.save = "checking"]

KeyChecked ==
  /\ S.save = "checking"
  /\ \E answer \in {"valid", "invalid", "unreachable"} :
       stores' = [S EXCEPT !.save = IF answer = "valid" THEN "storing" ELSE "none"]

\* A save or a removal that succeeded refreshes what is shown.
KeyStored ==
  /\ S.save = "storing"
  /\ \/ stores' = ReadState([S EXCEPT !.save = "none", !.key = TRUE])
     \/ stores' = [S EXCEPT !.save = "none"]

RemoveKey ==
  S.removal = "none" /\ CanRead /\ stores' = [S EXCEPT !.removal = "out"]

KeyRemoved ==
  /\ S.removal = "out"
  /\ \/ stores' = ReadState([S EXCEPT !.removal = "none", !.key = FALSE])
     \/ stores' = [S EXCEPT !.removal = "none"]

\* setRealtimeEnabled: re-read whether the write worked or not.
SetRealtimeEnabled ==
  /\ CanRead
  /\ \E ok \in BOOLEAN : stores' = ReadState([S EXCEPT !.enabled = IF ok THEN ~@ ELSE @])

PreferenceNext ==
  \/ Hydrate \/ RecordRead \/ Hydrated \/ Relaunch
  \/ \E v \in Values : Set(v)
  \/ \E w \in S.writes : Written(w)

KeyNext ==
  \/ HydrateKey \/ SaveKey \/ KeyChecked \/ KeyStored \/ RemoveKey \/ KeyRemoved
  \/ SetRealtimeEnabled
  \/ \E r \in Reads : Taken(r) \/ Applied(r)

\* The two share no state: a behaviour follows the one or the other.
Next ==
  \/ S.part = "preference" /\ PreferenceNext
  \/ S.part = "key" /\ KeyNext

Spec == Init /\ [][Next]_stores
----------------------------------------------------------------------------
\* What the user chose stands until the next launch: no slower read of the old
\* record takes it back; and it is what the next launch finds, unless a write
\* failed or two of them were out at once.
ChoiceStands ==
  S.chosen # 0 => /\ S.hydrated /\ S.value = S.chosen
                  /\ S.writes = {} /\ ~S.uncertain => S.disk = S.chosen

\* Once all is quiet the screens know whether there is a key: unless the last
\* read failed or overlapped an older one.
PresenceTold ==
  S.told /\ ReadsOut = {} => S.hasKey = S.key /\ S.realtime = S.enabled
=============================================================================
