----------------------------- MODULE Connection -----------------------------
(***************************************************************************)
(* The connection provider (src/features/connection/connection-provider):  *)
(* restoring, verifying, signing in to and forgetting the gateway, each an *)
(* async operation guarded by one operation number, over the stored        *)
(* record, the active-session record and the cached reads.  Operation o    *)
(* acts for user who[o]; the client it builds is called o as well.         *)
(***************************************************************************)
EXTENDS Naturals

CONSTANTS Users, MaxOperations, MaxRotations

VARIABLE connection

C == connection
Operations == 1..MaxOperations
Usable == {"connected", "offline"}

Init ==
  \E u \in Users \cup {0} :
    connection = [op |-> 1, at |-> [o \in Operations |-> IF o = 1 THEN "load" ELSE "none"],
                  who |-> [o \in Operations |-> 0],
                  phase |-> "loading", phaseOp |-> 1, identity |-> 0, client |-> 0,
                  built |-> {}, ref |-> 0, stored |-> u, session |-> u # 0,
                  cached |-> {u} \ {0}, reverifying |-> 0, rotations |-> 0, left |-> FALSE]

IsCurrent(o) == o = C.op

Show(c, o, phase) == [c EXCEPT !.phase = phase, !.phaseOp = o]

Begin(c, kind, u) ==
  [c EXCEPT !.op = @ + 1, !.at[c.op + 1] = kind, !.who[c.op + 1] = u]

\* verifyGateway() up to its await: the client is replaced at once.
VerifyGateway(c, o, u) ==
  [c EXCEPT !.client = o, !.built = @ \cup {o}, !.ref = u, !.who[o] = u, !.at[o] = "identity"]

SignedOut(c, o) == [Show(c, o, "disconnected") EXCEPT !.client = 0, !.ref = 0]

Over(c, o) ==
  [c EXCEPT !.at[o] = "over", !.reverifying = IF @ = o THEN 0 ELSE @]

----------------------------------------------------------------------------
\* restore(): the record is read; an unreadable store counts as none.
RecordLoaded(o) ==
  /\ C.at[o] = "load"
  /\ \E readable \in BOOLEAN :
       LET u == IF readable THEN C.stored ELSE 0
       IN connection' = IF ~IsCurrent(o) THEN Over(C, o)
                        ELSE IF u # 0 THEN VerifyGateway(C, o, u)
                        ELSE [SignedOut(Over(C, o), o) EXCEPT !.left = @ \/ C.stored # 0]

\* getIdentity() answers, fails for want of a network, or is refused.
IdentityAnswered(o) ==
  /\ C.at[o] = "identity"
  /\ \E phase \in {"connected", "offline", "error"} :
       connection' = IF ~IsCurrent(o) THEN Over(C, o)
                     ELSE [Show(Over(C, o), o, phase) EXCEPT !.identity = C.who[o]]

\* The app comes to the front or a read succeeds while offline.
ReverifyOffline ==
  /\ C.phase = "offline" /\ C.ref # 0 /\ C.reverifying = 0 /\ C.op < MaxOperations
  /\ connection' = [VerifyGateway(Begin(C, "identity", C.ref), C.op + 1, C.ref)
                      EXCEPT !.reverifying = C.op + 1]

\* retry() from the error screen.
Retry ==
  /\ C.phase = "error" /\ C.op < MaxOperations
  /\ connection' =
       IF C.ref = 0 THEN Show(Begin(C, "load", 0), C.op + 1, "loading")
       ELSE Show(VerifyGateway(Begin(C, "identity", C.ref), C.op + 1, C.ref), C.op + 1, "loading")

----------------------------------------------------------------------------
SignIn(u) ==
  /\ C.phase \in {"disconnected", "error"} /\ C.op < MaxOperations
  /\ connection' = Begin(C, "purge", u)

\* The cached reads go; the phase is then set whatever came meanwhile.
Purged(o) ==
  /\ C.at[o] = "purge"
  /\ connection' = [Show(C, o, "signing-in") EXCEPT !.cached = {}, !.at[o] = "password"]

\* Any await of the try block may reject.
SignInFails(o) ==
  /\ C.at[o] \in {"password", "session", "save"}
  /\ connection' = IF IsCurrent(o) THEN Show(Over(C, o), o, "error") ELSE Over(C, o)

PasswordAccepted(o) ==
  C.at[o] = "password" /\ connection' = [C EXCEPT !.at[o] = "session"]

SessionCleared(o) ==
  C.at[o] = "session" /\ connection' = [C EXCEPT !.session = FALSE, !.at[o] = "save"]

\* The record is saved before the operation is looked at.
RecordSaved(o) ==
  /\ C.at[o] = "save"
  /\ LET c == [C EXCEPT !.stored = C.who[o], !.left = @ \/ ~IsCurrent(o)]
     IN connection' = IF IsCurrent(o) THEN VerifyGateway(c, o, C.who[o]) ELSE Over(c, o)

----------------------------------------------------------------------------
\* disconnect(), also forget().
Disconnect ==
  /\ C.phase \in {"connected", "offline", "error"} /\ C.op < MaxOperations
  /\ connection' = Show(Begin(C, "clearCache", 0), C.op + 1, "loading")

CacheCleared(o) ==
  /\ C.at[o] = "clearCache" /\ connection' = [C EXCEPT !.cached = {}, !.at[o] = "clearSession"]

\* A session record that cannot be deleted ends the disconnection.
ActiveSessionCleared(o) ==
  /\ C.at[o] = "clearSession"
  /\ \/ connection' = [C EXCEPT !.session = FALSE, !.at[o] = "clearRecord"]
     \/ connection' = IF IsCurrent(o) THEN Show(Over(C, o), o, "error") ELSE Over(C, o)

\* A record that cannot be deleted is passed over.
RecordCleared(o) ==
  /\ C.at[o] = "clearRecord"
  /\ \E deleted \in BOOLEAN :
       LET c == [Over(C, o) EXCEPT !.stored = IF deleted THEN 0 ELSE @,
                                   !.left = @ \/ ~deleted]
       IN connection' = IF IsCurrent(o) THEN SignedOut(c, o) ELSE c

\* A client whose session was refreshed saves its record, also one that was
\* superseded or signed out meanwhile.
TokensRotated(o) ==
  /\ o \in C.built /\ C.rotations < MaxRotations
  /\ connection' = [C EXCEPT !.ref = C.who[o], !.stored = C.who[o],
                             !.rotations = @ + 1, !.left = @ \/ o # C.client]

\* Screens read, and the reads are persisted, only while usable.
Reads ==
  /\ C.phase \in Usable /\ C.client # 0
  /\ connection' = [C EXCEPT !.cached = @ \cup {C.who[C.client]}, !.session = TRUE]

Settles(o) ==
  \/ RecordLoaded(o) \/ IdentityAnswered(o) \/ Purged(o) \/ PasswordAccepted(o)
  \/ SessionCleared(o) \/ RecordSaved(o) \/ SignInFails(o)
  \/ CacheCleared(o) \/ ActiveSessionCleared(o) \/ RecordCleared(o)

Next ==
  \/ ReverifyOffline \/ Retry \/ Disconnect \/ Reads
  \/ \E u \in Users : SignIn(u)
  \/ \E o \in Operations : Settles(o) \/ TokensRotated(o)

Fairness == \A o \in Operations : WF_connection(Settles(o))
Spec == Init /\ [][Next]_connection /\ Fairness
----------------------------------------------------------------------------
(* While the app is usable, the client, the identity on the screen and the *)
(* record for the next start are one user's, and no other user's reads are *)
(* cached: unless a rotation of a superseded client or a superseded        *)
(* sign-in left its record behind.                                         *)
OneIdentity ==
  C.phase \in Usable /\ ~C.left =>
    /\ C.client # 0 /\ C.who[C.client] = C.identity
    /\ C.ref = C.identity /\ C.stored = C.identity
    /\ C.cached \subseteq {C.identity}

(* A disconnected app has forgotten: no client, no record in memory, none  *)
(* stored, but for one that was left behind or could not be deleted.       *)
SignedOutIsForgotten ==
  C.phase = "disconnected" =>
    C.client = 0 /\ (C.left \/ (C.ref = 0 /\ C.stored = 0))

(* A spinner of the current operation ends.                                *)
Spinning == C.phase \in {"loading", "signing-in"} /\ C.phaseOp = C.op
=============================================================================
