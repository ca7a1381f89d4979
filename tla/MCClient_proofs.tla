--------------------------- MODULE MCClient_proofs ---------------------------
(***************************************************************************)
(* Proofs about the credentials (Connection, GatewayAccess): one identity  *)
(* at a time, nothing kept of a user who left, the newest token pair never *)
(* lost in silence and no ticket shown twice, for any number of users,     *)
(* operations, rotations and tickets; and about what the user chose or     *)
(* wrote (SessionChannel, Composer, ModelPicker, DeviceStores, AppUpdates).*)
(***************************************************************************)
EXTENDS MCClient, Sequences, FiniteSetTheorems, TLAPS

----------------------------------------------------------------------------
(* The account (Connection).                                               *)

Numbers == 1..MaxOperations
Usable == {"connected", "offline"}
SigningIn == {"password", "session", "save"}
Leaving == {"clearCache", "clearSession", "clearRecord"}
Steps == {"none", "load", "identity", "purge", "over"} \cup SigningIn \cup Leaving
Phases == {"loading", "signing-in", "disconnected", "error"} \cup Usable

AccountRecord ==
  [op : Numbers, at : [Numbers -> Steps], who : [Numbers -> People \cup {0}],
   phase : Phases, phaseOp : Numbers, identity : People \cup {0}, client : Numbers \cup {0},
   built : SUBSET Numbers, ref : People \cup {0}, stored : People \cup {0}, session : BOOLEAN,
   cached : SUBSET (People \cup {0}), reverifying : Numbers \cup {0}, rotations : Nat,
   left : BOOLEAN]

\* What the screen may say while the latest operation is where it is.
OnScreen(c) ==
  LET step == c.at[c.op]
  IN /\ step # "none"
     /\ step \in {"load"} \cup Leaving => c.phase \in {"loading", "signing-in"}
     /\ step \in SigningIn => c.phase = "signing-in"
     /\ step = "identity" => c.phase \in {"loading", "signing-in", "offline"}
     /\ step = "purge" => c.phase \in {"disconnected", "error", "signing-in"}
     /\ step = "over" => c.phase # "loading"

\* Only a verification or a sign-in that waits is ever superseded: a restore and a
\* sign-out hold the screen until they end.
LatestOnly(c) ==
  \A o \in Numbers : /\ c.at[o] \in {"load"} \cup Leaving => o = c.op
                     /\ o > c.op => c.at[o] = "none"

\* The client of the screen is the one of the verification under way, and it has
\* read nothing before it was verified.
ClientInv(c) ==
  /\ c.client <= c.op /\ \A o \in c.built : o <= c.op
  /\ c.at[c.op] = "identity" => c.client = c.op
  /\ c.phase \in Usable => c.client # 0
  /\ c.phase = "disconnected" => c.client = 0

\* One user's, unless something was left behind.
OneUser(c) ==
  ~c.left =>
    /\ c.client # 0 => c.ref = c.who[c.client] /\ c.stored = c.who[c.client]
    /\ c.client = 0 => c.ref = 0
    /\ c.cached \subseteq {c.stored}
    /\ c.at[c.op] \in SigningIn \cup (Leaving \ {"clearCache"}) => c.cached = {}
    /\ c.phase \in Usable => c.who[c.client] = c.identity
    /\ c.phase = "disconnected" => c.stored = 0

KeepsAccount(c) ==
  /\ c \in AccountRecord /\ OnScreen(c)
  /\ LatestOnly(c) /\ ClientInv(c) /\ OneUser(c)

AccountInv == KeepsAccount(here)

LEMMA AccountStarts == Account!Init => AccountInv
<1> SUFFICES ASSUME Account!Init PROVE AccountInv
  OBVIOUS
<1> USE ClientConstants DEF ClientConstants
<1>1. PICK u \in People \cup {0} :
        here = [op |-> 1, at |-> [o \in Numbers |-> IF o = 1 THEN "load" ELSE "none"],
                who |-> [o \in Numbers |-> 0],
                phase |-> "loading", phaseOp |-> 1, identity |-> 0, client |-> 0,
                built |-> {}, ref |-> 0, stored |-> u, session |-> u # 0,
                cached |-> {u} \ {0}, reverifying |-> 0, rotations |-> 0, left |-> FALSE]
  BY DEF Account!Init, Account!Operations, Numbers
<1>2. here \in AccountRecord
  BY <1>1 DEF AccountRecord, Numbers, Steps, Phases, Usable
<1>3. here.at[here.op] = "load" /\ 1 \in Numbers
  BY <1>1 DEF Numbers
<1>4. OnScreen(here)
  BY <1>1, <1>3 DEF OnScreen, Leaving, SigningIn
<1>5. LatestOnly(here) /\ ClientInv(here) /\ OneUser(here)
  BY <1>1, <1>3 DEF LatestOnly, ClientInv, OneUser, Leaving, SigningIn, Usable, Numbers
<1> QED BY <1>2, <1>4, <1>5 DEF AccountInv, KeepsAccount

LEMMA AccountPromises == AccountInv => Account!OneIdentity /\ Account!SignedOutIsForgotten
<1> SUFFICES ASSUME AccountInv PROVE Account!OneIdentity /\ Account!SignedOutIsForgotten
  OBVIOUS
<1> QED BY DEF AccountInv, KeepsAccount, ClientInv, OneUser, Usable, Account!Usable, Account!C,
               Account!OneIdentity, Account!SignedOutIsForgotten

\* Numbers are natural, and a record has its fields.
LEMMA RecordFacts ==
  ASSUME NEW c \in AccountRecord
  PROVE  /\ c.op \in Numbers /\ c.at \in [Numbers -> Steps] /\ c.who \in [Numbers -> People \cup {0}]
         /\ c.phase \in Phases /\ c.client \in Numbers \cup {0} /\ c.built \in SUBSET Numbers
         /\ {c.ref, c.stored, c.identity} \subseteq People \cup {0} /\ c.left \in BOOLEAN
         /\ c.cached \in SUBSET (People \cup {0}) /\ c.reverifying \in Numbers \cup {0}
         /\ \A o \in Numbers : o \in Nat /\ o # 0 /\ c.at[o] \in Steps
                               /\ (o < MaxOperations => o + 1 \in Numbers)
  BY ClientConstants DEF ClientConstants, AccountRecord, Numbers

\* Over() and what becomes of the reverification.
LEMMA OverIs ==
  ASSUME NEW c \in AccountRecord, NEW o \in Numbers
  PROVE  \E waits \in Numbers \cup {0} :
           Account!Over(c, o) = [c EXCEPT !.at[o] = "over", !.reverifying = waits]
<1> DEFINE waits == IF c.reverifying = o THEN 0 ELSE c.reverifying
<1>1. waits \in Numbers \cup {0}
  BY RecordFacts
<1>2. Account!Over(c, o) = [c EXCEPT !.at[o] = "over", !.reverifying = waits]
  BY DEF Account!Over, AccountRecord
<1> HIDE DEF waits
<1> QED BY <1>1, <1>2

\* A superseded operation that ends, or goes on to another await, changes nothing.
LEMMA SupersededGoesOn ==
  ASSUME NEW c, KeepsAccount(c), NEW o \in Numbers, o # c.op, c.at[o] # "none",
         NEW step \in SigningIn \cup {"over"}, NEW d \in AccountRecord,
         d.at = [c.at EXCEPT ![o] = step], d.op = c.op, d.who = c.who, d.phase = c.phase,
         d.identity = c.identity, d.client = c.client, d.built = c.built, d.ref = c.ref,
         d.stored = c.stored \/ d.left, d.cached = c.cached, c.left => d.left
  PROVE  KeepsAccount(d)
<1>1. /\ c \in AccountRecord /\ OnScreen(c) /\ LatestOnly(c) /\ ClientInv(c) /\ OneUser(c)
      /\ c.op \in Numbers /\ c.at \in [Numbers -> Steps]
  BY RecordFacts DEF KeepsAccount
<1>2. d.at[d.op] = c.at[c.op] /\ d.at[o] = step /\ \A m \in Numbers : m # o => d.at[m] = c.at[m]
  BY <1>1
<1>3. OnScreen(d)
  BY <1>1, <1>2 DEF OnScreen
<1>4. LatestOnly(d)
  BY <1>1, <1>2 DEF LatestOnly, SigningIn, Leaving
<1>5. ClientInv(d) /\ OneUser(d)
  BY <1>1, <1>2 DEF ClientInv, OneUser
<1> QED BY <1>3, <1>4, <1>5 DEF KeepsAccount

\* The latest operation moves on to another place, on a screen that fits it.
LEMMA LatestGoesOn ==
  ASSUME NEW c, KeepsAccount(c), NEW step, NEW d \in AccountRecord,
         d.at = [c.at EXCEPT ![c.op] = step], d.op = c.op, d.who = c.who, d.built = c.built,
         OnScreen(d), ClientInv(d), OneUser(d)
  PROVE  KeepsAccount(d)
<1>1. /\ c \in AccountRecord /\ LatestOnly(c) /\ c.op \in Numbers /\ c.at \in [Numbers -> Steps]
  BY RecordFacts DEF KeepsAccount
<1>2. \A m \in Numbers : m # c.op => d.at[m] = c.at[m]
  BY <1>1
<1>3. LatestOnly(d)
  <2>1. \A o \in Numbers : o > c.op => o # c.op
    BY <1>1, RecordFacts
  <2> QED BY <1>1, <1>2, <2>1 DEF LatestOnly
<1> QED BY <1>3 DEF KeepsAccount

\* verifyGateway() of the latest operation, and what its caller shows meanwhile.
Verifying(c, u, phase, phaseOp, waits) ==
  [Account!VerifyGateway(c, c.op, u) EXCEPT !.phase = phase, !.phaseOp = phaseOp,
                                            !.reverifying = waits]

\* It keeps the account when the user is the one whose record is stored.
LEMMA VerificationStarts ==
  ASSUME NEW c \in AccountRecord, LatestOnly(c), \A o \in c.built : o <= c.op,
         NEW u \in People \cup {0}, NEW phase \in {"loading", "signing-in", "offline"},
         NEW phaseOp \in Numbers, NEW waits \in Numbers \cup {0},
         ~c.left => c.stored = u /\ c.cached \subseteq {u} /\ (phase = "offline" => c.identity = u),
         NEW d, d = Verifying(c, u, phase, phaseOp, waits)
  PROVE  KeepsAccount(d)
<1> DEFINE o == c.op
<1>1. o \in Numbers /\ o \in Nat /\ o # 0 /\ c.at \in [Numbers -> Steps]
      /\ c.who \in [Numbers -> People \cup {0}] /\ c.built \in SUBSET Numbers
      /\ phase \in Phases
  BY RecordFacts DEF Phases, Usable
<1>2. /\ d \in AccountRecord /\ d.op = o /\ d.client = o /\ d.built = c.built \cup {o} /\ d.ref = u
      /\ d.who = [c.who EXCEPT ![o] = u] /\ d.at = [c.at EXCEPT ![o] = "identity"]
      /\ d.phase = phase /\ d.left = c.left /\ d.stored = c.stored /\ d.cached = c.cached
      /\ d.identity = c.identity
  <2>1. PICK at, who, built :
          /\ at = [c.at EXCEPT ![o] = "identity"] /\ who = [c.who EXCEPT ![o] = u]
          /\ built = c.built \cup {o}
    OBVIOUS
  <2>2. /\ at \in [Numbers -> Steps] /\ who \in [Numbers -> People \cup {0}]
        /\ built \in SUBSET Numbers
    BY <1>1, <2>1 DEF Steps
  <2>3. PICK e : e = [c EXCEPT !.client = o, !.built = built, !.ref = u, !.who = who, !.at = at]
    OBVIOUS
  <2> HIDE DEF o
  <2>4. /\ e \in AccountRecord /\ e.op = c.op /\ e.client = o /\ e.built = built /\ e.ref = u
        /\ e.who = who /\ e.at = at
        /\ e.left = c.left /\ e.stored = c.stored /\ e.cached = c.cached
        /\ e.identity = c.identity
    BY <1>1, <2>2, <2>3 DEF AccountRecord
  <2>5. Account!VerifyGateway(c, c.op, u) = e
    BY <2>1, <2>3 DEF Account!VerifyGateway, AccountRecord, o
  <2>6. d = [e EXCEPT !.phase = phase, !.phaseOp = phaseOp, !.reverifying = waits]
    BY <2>5 DEF Verifying
  <2>7. /\ d \in AccountRecord /\ d.op = c.op /\ d.client = o /\ d.built = built /\ d.ref = u
        /\ d.who = who /\ d.at = at
        /\ d.phase = phase /\ d.left = c.left /\ d.stored = c.stored /\ d.cached = c.cached
        /\ d.identity = c.identity
    BY ZenonT(60), <1>1, <2>4, <2>6 DEF AccountRecord
  <2> QED BY <2>1, <2>7 DEF o
<1>3. d.at[o] = "identity" /\ d.who[o] = u /\ \A m \in Numbers : m # o => d.at[m] = c.at[m]
  BY <1>1, <1>2
<1>4. OnScreen(d)
  BY <1>2, <1>3 DEF OnScreen, Leaving, SigningIn
<1>5. LatestOnly(d)
  <2>1. \A m \in Numbers : m > o => m # o
    BY <1>1, RecordFacts
  <2> QED BY <1>2, <1>3, <2>1 DEF LatestOnly, Leaving
<1>6. ClientInv(d)
  BY <1>1, <1>2 DEF ClientInv
<1>7. OneUser(d)
  BY <1>1, <1>2, <1>3 DEF OneUser, SigningIn, Leaving, Usable
<1> QED BY <1>2, <1>4, <1>5, <1>6, <1>7 DEF KeepsAccount

\* The same, with the screen left as it is.
LEMMA VerificationGoesOn ==
  ASSUME NEW c \in AccountRecord, LatestOnly(c), \A o \in c.built : o <= c.op,
         NEW u \in People \cup {0}, c.phase \in {"loading", "signing-in"},
         ~c.left => c.stored = u /\ c.cached \subseteq {u},
         NEW d, d = Account!VerifyGateway(c, c.op, u)
  PROVE  KeepsAccount(d)
<1>1. PICK phase, phaseOp, waits :
        phase = c.phase /\ phaseOp = c.phaseOp /\ waits = c.reverifying
  OBVIOUS
<1>2. /\ phase \in {"loading", "signing-in", "offline"} /\ phaseOp \in Numbers
      /\ waits \in Numbers \cup {0} /\ phase # "offline"
  BY <1>1 DEF AccountRecord
<1>3. d = Verifying(c, u, phase, phaseOp, waits)
  BY <1>1 DEF Verifying, Account!VerifyGateway, AccountRecord
<1>4. ~c.left => c.stored = u /\ c.cached \subseteq {u} /\ (phase = "offline" => c.identity = u)
  BY <1>2
<1>5. phase \in {"loading", "signing-in", "offline"}
  BY <1>2
<1>6. /\ c \in AccountRecord /\ LatestOnly(c) /\ (\A o \in c.built : o <= c.op)
      /\ u \in People \cup {0} /\ phaseOp \in Numbers /\ waits \in Numbers \cup {0}
  BY <1>2
<1> QED BY ONLY <1>3, <1>4, <1>5, <1>6, VerificationStarts

\* A new operation supersedes one that may be superseded.
LEMMA OperationBegins ==
  ASSUME NEW c, KeepsAccount(c), c.op < MaxOperations, c.phase \notin {"loading", "signing-in"},
         NEW kind \in Steps, NEW u \in People \cup {0}
  PROVE  LET b == Account!Begin(c, kind, u)
         IN /\ b \in AccountRecord /\ LatestOnly(b) /\ b.op = c.op + 1 /\ b.at[b.op] = kind
            /\ \A o \in b.built : o <= b.op
            /\ b.phase = c.phase /\ b.left = c.left /\ b.stored = c.stored /\ b.cached = c.cached
            /\ b.identity = c.identity /\ b.client = c.client /\ b.ref = c.ref /\ b.built = c.built
            /\ c.client < b.op /\ (c.client # 0 => b.who[c.client] = c.who[c.client])
<1> DEFINE n == c.op + 1
           b == Account!Begin(c, kind, u)
<1>1. /\ c \in AccountRecord /\ LatestOnly(c) /\ ClientInv(c) /\ OnScreen(c)
  BY DEF KeepsAccount
<1>2. /\ n \in Numbers /\ c.op \in Nat /\ c.at \in [Numbers -> Steps] /\ c.op \in Numbers
      /\ c.who \in [Numbers -> People \cup {0}] /\ c.client \in Nat /\ c.client <= c.op
      /\ c.built \in SUBSET Numbers /\ \A o \in c.built : o <= c.op /\ o \in Nat
  BY <1>1, RecordFacts DEF ClientInv
<1>3. b = [c EXCEPT !.op = n, !.at[n] = kind, !.who[n] = u]
  BY <1>1 DEF Account!Begin, AccountRecord
<1> HIDE DEF n, b
<1>4. /\ b \in AccountRecord /\ b.op = n /\ b.at = [c.at EXCEPT ![n] = kind]
      /\ b.who = [c.who EXCEPT ![n] = u] /\ b.phase = c.phase /\ b.left = c.left
      /\ b.stored = c.stored /\ b.cached = c.cached /\ b.identity = c.identity
      /\ b.client = c.client /\ b.ref = c.ref /\ b.built = c.built
  BY <1>1, <1>2, <1>3 DEF AccountRecord
<1>5. n = c.op + 1
  BY DEF n
<1>6. b.at[n] = kind /\ \A m \in Numbers : m # n => b.at[m] = c.at[m] /\ b.who[m] = c.who[m]
  BY <1>2, <1>4
<1>7. c.at[c.op] \notin {"load"} \cup Leaving
  BY <1>1 DEF OnScreen
<1>8. LatestOnly(b)
  <2> SUFFICES ASSUME NEW o \in Numbers
               PROVE  /\ b.at[o] \in {"load"} \cup Leaving => o = n
                      /\ o > n => b.at[o] = "none"
    BY <1>4 DEF LatestOnly
  <2>1. o \in Nat
    BY <1>1, RecordFacts
  <2>2. CASE o # n
    <3>1. b.at[o] = c.at[o]
      BY <1>6, <2>2
    <3>2. o > n => o > c.op
      BY <1>2, <1>5, <2>1
    <3>3. c.at[o] \in {"load"} \cup Leaving => o = c.op
      BY <1>1 DEF LatestOnly
    <3> QED BY <1>1, <1>7, <3>1, <3>2, <3>3 DEF LatestOnly
  <2> QED BY <1>2, <1>5, <2>1, <2>2
<1>9. /\ c.client < n /\ (\A o \in b.built : o <= n)
      /\ c.client # 0 => b.who[c.client] = c.who[c.client]
  <2>1. c.client < n /\ \A o \in b.built : o <= n
    BY <1>2, <1>4, <1>5
  <2>2. ASSUME c.client # 0 PROVE b.who[c.client] = c.who[c.client]
    <3>1. c.client \in Numbers
      BY <1>1, <2>2, RecordFacts
    <3> QED BY <1>2, <1>6, <2>1, <3>1
  <2> QED BY <2>1, <2>2
<1> QED BY <1>4, <1>5, <1>6, <1>8, <1>9 DEF b

----------------------------------------------------------------------------
(* One step of the account.                                                *)

LEMMA RestoreKeeps ==
  ASSUME KeepsAccount(here), NEW o \in Numbers, Account!RecordLoaded(o)
  PROVE  KeepsAccount(here')
<1>1. /\ here \in AccountRecord /\ OnScreen(here) /\ LatestOnly(here) /\ ClientInv(here)
      /\ OneUser(here) /\ here.at[o] = "load"
  BY DEF KeepsAccount, Account!RecordLoaded, Account!C
<1>2. /\ o = here.op /\ here.phase \in {"loading", "signing-in"}
      /\ here.op \in Numbers /\ here.at \in [Numbers -> Steps] /\ here.stored \in People \cup {0}
      /\ \A m \in here.built : m <= here.op
  <2>1. o = here.op
    BY <1>1 DEF LatestOnly
  <2>2. here.phase \in {"loading", "signing-in"}
    BY <1>1, <2>1 DEF OnScreen
  <2> QED BY <1>1, <2>1, <2>2, RecordFacts DEF ClientInv
<1>3. CASE here' = Account!VerifyGateway(here, here.op, here.stored) /\ here.stored # 0
  <2>1. ~here.left => here.stored = here.stored /\ here.cached \subseteq {here.stored}
    BY <1>1 DEF OneUser
  <2> QED BY <1>1, <1>2, <1>3, <2>1, VerificationGoesOn
<1>4. CASE here' = [Account!SignedOut(Account!Over(here, o), o) EXCEPT !.left = @ \/ here.stored # 0]
  <2>1. PICK waits \in Numbers \cup {0} :
          Account!Over(here, o) = [here EXCEPT !.at[o] = "over", !.reverifying = waits]
    BY <1>1, OverIs
  <2>2. PICK at, left : at = [here.at EXCEPT ![o] = "over"] /\ left = (here.left \/ here.stored # 0)
    OBVIOUS
  <2>3. at \in [Numbers -> Steps] /\ at[o] = "over"
    BY <1>2, <2>2 DEF Steps
  <2>4. here' = [here EXCEPT !.at = at, !.reverifying = waits, !.phase = "disconnected",
                             !.phaseOp = o, !.client = 0, !.ref = 0, !.left = left]
    BY <1>1, <1>4, <2>1, <2>2 DEF Account!SignedOut, Account!Show, AccountRecord
  <2>5. left \in BOOLEAN
    BY <2>2
  <2>6. /\ here' \in AccountRecord /\ here'.at = at /\ here'.op = here.op /\ here'.who = here.who
        /\ here'.built = here.built /\ here'.phase = "disconnected" /\ here'.client = 0
        /\ here'.ref = 0 /\ here'.left = left /\ here'.stored = here.stored
        /\ here'.cached = here.cached
    BY ZenonT(60), <1>1, <1>2, <2>3, <2>4, <2>5 DEF AccountRecord, Phases
  <2>7. OnScreen(here')
    BY <1>2, <2>3, <2>6 DEF OnScreen, Leaving, SigningIn
  <2>8. ClientInv(here')
    BY <1>2, <2>3, <2>6, RecordFacts DEF ClientInv, Usable
  <2>9. OneUser(here')
    BY <1>1, <1>2, <2>2, <2>3, <2>6 DEF OneUser, SigningIn, Leaving, Usable
  <2> QED BY <1>2, <2>2, <2>6, <2>7, <2>8, <2>9, LatestGoesOn
<1> QED BY <1>1, <1>2, <1>3, <1>4 DEF Account!RecordLoaded, Account!C, Account!IsCurrent

LEMMA IdentityKeeps ==
  ASSUME KeepsAccount(here), NEW o \in Numbers, Account!IdentityAnswered(o)
  PROVE  KeepsAccount(here')
<1>1. /\ here \in AccountRecord /\ OnScreen(here) /\ LatestOnly(here) /\ ClientInv(here)
      /\ OneUser(here) /\ here.at[o] = "identity"
      /\ here.op \in Numbers /\ here.at \in [Numbers -> Steps] /\ o # 0
      /\ here.who \in [Numbers -> People \cup {0}]
  BY RecordFacts DEF KeepsAccount, Account!IdentityAnswered, Account!C
<1>2. PICK waits \in Numbers \cup {0} :
        Account!Over(here, o) = [here EXCEPT !.at[o] = "over", !.reverifying = waits]
  BY <1>1, OverIs
<1>3. PICK at : at = [here.at EXCEPT ![o] = "over"]
  OBVIOUS
<1>4. at \in [Numbers -> Steps] /\ at[o] = "over"
  BY <1>1, <1>3 DEF Steps
<1>5. CASE o # here.op
  <2>1. here' = [here EXCEPT !.at = at, !.reverifying = waits]
    BY <1>1, <1>2, <1>3, <1>5 DEF Account!IdentityAnswered, Account!C, Account!IsCurrent, AccountRecord
  <2>2. /\ here' \in AccountRecord /\ here'.at = at /\ here'.op = here.op /\ here'.who = here.who
        /\ here'.phase = here.phase /\ here'.identity = here.identity /\ here'.client = here.client
        /\ here'.built = here.built /\ here'.ref = here.ref /\ here'.stored = here.stored
        /\ here'.cached = here.cached /\ here'.left = here.left
    BY <1>1, <1>4, <2>1 DEF AccountRecord
  <2> QED BY <1>1, <1>3, <1>5, <2>2, SupersededGoesOn
<1>6. CASE o = here.op
  <2>1. PICK phase \in {"connected", "offline", "error"} :
          here' = [here EXCEPT !.at = at, !.reverifying = waits, !.phase = phase, !.phaseOp = o,
                               !.identity = here.who[o]]
    BY <1>1, <1>2, <1>3, <1>6
       DEF Account!IdentityAnswered, Account!C, Account!IsCurrent, Account!Show, AccountRecord
  <2>2. here.who[o] \in People \cup {0} /\ phase \in Phases
    BY <1>1 DEF Phases, Usable
  <2>3. /\ here' \in AccountRecord /\ here'.at = at /\ here'.op = here.op /\ here'.who = here.who
        /\ here'.phase = phase /\ here'.identity = here.who[o] /\ here'.client = here.client
        /\ here'.built = here.built /\ here'.ref = here.ref /\ here'.stored = here.stored
        /\ here'.cached = here.cached /\ here'.left = here.left
    BY <1>1, <1>4, <2>1, <2>2 DEF AccountRecord
  <2>4. OnScreen(here')
    BY <1>4, <1>6, <2>3 DEF OnScreen, Leaving, SigningIn
  <2>5. here.client = o /\ ClientInv(here')
    BY <1>1, <1>4, <1>6, <2>3 DEF ClientInv, Usable
  <2>6. OneUser(here')
    BY <1>1, <1>4, <1>6, <2>3, <2>5 DEF OneUser, SigningIn, Leaving, Usable
  <2> QED BY <1>3, <1>6, <2>3, <2>4, <2>5, <2>6, LatestGoesOn
<1> QED BY <1>5, <1>6

LEMMA ReverifyKeeps ==
  ASSUME KeepsAccount(here), Account!ReverifyOffline
  PROVE  KeepsAccount(here')
<1>1. /\ here \in AccountRecord /\ ClientInv(here) /\ OneUser(here) /\ here.phase = "offline"
      /\ here.op < MaxOperations /\ here.ref \in People \cup {0} /\ here.client # 0
      /\ here.op \in Numbers
  BY RecordFacts DEF KeepsAccount, Account!ReverifyOffline, Account!C, ClientInv, Usable
<1>2. PICK b, u, n : b = Account!Begin(here, "identity", here.ref) /\ u = here.ref /\ n = here.op + 1
  OBVIOUS
<1>3. /\ b \in AccountRecord /\ LatestOnly(b) /\ b.op = here.op + 1 /\ (\A o \in b.built : o <= b.op)
      /\ b.phase = "offline" /\ b.left = here.left /\ b.stored = here.stored
      /\ b.cached = here.cached /\ b.identity = here.identity
  <2>1. "identity" \in Steps /\ here.phase \notin {"loading", "signing-in"}
    BY <1>1 DEF Steps
  <2> QED BY <1>1, <1>2, <2>1, OperationBegins
<1>4. n \in Numbers /\ n = b.op
  BY <1>1, <1>2, <1>3, RecordFacts
<1>5. here' = [Account!VerifyGateway(b, b.op, u) EXCEPT !.reverifying = n]
  BY <1>2, <1>4 DEF Account!ReverifyOffline, Account!C
<1>6. PICK phase, phaseOp : phase = b.phase /\ phaseOp = b.phaseOp
  OBVIOUS
<1>7. here' = Verifying(b, u, phase, phaseOp, n)
  BY ZenonT(60), <1>3, <1>5, <1>6 DEF Verifying, Account!VerifyGateway, AccountRecord
<1>8. /\ phase \in {"loading", "signing-in", "offline"} /\ phaseOp \in Numbers
      /\ n \in Numbers \cup {0} /\ u \in People \cup {0}
  BY <1>1, <1>2, <1>3, <1>4, <1>6 DEF AccountRecord
<1>9. ~b.left => b.stored = u /\ b.cached \subseteq {u} /\ (phase = "offline" => b.identity = u)
  BY <1>1, <1>2, <1>3 DEF OneUser, Usable
<1>10. b \in AccountRecord /\ LatestOnly(b) /\ (\A o \in b.built : o <= b.op)
  BY <1>3
<1> QED BY ONLY <1>7, <1>8, <1>9, <1>10, VerificationStarts

LEMMA RetryKeeps ==
  ASSUME KeepsAccount(here), Account!Retry
  PROVE  KeepsAccount(here')
<1>1. /\ here \in AccountRecord /\ ClientInv(here) /\ OneUser(here) /\ here.phase = "error"
      /\ here.op < MaxOperations /\ here.ref \in People \cup {0} /\ here.op \in Numbers
      /\ 0 \in People \cup {0}
  BY RecordFacts DEF KeepsAccount, Account!Retry, Account!C
<1>2. "identity" \in Steps /\ "load" \in Steps /\ here.phase \notin {"loading", "signing-in"}
  BY <1>1 DEF Steps
<1>3. CASE here.ref = 0
  <2>1. PICK b, n : b = Account!Begin(here, "load", 0) /\ n = here.op + 1
    OBVIOUS
  <2>2. /\ b \in AccountRecord /\ LatestOnly(b) /\ b.op = here.op + 1 /\ b.at[b.op] = "load"
        /\ (\A o \in b.built : o <= b.op)
        /\ b.left = here.left /\ b.stored = here.stored /\ b.cached = here.cached
        /\ b.client = here.client /\ b.ref = here.ref
        /\ here.client < b.op /\ (here.client # 0 => b.who[here.client] = here.who[here.client])
    BY <1>1, <1>2, <2>1, OperationBegins
  <2>3. n \in Numbers /\ n = b.op
    BY <1>1, <2>1, <2>2, RecordFacts
  <2>4. here' = [b EXCEPT !.phase = "loading", !.phaseOp = n]
    BY <1>3, <2>1 DEF Account!Retry, Account!C, Account!Show
  <2>5. /\ here' \in AccountRecord /\ here'.op = b.op /\ here'.at = b.at /\ here'.built = b.built
        /\ here'.left = b.left /\ here'.stored = b.stored /\ here'.cached = b.cached
        /\ here'.client = b.client /\ here'.ref = b.ref /\ here'.who = b.who
        /\ here'.phase = "loading"
    BY <2>2, <2>3, <2>4 DEF AccountRecord, Phases
  <2>6. OnScreen(here') /\ LatestOnly(here')
    BY <2>2, <2>5 DEF OnScreen, LatestOnly, SigningIn, Leaving
  <2>7. ClientInv(here')
    <3>1. here.client <= b.op
      BY <1>1, <2>2, <2>3, RecordFacts
    <3> QED BY <2>2, <2>5, <3>1 DEF ClientInv, Usable
  <2>8. OneUser(here')
    BY <1>1, <2>2, <2>5 DEF OneUser, SigningIn, Leaving, Usable
  <2> QED BY <2>5, <2>6, <2>7, <2>8 DEF KeepsAccount
<1>4. CASE here.ref # 0
  <2>1. PICK b, u, n : b = Account!Begin(here, "identity", here.ref) /\ u = here.ref
                       /\ n = here.op + 1
    OBVIOUS
  <2>2. /\ b \in AccountRecord /\ LatestOnly(b) /\ b.op = here.op + 1
        /\ (\A o \in b.built : o <= b.op)
        /\ b.left = here.left /\ b.stored = here.stored /\ b.cached = here.cached
    BY <1>1, <1>2, <2>1, OperationBegins
  <2>3. n \in Numbers /\ n = b.op
    BY <1>1, <2>1, <2>2, RecordFacts
  <2>4. PICK phase, waits : phase = "loading" /\ waits = b.reverifying
    OBVIOUS
  <2>5. here' = Verifying(b, u, phase, n, waits)
    <3>1. PICK e : e = Account!VerifyGateway(b, b.op, u)
      OBVIOUS
    <3>2. here' = [e EXCEPT !.phase = phase, !.phaseOp = n]
      BY <1>4, <2>1, <2>3, <2>4, <3>1 DEF Account!Retry, Account!C, Account!Show
    <3>3. e.reverifying = waits /\ [e EXCEPT !.reverifying = waits] = e
      BY <2>2, <2>4, <3>1 DEF Account!VerifyGateway, AccountRecord
    <3>4. [e EXCEPT !.phase = phase, !.phaseOp = n]
            = [e EXCEPT !.phase = phase, !.phaseOp = n, !.reverifying = waits]
      BY ZenonT(60), <2>2, <3>1, <3>3 DEF Account!VerifyGateway, AccountRecord
    <3>5. here' = [e EXCEPT !.phase = phase, !.phaseOp = n, !.reverifying = waits]
      BY <3>2, <3>4
    <3>6. Verifying(b, u, phase, n, waits)
            = [e EXCEPT !.phase = phase, !.phaseOp = n, !.reverifying = waits]
      BY <3>1 DEF Verifying
    <3> QED BY <3>5, <3>6
  <2>6. /\ phase \in {"loading", "signing-in", "offline"} /\ n \in Numbers
        /\ waits \in Numbers \cup {0} /\ u \in People \cup {0}
    BY <1>1, <2>1, <2>2, <2>3, <2>4 DEF AccountRecord
  <2>7. ~b.left => b.stored = u /\ b.cached \subseteq {u} /\ (phase = "offline" => b.identity = u)
    BY <1>1, <1>4, <2>1, <2>2, <2>4 DEF OneUser
  <2>8. b \in AccountRecord /\ LatestOnly(b) /\ (\A o \in b.built : o <= b.op)
    BY <2>2
  <2> QED BY ONLY <2>5, <2>6, <2>7, <2>8, VerificationStarts
<1> QED BY <1>3, <1>4

LEMMA SignInKeeps ==
  ASSUME KeepsAccount(here), NEW u \in People, Account!SignIn(u)
  PROVE  KeepsAccount(here')
<1>1. /\ here \in AccountRecord /\ ClientInv(here) /\ OneUser(here)
      /\ here.phase \in {"disconnected", "error"}
      /\ here.op < MaxOperations /\ u \in People \cup {0} /\ here.op \in Numbers
      /\ here.client \in Nat /\ here.op \in Nat
  BY RecordFacts DEF KeepsAccount, Account!SignIn, Account!C
<1>2. "purge" \in Steps /\ here.phase \notin {"loading", "signing-in"}
  BY <1>1 DEF Steps
<1>3. PICK b : b = Account!Begin(here, "purge", u)
  OBVIOUS
<1>4. /\ b \in AccountRecord /\ LatestOnly(b) /\ b.op = here.op + 1 /\ b.at[b.op] = "purge"
      /\ (\A o \in b.built : o <= b.op) /\ b.phase = here.phase
      /\ b.left = here.left /\ b.stored = here.stored /\ b.cached = here.cached
      /\ b.client = here.client /\ b.ref = here.ref
      /\ here.client < b.op /\ (here.client # 0 => b.who[here.client] = here.who[here.client])
  BY <1>1, <1>2, <1>3, OperationBegins
<1>5. here' = b
  BY <1>3 DEF Account!SignIn, Account!C
<1>6. OnScreen(b)
  BY <1>1, <1>4 DEF OnScreen, SigningIn, Leaving
<1>7. ClientInv(b)
  <2>1. b.client <= b.op
    BY <1>1, <1>4
  <2> QED BY <1>1, <1>4, <2>1 DEF ClientInv, Usable
<1>8. OneUser(b)
  BY <1>1, <1>4 DEF OneUser, SigningIn, Leaving, Usable
<1> QED BY <1>4, <1>5, <1>6, <1>7, <1>8 DEF KeepsAccount

LEMMA DisconnectKeeps ==
  ASSUME KeepsAccount(here), Account!Disconnect
  PROVE  KeepsAccount(here')
<1>1. /\ here \in AccountRecord /\ ClientInv(here) /\ OneUser(here)
      /\ here.phase \in {"connected", "offline", "error"}
      /\ here.op < MaxOperations /\ 0 \in People \cup {0} /\ here.op \in Numbers
      /\ here.client \in Nat /\ here.op \in Nat
  BY RecordFacts DEF KeepsAccount, Account!Disconnect, Account!C
<1>2. "clearCache" \in Steps /\ here.phase \notin {"loading", "signing-in"}
  BY <1>1 DEF Steps, Leaving
<1>3. PICK b, n : b = Account!Begin(here, "clearCache", 0) /\ n = here.op + 1
  OBVIOUS
<1>4. /\ b \in AccountRecord /\ LatestOnly(b) /\ b.op = here.op + 1 /\ b.at[b.op] = "clearCache"
      /\ (\A o \in b.built : o <= b.op)
      /\ b.left = here.left /\ b.stored = here.stored /\ b.cached = here.cached
      /\ b.client = here.client /\ b.ref = here.ref
      /\ here.client < b.op /\ (here.client # 0 => b.who[here.client] = here.who[here.client])
  BY <1>1, <1>2, <1>3, OperationBegins
<1>5. n \in Numbers /\ n = b.op
  BY <1>1, <1>3, <1>4, RecordFacts
<1>6. here' = [b EXCEPT !.phase = "loading", !.phaseOp = n]
  BY <1>3 DEF Account!Disconnect, Account!C, Account!Show
<1>7. /\ here' \in AccountRecord /\ here'.op = b.op /\ here'.at = b.at /\ here'.built = b.built
      /\ here'.left = b.left /\ here'.stored = b.stored /\ here'.cached = b.cached
      /\ here'.client = b.client /\ here'.ref = b.ref /\ here'.who = b.who
      /\ here'.phase = "loading"
  BY <1>4, <1>5, <1>6 DEF AccountRecord, Phases
<1>8. OnScreen(here') /\ LatestOnly(here')
  BY <1>4, <1>7 DEF OnScreen, LatestOnly, SigningIn, Leaving
<1>9. ClientInv(here')
  <2>1. b.client <= b.op
    BY <1>1, <1>4
  <2> QED BY <1>4, <1>7, <2>1 DEF ClientInv, Usable
<1>10. OneUser(here')
  BY <1>1, <1>4, <1>7 DEF OneUser, SigningIn, Leaving, Usable
<1> QED BY <1>7, <1>8, <1>9, <1>10 DEF KeepsAccount

LEMMA PurgeKeeps ==
  ASSUME KeepsAccount(here), NEW o \in Numbers, Account!Purged(o)
  PROVE  KeepsAccount(here')
<1>1. /\ here \in AccountRecord /\ OnScreen(here) /\ LatestOnly(here) /\ ClientInv(here)
      /\ OneUser(here) /\ here.at[o] = "purge"
      /\ here.op \in Numbers /\ here.at \in [Numbers -> Steps]
  BY RecordFacts DEF KeepsAccount, Account!Purged, Account!C
<1>2. PICK at : at = [here.at EXCEPT ![o] = "password"]
  OBVIOUS
<1>3. /\ at \in [Numbers -> Steps] /\ at[o] = "password"
      /\ \A m \in Numbers : m # o => at[m] = here.at[m]
  BY <1>1, <1>2 DEF Steps, SigningIn
<1>4. here' = [here EXCEPT !.phase = "signing-in", !.phaseOp = o, !.cached = {}, !.at = at]
  BY <1>1, <1>2 DEF Account!Purged, Account!C, Account!Show, AccountRecord
<1>5. /\ here' \in AccountRecord /\ here'.at = at /\ here'.op = here.op /\ here'.who = here.who
      /\ here'.phase = "signing-in" /\ here'.client = here.client /\ here'.built = here.built
      /\ here'.ref = here.ref /\ here'.stored = here.stored /\ here'.cached = {}
      /\ here'.left = here.left
  BY <1>1, <1>3, <1>4 DEF AccountRecord, Phases
<1>6. OnScreen(here')
  <2>1. at[here.op] # "none"
    BY <1>1, <1>3 DEF OnScreen
  <2> QED BY <1>5, <2>1 DEF OnScreen
<1>7. LatestOnly(here')
  <2>1. at[o] \notin {"load"} \cup Leaving
    BY <1>3 DEF Leaving
  <2>2. ~(o > here.op)
    BY <1>1 DEF LatestOnly
  <2> QED BY <1>1, <1>3, <1>5, <2>1, <2>2 DEF LatestOnly
<1>8. ClientInv(here')
  <2>1. at[here.op] = "identity" => here.at[here.op] = "identity"
    BY <1>1, <1>3
  <2> QED BY <1>1, <1>5, <2>1 DEF ClientInv, Usable
<1>9. OneUser(here')
  BY <1>1, <1>5 DEF OneUser, Usable
<1> QED BY <1>5, <1>6, <1>7, <1>8, <1>9 DEF KeepsAccount

LEMMA SignInFailureKeeps ==
  ASSUME KeepsAccount(here), NEW o \in Numbers, Account!SignInFails(o)
  PROVE  KeepsAccount(here')
<1>1. /\ here \in AccountRecord /\ OnScreen(here) /\ LatestOnly(here) /\ ClientInv(here)
      /\ OneUser(here) /\ here.at[o] \in {"password", "session", "save"}
      /\ here.op \in Numbers /\ here.at \in [Numbers -> Steps]
  BY RecordFacts DEF KeepsAccount, Account!SignInFails, Account!C
<1>2. PICK waits \in Numbers \cup {0} :
        Account!Over(here, o) = [here EXCEPT !.at[o] = "over", !.reverifying = waits]
  BY <1>1, OverIs
<1>3. PICK at : at = [here.at EXCEPT ![o] = "over"]
  OBVIOUS
<1>4. at \in [Numbers -> Steps] /\ at[o] = "over"
  BY <1>1, <1>3 DEF Steps
<1>5. CASE o # here.op
  <2>1. here' = [here EXCEPT !.at = at, !.reverifying = waits]
    BY <1>1, <1>2, <1>3, <1>5 DEF Account!SignInFails, Account!C, Account!IsCurrent, AccountRecord
  <2>2. /\ here' \in AccountRecord /\ here'.at = at /\ here'.op = here.op /\ here'.who = here.who
        /\ here'.phase = here.phase /\ here'.identity = here.identity /\ here'.client = here.client
        /\ here'.built = here.built /\ here'.ref = here.ref /\ here'.stored = here.stored
        /\ here'.cached = here.cached /\ here'.left = here.left
    BY <1>1, <1>4, <2>1 DEF AccountRecord
  <2> QED BY <1>1, <1>3, <1>5, <2>2, SupersededGoesOn
<1>6. CASE o = here.op
  <2>1. here' = [here EXCEPT !.at = at, !.reverifying = waits, !.phase = "error", !.phaseOp = o]
    BY <1>1, <1>2, <1>3, <1>6
       DEF Account!SignInFails, Account!C, Account!IsCurrent, Account!Show, AccountRecord
  <2>2. /\ here' \in AccountRecord /\ here'.at = at /\ here'.op = here.op /\ here'.who = here.who
        /\ here'.phase = "error" /\ here'.client = here.client
        /\ here'.built = here.built /\ here'.ref = here.ref /\ here'.stored = here.stored
        /\ here'.cached = here.cached /\ here'.left = here.left
    BY <1>1, <1>4, <2>1 DEF AccountRecord, Phases
  <2>3. OnScreen(here')
    BY <1>4, <1>6, <2>2 DEF OnScreen, Leaving, SigningIn
  <2>4. ClientInv(here')
    BY <1>1, <1>4, <1>6, <2>2 DEF ClientInv, Usable
  <2>5. OneUser(here')
    BY <1>1, <1>4, <1>6, <2>2 DEF OneUser, SigningIn, Leaving, Usable
  <2> QED BY <1>3, <1>6, <2>2, <2>3, <2>4, <2>5, LatestGoesOn
<1> QED BY <1>5, <1>6

\* The two awaits between the password and the record.
LEMMA SigningInKeeps ==
  ASSUME KeepsAccount(here), NEW o \in Numbers, Account!PasswordAccepted(o) \/ Account!SessionCleared(o)
  PROVE  KeepsAccount(here')
<1>1. /\ here \in AccountRecord /\ OnScreen(here) /\ LatestOnly(here) /\ ClientInv(here)
      /\ OneUser(here) /\ here.at[o] \in SigningIn
      /\ here.op \in Numbers /\ here.at \in [Numbers -> Steps]
  BY RecordFacts DEF KeepsAccount, Account!PasswordAccepted, Account!SessionCleared, Account!C,
                     SigningIn
<1>2. PICK step \in {"session", "save"}, session \in BOOLEAN :
        here' = [here EXCEPT !.at = [here.at EXCEPT ![o] = step], !.session = session]
  <2>1. CASE Account!PasswordAccepted(o)
    <3>1. here' = [here EXCEPT !.at = [here.at EXCEPT ![o] = "session"], !.session = here.session]
      BY <1>1, <2>1 DEF Account!PasswordAccepted, Account!C, AccountRecord
    <3>2. here.session \in BOOLEAN
      BY <1>1 DEF AccountRecord
    <3> QED BY <3>1, <3>2
  <2>2. CASE Account!SessionCleared(o)
    <3>1. here' = [here EXCEPT !.at = [here.at EXCEPT ![o] = "save"], !.session = FALSE]
      BY <1>1, <2>2 DEF Account!SessionCleared, Account!C, AccountRecord
    <3> QED BY <3>1
  <2> QED BY <2>1, <2>2
<1>3. PICK at : at = [here.at EXCEPT ![o] = step]
  OBVIOUS
<1>4. at \in [Numbers -> Steps] /\ at[o] = step /\ step \in SigningIn
  BY <1>1, <1>3 DEF Steps, SigningIn
<1>5. /\ here' \in AccountRecord /\ here'.at = at /\ here'.op = here.op /\ here'.who = here.who
      /\ here'.phase = here.phase /\ here'.identity = here.identity /\ here'.client = here.client
      /\ here'.built = here.built /\ here'.ref = here.ref /\ here'.stored = here.stored
      /\ here'.cached = here.cached /\ here'.left = here.left
  BY <1>1, <1>2, <1>3, <1>4 DEF AccountRecord
<1>6. CASE o # here.op
  <2>1. step \in SigningIn \cup {"over"} /\ here.at[o] # "none"
    BY <1>1, <1>4 DEF SigningIn
  <2> QED BY <1>3, <1>5, <1>6, <2>1, SupersededGoesOn
<1>7. CASE o = here.op
  <2>1. OnScreen(here')
    BY <1>1, <1>4, <1>5, <1>7 DEF OnScreen, SigningIn, Leaving
  <2>2. ClientInv(here')
    BY <1>1, <1>4, <1>5, <1>7 DEF ClientInv, SigningIn
  <2>3. OneUser(here')
    BY <1>1, <1>4, <1>5, <1>7 DEF OneUser, SigningIn, Leaving
  <2> QED BY <1>3, <1>5, <1>7, <2>1, <2>2, <2>3, LatestGoesOn
<1> QED BY <1>6, <1>7

LEMMA SavingKeeps ==
  ASSUME KeepsAccount(here), NEW o \in Numbers, Account!RecordSaved(o)
  PROVE  KeepsAccount(here')
<1>1. /\ here \in AccountRecord /\ OnScreen(here) /\ LatestOnly(here) /\ ClientInv(here)
      /\ OneUser(here) /\ here.at[o] = "save"
      /\ here.op \in Numbers /\ here.at \in [Numbers -> Steps] /\ here.who[o] \in People \cup {0}
      /\ here.left \in BOOLEAN
  BY RecordFacts DEF KeepsAccount, Account!RecordSaved, Account!C
<1>2. PICK user, left, c : /\ user = here.who[o] /\ left = (here.left \/ o # here.op)
                           /\ c = [here EXCEPT !.stored = user, !.left = left]
  OBVIOUS
<1>3. /\ c \in AccountRecord /\ c.at = here.at /\ c.op = here.op /\ c.who = here.who
      /\ c.phase = here.phase /\ c.identity = here.identity /\ c.client = here.client
      /\ c.built = here.built /\ c.ref = here.ref /\ c.stored = user
      /\ c.cached = here.cached /\ c.left = left
  BY ZenonT(60), <1>1, <1>2 DEF AccountRecord
<1>4. CASE o = here.op
  <2>1. here' = Account!VerifyGateway(c, c.op, user)
    BY <1>1, <1>2, <1>3, <1>4 DEF Account!RecordSaved, Account!C, Account!IsCurrent, AccountRecord
  <2>2. /\ c.phase \in {"loading", "signing-in"} /\ LatestOnly(c) /\ (\A m \in c.built : m <= c.op)
        /\ user \in People \cup {0}
    BY <1>1, <1>2, <1>3, <1>4 DEF OnScreen, SigningIn, LatestOnly, ClientInv
  <2>3. ~c.left => c.stored = user /\ c.cached \subseteq {user}
    BY <1>1, <1>2, <1>3, <1>4 DEF OneUser, SigningIn
  <2> QED BY <1>3, <2>1, <2>2, <2>3, VerificationGoesOn
<1>5. CASE o # here.op
  <2>1. PICK waits \in Numbers \cup {0} :
          Account!Over(c, o) = [c EXCEPT !.at[o] = "over", !.reverifying = waits]
    BY <1>3, OverIs
  <2>2. PICK at : at = [here.at EXCEPT ![o] = "over"]
    OBVIOUS
  <2>3. at \in [Numbers -> Steps]
    BY <1>1, <2>2 DEF Steps
  <2>4. here' = [c EXCEPT !.at = at, !.reverifying = waits]
    BY <1>1, <1>2, <1>3, <1>5, <2>1, <2>2
       DEF Account!RecordSaved, Account!C, Account!IsCurrent, AccountRecord
  <2>5. /\ here' \in AccountRecord /\ here'.at = at /\ here'.op = here.op /\ here'.who = here.who
        /\ here'.phase = here.phase /\ here'.identity = here.identity /\ here'.client = here.client
        /\ here'.built = here.built /\ here'.ref = here.ref /\ here'.cached = here.cached
        /\ here'.left = left
    BY <1>3, <2>3, <2>4 DEF AccountRecord
  <2>6. here'.left
    BY <1>2, <1>5, <2>5
  <2> QED BY <1>1, <1>5, <2>2, <2>5, <2>6, SupersededGoesOn
<1> QED BY <1>4, <1>5

LEMMA CachePurgeKeeps ==
  ASSUME KeepsAccount(here), NEW o \in Numbers, Account!CacheCleared(o)
  PROVE  KeepsAccount(here')
<1>1. /\ here \in AccountRecord /\ OnScreen(here) /\ LatestOnly(here) /\ ClientInv(here)
      /\ OneUser(here) /\ here.at[o] = "clearCache"
      /\ here.op \in Numbers /\ here.at \in [Numbers -> Steps]
  BY RecordFacts DEF KeepsAccount, Account!CacheCleared, Account!C
<1>2. o = here.op /\ here.phase \in {"loading", "signing-in"}
  <2>1. o = here.op
    BY <1>1 DEF LatestOnly, Leaving
  <2> QED BY <1>1, <2>1 DEF OnScreen, Leaving
<1>3. PICK at : at = [here.at EXCEPT ![o] = "clearSession"]
  OBVIOUS
<1>4. at \in [Numbers -> Steps] /\ at[o] = "clearSession"
  BY <1>1, <1>3 DEF Steps, Leaving
<1>5. here' = [here EXCEPT !.cached = {}, !.at = at]
  BY <1>1, <1>3 DEF Account!CacheCleared, Account!C, AccountRecord
<1>6. /\ here' \in AccountRecord /\ here'.at = at /\ here'.op = here.op /\ here'.who = here.who
      /\ here'.phase = here.phase /\ here'.client = here.client /\ here'.built = here.built
      /\ here'.ref = here.ref /\ here'.stored = here.stored /\ here'.cached = {}
      /\ here'.left = here.left
  BY <1>1, <1>4, <1>5 DEF AccountRecord
<1>7. OnScreen(here')
  BY <1>2, <1>4, <1>6 DEF OnScreen, Leaving, SigningIn
<1>8. ClientInv(here')
  BY <1>1, <1>2, <1>4, <1>6 DEF ClientInv, Usable
<1>9. OneUser(here')
  BY <1>1, <1>2, <1>6 DEF OneUser, Usable
<1> QED BY <1>2, <1>3, <1>6, <1>7, <1>8, <1>9, LatestGoesOn

LEMMA SessionPurgeKeeps ==
  ASSUME KeepsAccount(here), NEW o \in Numbers, Account!ActiveSessionCleared(o)
  PROVE  KeepsAccount(here')
<1>1. /\ here \in AccountRecord /\ OnScreen(here) /\ LatestOnly(here) /\ ClientInv(here)
      /\ OneUser(here) /\ here.at[o] = "clearSession"
      /\ here.op \in Numbers /\ here.at \in [Numbers -> Steps]
  BY RecordFacts DEF KeepsAccount, Account!ActiveSessionCleared, Account!C
<1>2. /\ o = here.op /\ here.phase \in {"loading", "signing-in"}
      /\ (~here.left => here.cached = {})
  <2>1. o = here.op
    BY <1>1 DEF LatestOnly, Leaving
  <2> QED BY <1>1, <2>1 DEF OnScreen, Leaving, OneUser
<1>3. CASE here' = [here EXCEPT !.session = FALSE, !.at[o] = "clearRecord"]
  <2>1. PICK at : at = [here.at EXCEPT ![o] = "clearRecord"]
    OBVIOUS
  <2>2. at \in [Numbers -> Steps] /\ at[o] = "clearRecord"
    BY <1>1, <2>1 DEF Steps, Leaving
  <2>3. here' = [here EXCEPT !.session = FALSE, !.at = at]
    BY <1>1, <1>3, <2>1 DEF AccountRecord
  <2>4. /\ here' \in AccountRecord /\ here'.at = at /\ here'.op = here.op /\ here'.who = here.who
        /\ here'.phase = here.phase /\ here'.client = here.client /\ here'.built = here.built
        /\ here'.ref = here.ref /\ here'.stored = here.stored /\ here'.cached = here.cached
        /\ here'.left = here.left
    BY <1>1, <2>2, <2>3 DEF AccountRecord
  <2>5. OnScreen(here')
    BY <1>2, <2>2, <2>4 DEF OnScreen, Leaving, SigningIn
  <2>6. ClientInv(here')
    BY <1>1, <1>2, <2>2, <2>4 DEF ClientInv, Usable
  <2>7. OneUser(here')
    BY <1>1, <1>2, <2>4 DEF OneUser, Usable
  <2> QED BY <1>2, <2>1, <2>4, <2>5, <2>6, <2>7, LatestGoesOn
<1>4. CASE here' = Account!Show(Account!Over(here, o), o, "error")
  <2>1. PICK waits \in Numbers \cup {0} :
          Account!Over(here, o) = [here EXCEPT !.at[o] = "over", !.reverifying = waits]
    BY <1>1, OverIs
  <2>2. PICK at : at = [here.at EXCEPT ![o] = "over"]
    OBVIOUS
  <2>3. at \in [Numbers -> Steps] /\ at[o] = "over"
    BY <1>1, <2>2 DEF Steps
  <2>4. here' = [here EXCEPT !.at = at, !.reverifying = waits, !.phase = "error", !.phaseOp = o]
    BY <1>1, <1>4, <2>1, <2>2 DEF Account!Show, AccountRecord
  <2>5. /\ here' \in AccountRecord /\ here'.at = at /\ here'.op = here.op /\ here'.who = here.who
        /\ here'.phase = "error" /\ here'.client = here.client /\ here'.built = here.built
        /\ here'.ref = here.ref /\ here'.stored = here.stored /\ here'.cached = here.cached
        /\ here'.left = here.left
    BY <1>1, <2>3, <2>4 DEF AccountRecord, Phases
  <2>6. OnScreen(here')
    BY <1>2, <2>3, <2>5 DEF OnScreen, Leaving, SigningIn
  <2>7. ClientInv(here')
    BY <1>1, <1>2, <2>3, <2>5 DEF ClientInv, Usable
  <2>8. OneUser(here')
    BY <1>1, <1>2, <2>5 DEF OneUser, Usable
  <2> QED BY <1>2, <2>2, <2>5, <2>6, <2>7, <2>8, LatestGoesOn
<1> QED BY <1>2, <1>3, <1>4 DEF Account!ActiveSessionCleared, Account!C, Account!IsCurrent

LEMMA RecordPurgeKeeps ==
  ASSUME KeepsAccount(here), NEW o \in Numbers, Account!RecordCleared(o)
  PROVE  KeepsAccount(here')
<1>1. /\ here \in AccountRecord /\ OnScreen(here) /\ LatestOnly(here) /\ ClientInv(here)
      /\ OneUser(here) /\ here.at[o] = "clearRecord"
      /\ here.op \in Numbers /\ here.at \in [Numbers -> Steps]
      /\ here.stored \in People \cup {0} /\ here.left \in BOOLEAN
      /\ \A m \in here.built : m <= here.op
  BY RecordFacts DEF KeepsAccount, Account!RecordCleared, Account!C, ClientInv
<1>2. o = here.op /\ (~here.left => here.cached = {})
  <2>1. o = here.op
    BY <1>1 DEF LatestOnly, Leaving
  <2> QED BY <1>1, <2>1 DEF Leaving, OneUser
<1>3. PICK waits \in Numbers \cup {0} :
        Account!Over(here, o) = [here EXCEPT !.at[o] = "over", !.reverifying = waits]
  BY <1>1, OverIs
<1>4. PICK at : at = [here.at EXCEPT ![o] = "over"]
  OBVIOUS
<1>5. at \in [Numbers -> Steps] /\ at[o] = "over"
  BY <1>1, <1>4 DEF Steps
<1>6. PICK stored \in People \cup {0}, left \in BOOLEAN :
        /\ here' = [here EXCEPT !.at = at, !.reverifying = waits, !.stored = stored, !.left = left,
                                !.phase = "disconnected", !.phaseOp = o, !.client = 0, !.ref = 0]
        /\ ~left => ~here.left /\ stored = 0
  <2>1. PICK deleted \in BOOLEAN :
          here' = Account!SignedOut([Account!Over(here, o)
                                       EXCEPT !.stored = IF deleted THEN 0 ELSE @,
                                              !.left = @ \/ ~deleted], o)
    BY <1>2 DEF Account!RecordCleared, Account!C, Account!IsCurrent
  <2>2. PICK stored, left : /\ stored = (IF deleted THEN 0 ELSE here.stored)
                            /\ left = (here.left \/ ~deleted)
    OBVIOUS
  <2>3. here' = [here EXCEPT !.at = at, !.reverifying = waits, !.stored = stored, !.left = left,
                             !.phase = "disconnected", !.phaseOp = o, !.client = 0, !.ref = 0]
    BY <1>1, <1>3, <1>4, <2>1, <2>2 DEF Account!SignedOut, Account!Show, AccountRecord
  <2>4. stored \in People \cup {0} /\ left \in BOOLEAN /\ (~left => ~here.left /\ stored = 0)
    BY <1>1, <2>2
  <2> QED BY <2>3, <2>4
<1>7. /\ here' \in AccountRecord /\ here'.at = at /\ here'.op = here.op /\ here'.who = here.who
      /\ here'.phase = "disconnected" /\ here'.client = 0 /\ here'.built = here.built
      /\ here'.ref = 0 /\ here'.stored = stored /\ here'.cached = here.cached
      /\ here'.left = left
  BY <1>1, <1>5, <1>6 DEF AccountRecord, Phases
<1>8. OnScreen(here')
  BY <1>2, <1>5, <1>7 DEF OnScreen, Leaving, SigningIn
<1>9. ClientInv(here')
  BY <1>1, <1>2, <1>5, <1>7, RecordFacts DEF ClientInv, Usable
<1>10. OneUser(here')
  BY <1>1, <1>2, <1>6, <1>7 DEF OneUser, Usable
<1> QED BY <1>2, <1>4, <1>7, <1>8, <1>9, <1>10, LatestGoesOn

\* What happens beside the operations: the numbers and their places stay.
LEMMA BesidesKeeps ==
  ASSUME KeepsAccount(here), NEW o \in Numbers, Account!TokensRotated(o) \/ Account!Reads
  PROVE  KeepsAccount(here')
<1>1. /\ here \in AccountRecord /\ OnScreen(here) /\ LatestOnly(here) /\ ClientInv(here)
      /\ OneUser(here) /\ here.op \in Numbers /\ here.who[o] \in People \cup {0} /\ o # 0
      /\ here.left \in BOOLEAN /\ here.who \in [Numbers -> People \cup {0}]
      /\ here.cached \in SUBSET (People \cup {0}) /\ here.client \in Numbers \cup {0}
  BY RecordFacts DEF KeepsAccount
<1>2. CASE Account!TokensRotated(o)
  <2>1. PICK user, left, rotations :
          user = here.who[o] /\ left = (here.left \/ o # here.client)
          /\ rotations = here.rotations + 1
    OBVIOUS
  <2>2. here' = [here EXCEPT !.ref = user, !.stored = user, !.rotations = rotations, !.left = left]
    BY <1>1, <1>2, <2>1 DEF Account!TokensRotated, Account!C, AccountRecord
  <2>3. user \in People \cup {0} /\ left \in BOOLEAN /\ rotations \in Nat
    BY <1>1, <2>1 DEF AccountRecord
  <2>4. /\ here' \in AccountRecord /\ here'.at = here.at /\ here'.op = here.op
        /\ here'.who = here.who /\ here'.phase = here.phase /\ here'.client = here.client
        /\ here'.built = here.built /\ here'.ref = user /\ here'.stored = user
        /\ here'.cached = here.cached /\ here'.left = left /\ here'.identity = here.identity
    BY <1>1, <2>2, <2>3 DEF AccountRecord
  <2>5. OnScreen(here') /\ LatestOnly(here') /\ ClientInv(here')
    BY <1>1, <2>4 DEF OnScreen, LatestOnly, ClientInv
  <2>6. OneUser(here')
    <3> SUFFICES ASSUME ~left PROVE OneUser(here')
      BY <2>4 DEF OneUser
    <3>1. ~here.left /\ o = here.client
      BY <2>1
    <3> QED BY <1>1, <2>1, <2>4, <3>1 DEF OneUser, ClientInv
  <2> QED BY <2>4, <2>5, <2>6 DEF KeepsAccount
<1>3. CASE Account!Reads
  <2>1. PICK cached : cached = here.cached \cup {here.who[here.client]}
    OBVIOUS
  <2>2. here' = [here EXCEPT !.cached = cached, !.session = TRUE]
    BY <1>1, <1>3, <2>1 DEF Account!Reads, Account!C, AccountRecord
  <2>3. here.phase \in Usable /\ here.client # 0
    BY <1>3 DEF Account!Reads, Account!C, Account!Usable, Usable
  <2>4. cached \in SUBSET (People \cup {0})
    BY <1>1, <2>1, <2>3
  <2>5. /\ here' \in AccountRecord /\ here'.at = here.at /\ here'.op = here.op
        /\ here'.who = here.who /\ here'.phase = here.phase /\ here'.client = here.client
        /\ here'.built = here.built /\ here'.ref = here.ref /\ here'.stored = here.stored
        /\ here'.cached = cached /\ here'.left = here.left /\ here'.identity = here.identity
    BY <1>1, <2>2, <2>4 DEF AccountRecord
  <2>6. OnScreen(here') /\ LatestOnly(here') /\ ClientInv(here')
    BY <1>1, <2>5 DEF OnScreen, LatestOnly, ClientInv
  <2>7. here.at[here.op] \notin SigningIn \cup Leaving
    BY <1>1, <2>3 DEF OnScreen, Usable
  <2>8. OneUser(here')
    BY <1>1, <2>1, <2>3, <2>5, <2>7 DEF OneUser
  <2> QED BY <2>5, <2>6, <2>8 DEF KeepsAccount
<1> QED BY <1>2, <1>3

LEMMA AccountSteps == AccountInv /\ Account!Next => AccountInv'
<1> SUFFICES ASSUME KeepsAccount(here), Account!Next PROVE KeepsAccount(here')
  BY DEF AccountInv
<1>1. Account!Operations = Numbers
  BY DEF Account!Operations, Numbers
<1>2. CASE Account!ReverifyOffline \/ Account!Retry \/ Account!Disconnect
  BY <1>2, ReverifyKeeps, RetryKeeps, DisconnectKeeps
<1>3. ASSUME NEW u \in People, Account!SignIn(u) PROVE KeepsAccount(here')
  BY <1>3, SignInKeeps
<1>4. CASE Account!Reads
  <2>1. here.op \in Numbers
    BY RecordFacts DEF KeepsAccount
  <2> QED BY <1>4, <2>1, BesidesKeeps
<1>5. ASSUME NEW o \in Numbers, Account!TokensRotated(o) PROVE KeepsAccount(here')
  BY <1>5, BesidesKeeps
<1>6. ASSUME NEW o \in Numbers, Account!Settles(o) PROVE KeepsAccount(here')
  <2>1. CASE Account!RecordLoaded(o) \/ Account!IdentityAnswered(o)
    BY <2>1, RestoreKeeps, IdentityKeeps
  <2>2. CASE Account!Purged(o) \/ Account!PasswordAccepted(o) \/ Account!SessionCleared(o)
    BY <2>2, PurgeKeeps, SigningInKeeps
  <2>3. CASE Account!RecordSaved(o) \/ Account!SignInFails(o)
    BY <2>3, SavingKeeps, SignInFailureKeeps
  <2>4. CASE Account!CacheCleared(o) \/ Account!ActiveSessionCleared(o) \/ Account!RecordCleared(o)
    BY <2>4, CachePurgeKeeps, SessionPurgeKeeps, RecordPurgeKeeps
  <2> QED BY <1>6, <2>1, <2>2, <2>3, <2>4 DEF Account!Settles
<1> QED BY <1>1, <1>2, <1>3, <1>4, <1>5, <1>6 DEF Account!Next

----------------------------------------------------------------------------
(* The access to the gateway (GatewayAccess).                              *)

RequestPlaces == {"none", "sent", "answered", "shaking"}
RequestRecord ==
  [at : RequestPlaces, dials : BOOLEAN, cookie : Nat, ok : BOOLEAN, carried : Nat,
   transport : {"", "subprotocol", "fallback", "query"}, ticket : Nat]

AccessRecord ==
  [mem : Nat, disk : Nat, saving : Seq(Nat), newest : Nat, fresh : SUBSET Nat,
   live : SUBSET Nat, refused : BOOLEAN, lost : BOOLEAN, overtaken : BOOLEAN,
   op : [Requests -> RequestRecord], latch : {"subprotocol", "query"}, legacy : BOOLEAN,
   tickets : Nat, presented : SUBSET Nat, reused : BOOLEAN]

\* The newest pair is held, or a response under way brings it.
NewestComes(x) ==
  /\ x.newest # 0 /\ x.mem <= x.newest /\ \A o \in Requests : x.op[o].carried <= x.newest
  /\ \A o \in Requests : x.op[o].at = "sent" => x.op[o].carried = 0
  /\ x.mem = x.newest
       \/ \E o \in Requests : x.op[o].at = "answered" /\ x.op[o].carried = x.newest

\* The gateway still takes every pair the client holds, sends, or is being sent.
StillLive(x) ==
  /\ {x.mem, x.newest} \subseteq x.live
  /\ \A o \in Requests :
       /\ x.op[o].at = "sent" => x.op[o].cookie \in x.live
       /\ x.op[o].at = "answered" /\ x.op[o].carried # 0 => x.op[o].carried \in x.live

\* Unless a rotation was lost on its way, nobody is turned away.
Admitted(x) ==
  ~x.lost /\ ~x.overtaken => ~x.refused /\ NewestComes(x) /\ StillLive(x)

\* The last write under way is of what memory holds.
Written(x) == x.mem = IF x.saving = <<>> THEN x.disk ELSE x.saving[Len(x.saving)]

\* A ticket that was shown was minted, and shown once.
ShownOnce(x) == ~x.reused /\ x.presented \subseteq 1..x.tickets

KeepsAccess(x) == x \in AccessRecord /\ Admitted(x) /\ Written(x) /\ ShownOnce(x)

AccessInv == KeepsAccess(here)

LEMMA AccessPromises ==
  AccessInv => Access!SignedInStays /\ Access!DiskFollowsMemory /\ Access!TicketsSingleUse
<1> SUFFICES ASSUME KeepsAccess(here)
             PROVE  Access!SignedInStays /\ Access!DiskFollowsMemory /\ Access!TicketsSingleUse
  BY DEF AccessInv
<1> QED BY DEF KeepsAccess, Admitted, Written, ShownOnce, Access!X, Access!SignedInStays,
               Access!DiskFollowsMemory, Access!TicketsSingleUse

LEMMA AccessFields ==
  ASSUME NEW x \in AccessRecord
  PROVE  /\ x.mem \in Nat /\ x.disk \in Nat /\ x.saving \in Seq(Nat) /\ x.newest \in Nat
         /\ x.live \in SUBSET Nat /\ x.op \in [Requests -> RequestRecord] /\ x.tickets \in Nat
         /\ x.presented \in SUBSET Nat
         /\ {x.lost, x.overtaken, x.refused, x.reused, x.legacy} \subseteq BOOLEAN
         /\ \A o \in Requests : /\ x.op[o] \in RequestRecord /\ x.op[o].carried \in Nat
                                /\ x.op[o].cookie \in Nat /\ x.op[o].at \in RequestPlaces
  BY DEF AccessRecord, RequestRecord

LEMMA AccessStarts == Access!Init => AccessInv
<1> SUFFICES ASSUME Access!Init PROVE KeepsAccess(here)
  BY DEF AccessInv
<1>1. PICK legacy \in BOOLEAN :
        here = [mem |-> 1, disk |-> 1, saving |-> <<>>,
                newest |-> 1, fresh |-> {1}, live |-> {1}, refused |-> FALSE,
                lost |-> FALSE, overtaken |-> FALSE,
                op |-> [o \in Requests |-> Access!Idle],
                latch |-> "subprotocol", legacy |-> legacy,
                tickets |-> 0, presented |-> {}, reused |-> FALSE]
  BY DEF Access!Init
<1>2. PICK idle : idle = Access!Idle
  OBVIOUS
<1>3. idle \in RequestRecord /\ idle.at = "none" /\ idle.carried = 0
  BY <1>2 DEF Access!Idle, RequestRecord, RequestPlaces
<1>4. PICK op : op = [o \in Requests |-> idle]
  OBVIOUS
<1>5. op \in [Requests -> RequestRecord] /\ \A o \in Requests : op[o] = idle
  BY <1>3, <1>4
<1>6. here = [mem |-> 1, disk |-> 1, saving |-> <<>>,
              newest |-> 1, fresh |-> {1}, live |-> {1}, refused |-> FALSE,
              lost |-> FALSE, overtaken |-> FALSE, op |-> op,
              latch |-> "subprotocol", legacy |-> legacy,
              tickets |-> 0, presented |-> {}, reused |-> FALSE]
  BY <1>1, <1>2, <1>4
<1>7. here \in AccessRecord
  BY <1>5, <1>6 DEF AccessRecord
<1>8. NewestComes(here) /\ StillLive(here)
  BY <1>3, <1>5, <1>6 DEF NewestComes, StillLive
<1>9. Admitted(here) /\ Written(here) /\ ShownOnce(here)
  BY <1>6, <1>8 DEF Admitted, Written, ShownOnce
<1> QED BY <1>7, <1>9 DEF KeepsAccess

\* One request moves on, and the pair in memory stays: it brought none, or the one
\* held, or what it brought is known to be lost.
LEMMA RequestMoves ==
  ASSUME NEW c \in AccessRecord, Admitted(c), NEW o \in Requests, NEW r \in RequestRecord,
         NEW d \in AccessRecord, d.op = [c.op EXCEPT ![o] = r],
         d.mem = c.mem, d.newest = c.newest, d.live = c.live,
         c.lost => d.lost, c.overtaken => d.overtaken,
         ~c.refused /\ (c.op[o].at = "sent" => c.op[o].cookie \in c.live) => ~d.refused,
         r.at = "sent" => r.cookie = c.mem /\ r.carried = 0,
         r.carried \in {0, c.op[o].carried}, r.at = "answered" => r.carried = 0,
         ~d.lost /\ c.op[o].at = "answered" => c.op[o].carried \in {0, c.mem}
  PROVE  Admitted(d)
<1> SUFFICES ASSUME ~d.lost, ~d.overtaken PROVE ~d.refused /\ NewestComes(d) /\ StillLive(d)
  BY DEF Admitted
<1>1. ~c.lost /\ ~c.refused /\ NewestComes(c) /\ StillLive(c)
  BY DEF Admitted
<1>2. /\ c.op \in [Requests -> RequestRecord] /\ c.mem \in Nat /\ c.newest \in Nat
      /\ \A p \in Requests : c.op[p].carried \in Nat
  BY AccessFields
<1>3. d.op[o] = r /\ \A p \in Requests : p # o => d.op[p] = c.op[p]
  BY <1>2
<1>4. ~d.refused
  BY <1>1 DEF StillLive
<1>5. NewestComes(d)
  <2>1. \A p \in Requests : d.op[p].carried <= d.newest
    BY <1>1, <1>2, <1>3 DEF NewestComes
  <2>2. \A p \in Requests : d.op[p].at = "sent" => d.op[p].carried = 0
    BY <1>1, <1>3 DEF NewestComes
  <2>3. d.mem = d.newest \/ \E p \in Requests : d.op[p].at = "answered" /\ d.op[p].carried = d.newest
    <3>1. CASE c.mem = c.newest
      BY <3>1
    <3>2. CASE c.mem # c.newest
      <4>1. PICK p \in Requests : c.op[p].at = "answered" /\ c.op[p].carried = c.newest
        BY <1>1, <3>2 DEF NewestComes
      <4>2. p # o
        BY <1>1, <3>2, <4>1 DEF NewestComes
      <4> QED BY <1>3, <4>1, <4>2
    <3> QED BY <3>1, <3>2
  <2> QED BY <1>1, <2>1, <2>2, <2>3 DEF NewestComes
<1>6. StillLive(d)
  BY <1>1, <1>3 DEF StillLive
<1> QED BY <1>4, <1>5, <1>6

\* A request of its own, with the cookies of the moment.
LEMMA RequestStarts ==
  ASSUME KeepsAccess(here), NEW o \in Requests, NEW dials \in BOOLEAN,
         NEW transport \in {"", "subprotocol", "fallback", "query"},
         here.op[o].at \notin {"sent", "answered"},
         here' = Access!Send(here, o, dials, transport)
  PROVE  KeepsAccess(here')
<1>1. here \in AccessRecord /\ Admitted(here) /\ Written(here) /\ ShownOnce(here)
  BY DEF KeepsAccess
<1>2. PICK r : r = [Access!Idle EXCEPT !.at = "sent", !.dials = dials, !.cookie = here.mem,
                                      !.transport = transport]
  OBVIOUS
<1>3. PICK op : op = [here.op EXCEPT ![o] = r]
  OBVIOUS
<1>4. r \in RequestRecord /\ r.at = "sent" /\ r.cookie = here.mem /\ r.carried = 0
  BY <1>1, <1>2, AccessFields DEF RequestRecord, RequestPlaces, Access!Idle
<1>5. op \in [Requests -> RequestRecord]
  BY <1>1, <1>3, <1>4, AccessFields
<1>6. here' = [here EXCEPT !.op = op]
  BY <1>1, <1>2, <1>3 DEF Access!Send, AccessRecord
<1>7. /\ here' \in AccessRecord /\ here'.op = op /\ here'.mem = here.mem
      /\ here'.newest = here.newest /\ here'.live = here.live /\ here'.lost = here.lost
      /\ here'.overtaken = here.overtaken /\ here'.refused = here.refused
      /\ here'.saving = here.saving /\ here'.disk = here.disk /\ here'.reused = here.reused
      /\ here'.presented = here.presented /\ here'.tickets = here.tickets
  BY <1>1, <1>5, <1>6 DEF AccessRecord
<1>8. Admitted(here')
  <2>1. /\ r.at = "sent" => r.cookie = here.mem /\ r.carried = 0
        /\ r.carried \in {0, here.op[o].carried} /\ (r.at = "answered" => r.carried = 0)
        /\ ~here.refused /\ (here.op[o].at = "sent" => here.op[o].cookie \in here.live)
             => ~here'.refused
    BY <1>4, <1>7
  <2>2. /\ ~here'.lost /\ here.op[o].at = "answered" => here.op[o].carried \in {0, here.mem}
        /\ here.lost => here'.lost
        /\ here.overtaken => here'.overtaken
    BY <1>7
  <2>3. /\ here \in AccessRecord /\ Admitted(here) /\ o \in Requests /\ r \in RequestRecord
        /\ here' \in AccessRecord /\ here'.op = [here.op EXCEPT ![o] = r]
        /\ here'.mem = here.mem /\ here'.newest = here.newest /\ here'.live = here.live
    BY <1>1, <1>3, <1>4, <1>7
  <2> QED BY ONLY <2>1, <2>2, <2>3, RequestMoves
<1>9. Written(here') /\ ShownOnce(here')
  BY <1>1, <1>7 DEF Written, ShownOnce
<1> QED BY <1>7, <1>8, <1>9 DEF KeepsAccess

\* A request ends, or fails, with nothing more to take from it.
LEMMA RequestEnds ==
  ASSUME NEW c, KeepsAccess(c), NEW o \in Requests,
         NEW lost \in BOOLEAN, NEW latch \in {"subprotocol", "query"},
         c.lost => lost,
         ~lost /\ c.op[o].at = "answered" => c.op[o].carried \in {0, c.mem},
         NEW d, d = [c EXCEPT !.op[o] = Access!Idle, !.lost = lost, !.latch = latch]
  PROVE  KeepsAccess(d)
<1>1. c \in AccessRecord /\ Admitted(c) /\ Written(c) /\ ShownOnce(c)
  BY DEF KeepsAccess
<1>2. PICK r : r = Access!Idle
  OBVIOUS
<1>3. PICK op : op = [c.op EXCEPT ![o] = r]
  OBVIOUS
<1>4. r \in RequestRecord /\ r.at = "none" /\ r.carried = 0
  BY <1>2 DEF RequestRecord, RequestPlaces, Access!Idle
<1>5. op \in [Requests -> RequestRecord]
  BY <1>1, <1>3, <1>4, AccessFields
<1>6. d = [c EXCEPT !.op = op, !.lost = lost, !.latch = latch]
  BY <1>1, <1>2, <1>3 DEF AccessRecord
<1>7. /\ d \in AccessRecord /\ d.op = op /\ d.mem = c.mem
      /\ d.newest = c.newest /\ d.live = c.live /\ d.lost = lost
      /\ d.overtaken = c.overtaken /\ d.refused = c.refused
      /\ d.saving = c.saving /\ d.disk = c.disk /\ d.reused = c.reused
      /\ d.presented = c.presented /\ d.tickets = c.tickets
  BY <1>1, <1>5, <1>6 DEF AccessRecord
<1>8. Admitted(d)
  <2>1. /\ r.at = "sent" => r.cookie = c.mem /\ r.carried = 0
        /\ r.carried \in {0, c.op[o].carried} /\ (r.at = "answered" => r.carried = 0)
        /\ ~c.refused /\ (c.op[o].at = "sent" => c.op[o].cookie \in c.live)
             => ~d.refused
    BY <1>4, <1>7
  <2>2. /\ ~d.lost /\ c.op[o].at = "answered" => c.op[o].carried \in {0, c.mem}
        /\ c.lost => d.lost
        /\ c.overtaken => d.overtaken
    BY <1>7
  <2>3. /\ c \in AccessRecord /\ Admitted(c) /\ o \in Requests /\ r \in RequestRecord
        /\ d \in AccessRecord /\ d.op = [c.op EXCEPT ![o] = r]
        /\ d.mem = c.mem /\ d.newest = c.newest /\ d.live = c.live
    BY <1>1, <1>3, <1>4, <1>7
  <2> QED BY ONLY <2>1, <2>2, <2>3, RequestMoves
<1>9. Written(d) /\ ShownOnce(d)
  BY <1>1, <1>7 DEF Written, ShownOnce
<1> QED BY <1>7, <1>8, <1>9 DEF KeepsAccess

LEMMA GatewayKeeps ==
  ASSUME KeepsAccess(here), NEW o \in Requests, Access!GatewayAnswers(o)
  PROVE  KeepsAccess(here')
<1>1. /\ here \in AccessRecord /\ Admitted(here) /\ Written(here) /\ ShownOnce(here)
      /\ here.op[o].at = "sent" /\ here.op[o] \in RequestRecord
      /\ here.op[o].cookie \in Nat /\ here.newest \in Nat /\ here.refused \in BOOLEAN
      /\ here.op \in [Requests -> RequestRecord] /\ here.live \in SUBSET Nat
  BY AccessFields DEF KeepsAccess, Access!GatewayAnswers, Access!X
<1>2. PICK g, n : g = here.op[o].cookie /\ n = here.newest + 1
  OBVIOUS
<1>3. PICK refused : refused = (here.refused \/ g \notin here.live)
  OBVIOUS
<1>4. refused \in BOOLEAN /\ n \in Nat /\ g \in Nat
  BY <1>1, <1>2, <1>3
<1>5. PICK rotates \in BOOLEAN, answered \in BOOLEAN :
        LET r == [here.op[o] EXCEPT !.at = "answered", !.ok = answered,
                                    !.carried = IF rotates THEN n ELSE 0]
            x == [here EXCEPT !.op[o] = r, !.refused = refused]
        IN here' = IF rotates
                   THEN [x EXCEPT !.newest = n, !.fresh = @ \cup {n}, !.live = @ \cup {n}]
                   ELSE x
  <2>1. PICK ok \in BOOLEAN :
          LET rotates == g \in here.live /\ g \notin here.fresh /\ here.newest <= MaxRefreshes
              r == [here.op[o] EXCEPT !.at = "answered", !.ok = ok /\ g \in here.live,
                                      !.carried = IF rotates THEN n ELSE 0]
              x == [here EXCEPT !.op[o] = r, !.refused = @ \/ g \notin here.live]
          IN here' = IF rotates
                     THEN [x EXCEPT !.newest = n, !.fresh = @ \cup {n}, !.live = @ \cup {n}]
                     ELSE x
    BY <1>2 DEF Access!GatewayAnswers, Access!X
  <2>2. PICK rotates, answered :
          /\ rotates = (g \in here.live /\ g \notin here.fresh /\ here.newest <= MaxRefreshes)
          /\ answered = (ok /\ g \in here.live)
    OBVIOUS
  <2>3. rotates \in BOOLEAN /\ answered \in BOOLEAN
    BY <2>2
  <2> QED BY <1>1, <1>3, <2>1, <2>2, <2>3 DEF AccessRecord
<1>6. PICK carried, r, op : /\ carried = (IF rotates THEN n ELSE 0)
                            /\ r = [here.op[o] EXCEPT !.at = "answered", !.ok = answered,
                                                      !.carried = carried]
                            /\ op = [here.op EXCEPT ![o] = r]
  OBVIOUS
<1>7. carried \in Nat
  BY <1>4, <1>6
<1>8. r \in RequestRecord /\ r.at = "answered" /\ r.carried = carried
  BY <1>1, <1>6, <1>7 DEF RequestRecord, RequestPlaces
<1>9. op \in [Requests -> RequestRecord] /\ op[o] = r
      /\ \A p \in Requests : p # o => op[p] = here.op[p]
  BY <1>1, <1>6, <1>8
<1>10. CASE ~rotates
  <2>1. here' = [here EXCEPT !.op = op, !.refused = refused]
    BY <1>1, <1>5, <1>6, <1>10 DEF AccessRecord
  <2>2. /\ here' \in AccessRecord /\ here'.op = op /\ here'.mem = here.mem
        /\ here'.newest = here.newest /\ here'.live = here.live /\ here'.lost = here.lost
        /\ here'.overtaken = here.overtaken /\ here'.refused = refused
        /\ here'.saving = here.saving /\ here'.disk = here.disk /\ here'.reused = here.reused
        /\ here'.presented = here.presented /\ here'.tickets = here.tickets
    BY <1>1, <1>4, <1>9, <2>1 DEF AccessRecord
  <2>3. carried = 0
    BY <1>6, <1>10
  <2>4. ~here.refused /\ (here.op[o].at = "sent" => here.op[o].cookie \in here.live) => ~here'.refused
    BY <1>1, <1>2, <1>3, <2>2
  <2>5. Admitted(here')
    <3>1. /\ r.at = "sent" => r.cookie = here.mem /\ r.carried = 0
          /\ r.carried \in {0, here.op[o].carried} /\ (r.at = "answered" => r.carried = 0)
          /\ ~here'.lost /\ here.op[o].at = "answered" => here.op[o].carried \in {0, here.mem}
          /\ here.lost => here'.lost
          /\ here.overtaken => here'.overtaken
      BY <1>1, <1>8, <2>2, <2>3
    <3>2. /\ here \in AccessRecord /\ Admitted(here) /\ o \in Requests /\ r \in RequestRecord
          /\ here' \in AccessRecord /\ here'.op = [here.op EXCEPT ![o] = r]
          /\ here'.mem = here.mem /\ here'.newest = here.newest /\ here'.live = here.live
      BY <1>1, <1>6, <1>8, <2>2
    <3> QED BY ONLY <2>4, <3>1, <3>2, RequestMoves
  <2>6. Written(here') /\ ShownOnce(here')
    BY <1>1, <2>2 DEF Written, ShownOnce
  <2> QED BY <2>2, <2>5, <2>6 DEF KeepsAccess
<1>11. CASE rotates
  <2>1. PICK fresh, live : fresh = here.fresh \cup {n} /\ live = here.live \cup {n}
    OBVIOUS
  <2>2. fresh \in SUBSET Nat /\ live \in SUBSET Nat /\ carried = n
    BY <1>1, <1>4, <1>6, <1>11, <2>1 DEF AccessRecord
  <2>3. here' = [here EXCEPT !.op = op, !.refused = refused, !.newest = n, !.fresh = fresh,
                             !.live = live]
    BY <1>1, <1>5, <1>6, <1>11, <2>1 DEF AccessRecord
  <2>4. /\ here' \in AccessRecord /\ here'.op = op /\ here'.mem = here.mem
        /\ here'.newest = n /\ here'.live = live /\ here'.lost = here.lost
        /\ here'.overtaken = here.overtaken /\ here'.refused = refused
        /\ here'.saving = here.saving /\ here'.disk = here.disk /\ here'.reused = here.reused
        /\ here'.presented = here.presented /\ here'.tickets = here.tickets
    BY <1>1, <1>4, <1>9, <2>2, <2>3 DEF AccessRecord
  <2>5. Admitted(here')
    <3> SUFFICES ASSUME ~here.lost, ~here.overtaken
                 PROVE  ~refused /\ NewestComes(here') /\ StillLive(here')
      BY <2>4 DEF Admitted
    <3>1. ~here.refused /\ NewestComes(here) /\ StillLive(here)
      BY <1>1 DEF Admitted
    <3>2. ~refused
      BY <1>1, <1>2, <1>3, <3>1 DEF StillLive
    <3>3. \A p \in Requests : here.op[p].carried \in Nat
      BY <1>1, AccessFields
    <3>4. NewestComes(here')
      <4>1. here.mem \in Nat
        BY <1>1, AccessFields
      <4>2. n # 0 /\ here.mem <= n /\ \A p \in Requests : here.op[p].carried <= n
        BY <1>1, <1>2, <3>1, <3>3, <4>1 DEF NewestComes
      <4>3. \A p \in Requests : /\ op[p].carried <= n
                                /\ op[p].at = "sent" => op[p].carried = 0
        BY <1>4, <1>8, <1>9, <2>2, <3>1, <4>2 DEF NewestComes
      <4> QED BY <1>8, <1>9, <2>2, <2>4, <4>2, <4>3 DEF NewestComes
    <3>5. StillLive(here')
      BY <1>8, <1>9, <2>1, <2>2, <2>4, <3>1 DEF StillLive
    <3> QED BY <3>2, <3>4, <3>5
  <2>6. Written(here') /\ ShownOnce(here')
    BY <1>1, <2>4 DEF Written, ShownOnce
  <2> QED BY <2>4, <2>5, <2>6 DEF KeepsAccess
<1> QED BY <1>10, <1>11

\* harvestTokens(): the pair that came is held and written, and what it takes the
\* place of is older, or the newer one was overtaken on its way.
LEMMA HarvestKeeps ==
  ASSUME NEW c, KeepsAccess(c), NEW o \in Requests, c.op[o].at = "answered",
         NEW d, d = Access!HarvestTokens(c, o)
  PROVE  /\ KeepsAccess(d) /\ d.op = c.op /\ c.op[o].carried \in {0, d.mem}
         /\ d.lost = c.lost /\ d.latch = c.latch
<1>1. /\ c \in AccessRecord /\ Admitted(c) /\ Written(c) /\ ShownOnce(c)
      /\ c.saving \in Seq(Nat) /\ c.overtaken \in BOOLEAN /\ c.mem \in Nat /\ c.newest \in Nat
      /\ \A p \in Requests : c.op[p].carried \in Nat
  BY AccessFields DEF KeepsAccess
<1>2. PICK g : g = c.op[o].carried
  OBVIOUS
<1>3. CASE g = 0 \/ g = c.mem
  <2>1. d = c
    BY <1>2, <1>3 DEF Access!HarvestTokens
  <2> QED BY <1>2, <1>3, <2>1
<1>4. CASE ~(g = 0 \/ g = c.mem)
  <2>1. PICK saving, overtaken : /\ saving = Append(c.saving, g)
                                 /\ overtaken = (c.overtaken \/ g < c.mem)
    OBVIOUS
  <2>2. /\ saving \in Seq(Nat) /\ overtaken \in BOOLEAN /\ g \in Nat
        /\ saving # <<>> /\ saving[Len(saving)] = g
    BY <1>1, <1>2, <2>1
  <2>3. d = [c EXCEPT !.mem = g, !.saving = saving, !.overtaken = overtaken]
    BY <1>1, <1>2, <1>4, <2>1 DEF Access!HarvestTokens, AccessRecord
  <2>4. /\ d \in AccessRecord /\ d.op = c.op /\ d.mem = g /\ d.latch = c.latch
        /\ d.newest = c.newest /\ d.live = c.live /\ d.lost = c.lost
        /\ d.overtaken = overtaken /\ d.refused = c.refused
        /\ d.saving = saving /\ d.disk = c.disk /\ d.reused = c.reused
        /\ d.presented = c.presented /\ d.tickets = c.tickets
    BY <1>1, <2>2, <2>3 DEF AccessRecord
  <2>5. Written(d) /\ ShownOnce(d)
    BY <1>1, <2>2, <2>4 DEF Written, ShownOnce
  <2>6. Admitted(d)
    <3> SUFFICES ASSUME ~c.lost, ~overtaken PROVE ~c.refused /\ NewestComes(d) /\ StillLive(d)
      BY <2>4 DEF Admitted
    <3>1. ~c.overtaken /\ ~(g < c.mem)
      BY <2>1
    <3>2. ~c.refused /\ NewestComes(c) /\ StillLive(c)
      BY <1>1, <3>1 DEF Admitted
    <3>3. g <= c.newest
      BY <1>2, <3>2 DEF NewestComes
    <3>4. c.mem # c.newest
      BY <1>1, <1>4, <2>2, <3>1, <3>3
    <3>5. PICK p \in Requests : c.op[p].at = "answered" /\ c.op[p].carried = c.newest
      BY <3>2, <3>4 DEF NewestComes
    <3>6. NewestComes(d)
      BY <2>4, <3>2, <3>3, <3>5 DEF NewestComes
    <3>7. g \in c.live
      BY <1>2, <1>4, <3>2 DEF StillLive
    <3>8. StillLive(d)
      BY <2>4, <3>2, <3>7 DEF StillLive
    <3> QED BY <3>2, <3>6, <3>8
  <2> QED BY <1>2, <2>4, <2>5, <2>6 DEF KeepsAccess
<1> QED BY <1>3, <1>4

LEMMA ResponseKeeps ==
  ASSUME KeepsAccess(here), NEW o \in Requests, Access!ResponseArrives(o)
  PROVE  KeepsAccess(here')
<1>1. PICK x : x = Access!HarvestTokens(here, o)
  OBVIOUS
<1>2. here.op[o].at = "answered"
  BY DEF Access!ResponseArrives, Access!X
<1>3. KeepsAccess(x) /\ x.op = here.op /\ x.op[o].carried \in {0, x.mem}
  BY <1>1, <1>2, HarvestKeeps
<1>4. /\ x \in AccessRecord /\ Admitted(x) /\ Written(x) /\ ShownOnce(x)
      /\ x.op \in [Requests -> RequestRecord] /\ x.op[o] \in RequestRecord
      /\ x.tickets \in Nat /\ x.presented \in SUBSET Nat /\ x.tickets = here.tickets
      /\ x.reused \in BOOLEAN /\ x.lost \in BOOLEAN /\ x.latch \in {"subprotocol", "query"}
  <2>1. x.tickets = here.tickets
    BY <1>1 DEF KeepsAccess, AccessRecord, Access!HarvestTokens
  <2> QED BY <1>3, <2>1, AccessFields DEF KeepsAccess, AccessRecord
<1>5. CASE here' = [x EXCEPT !.op[o] = Access!Idle]
  <2>1. PICK lost, latch : lost = x.lost /\ latch = x.latch
    OBVIOUS
  <2>2. here' = [x EXCEPT !.op[o] = Access!Idle, !.lost = lost, !.latch = latch]
    BY <1>4, <1>5, <2>1 DEF AccessRecord
  <2>3. /\ lost \in BOOLEAN /\ latch \in {"subprotocol", "query"} /\ (x.lost => lost)
        /\ (~lost /\ x.op[o].at = "answered" => x.op[o].carried \in {0, x.mem})
    BY <1>3, <1>4, <2>1
  <2> QED BY <1>3, <2>2, <2>3, RequestEnds
<1>6. ASSUME NEW t, t = here.tickets + 1, here' = Access!Present([x EXCEPT !.tickets = t], o, t)
      PROVE  KeepsAccess(here')
  <2>1. PICK r, op, presented, reused :
          /\ r = [x.op[o] EXCEPT !.at = "shaking", !.ticket = t]
          /\ op = [x.op EXCEPT ![o] = r]
          /\ presented = x.presented \cup {t}
          /\ reused = (x.reused \/ t \in x.presented)
    OBVIOUS
  <2>2. /\ t \in Nat /\ t = x.tickets + 1 /\ t \notin 1..x.tickets
        /\ 1..x.tickets \subseteq 1..t /\ t \in 1..t
    BY <1>4, <1>6
  <2>3. r \in RequestRecord /\ r.at = "shaking" /\ r.carried = x.op[o].carried
    BY <1>4, <2>1, <2>2 DEF RequestRecord, RequestPlaces
  <2>4. op \in [Requests -> RequestRecord] /\ presented \in SUBSET Nat /\ reused \in BOOLEAN
    BY <1>4, <2>1, <2>2, <2>3
  <2>5. here' = [x EXCEPT !.tickets = t, !.op = op, !.presented = presented, !.reused = reused]
    <3>1. PICK y, first : /\ y = [x EXCEPT !.tickets = t]
                          /\ first = [x.op EXCEPT ![o].at = "shaking"]
      OBVIOUS
    <3>2. /\ y \in AccessRecord /\ y.op = x.op /\ y.presented = x.presented
          /\ y.reused = x.reused /\ y.op \in [Requests -> RequestRecord]
      BY <1>4, <2>2, <3>1 DEF AccessRecord
    <3>3. /\ [first EXCEPT ![o].ticket = t] = op
          /\ first = [x.op EXCEPT ![o] = [x.op[o] EXCEPT !.at = "shaking"]]
      BY <1>4, <2>1, <3>1 DEF RequestRecord
    <3>4. Access!Present(y, o, t)
            = [y EXCEPT !.op = [first EXCEPT ![o].ticket = t], !.presented = presented,
                        !.reused = reused]
      BY <2>1, <3>1, <3>2 DEF Access!Present, AccessRecord
    <3>5. here' = [y EXCEPT !.op = op, !.presented = presented, !.reused = reused]
      BY <1>6, <3>1, <3>3, <3>4
    <3> QED BY <1>4, <3>1, <3>5 DEF AccessRecord
  <2>6. /\ here' \in AccessRecord /\ here'.op = op /\ here'.mem = x.mem
        /\ here'.newest = x.newest /\ here'.live = x.live /\ here'.lost = x.lost
        /\ here'.overtaken = x.overtaken /\ here'.refused = x.refused
        /\ here'.saving = x.saving /\ here'.disk = x.disk /\ here'.reused = reused
        /\ here'.presented = presented /\ here'.tickets = t
    BY <1>4, <2>2, <2>4, <2>5 DEF AccessRecord
  <2>7. Admitted(here')
    <3>1. /\ r.at = "sent" => r.cookie = x.mem /\ r.carried = 0
          /\ r.carried \in {0, x.op[o].carried} /\ (r.at = "answered" => r.carried = 0)
          /\ ~here'.lost /\ x.op[o].at = "answered" => x.op[o].carried \in {0, x.mem}
      BY <1>3, <2>3
    <3>2. /\ x.lost => here'.lost
          /\ x.overtaken => here'.overtaken
          /\ ~x.refused /\ (x.op[o].at = "sent" => x.op[o].cookie \in x.live) => ~here'.refused
      BY <2>6
    <3>3. /\ x \in AccessRecord /\ Admitted(x) /\ o \in Requests /\ r \in RequestRecord
          /\ here' \in AccessRecord /\ here'.op = [x.op EXCEPT ![o] = r]
          /\ here'.mem = x.mem /\ here'.newest = x.newest /\ here'.live = x.live
      BY <1>4, <2>1, <2>3, <2>6
    <3> QED BY ONLY <3>1, <3>2, <3>3, RequestMoves
  <2>8. Written(here')
    BY <1>4, <2>6 DEF Written
  <2>9. ShownOnce(here')
    <3>1. t \notin x.presented /\ x.presented \subseteq 1..t
      BY <1>4, <2>2 DEF ShownOnce
    <3>2. ~reused /\ presented \subseteq 1..t
      BY <1>4, <2>1, <2>2, <3>1 DEF ShownOnce
    <3> QED BY <2>6, <3>2 DEF ShownOnce
  <2> QED BY <2>6, <2>7, <2>8, <2>9 DEF KeepsAccess
<1> QED BY <1>1, <1>5, <1>6 DEF Access!ResponseArrives, Access!X

\* A response or a handshake that is over.
LEMMA EndingKeeps ==
  ASSUME KeepsAccess(here), NEW o \in Requests,
         Access!ResponseLost(o) \/ Access!HandshakeAccepted(o) \/ Access!HandshakeFails(o)
  PROVE  KeepsAccess(here')
<1>1. /\ here \in AccessRecord /\ here.lost \in BOOLEAN /\ here.latch \in {"subprotocol", "query"}
      /\ here.op[o].carried \in Nat
  BY AccessFields DEF KeepsAccess, AccessRecord
<1>2. ASSUME NEW lost \in BOOLEAN, NEW latch \in {"subprotocol", "query"},
             here.lost => lost,
             ~lost /\ here.op[o].at = "answered" => here.op[o].carried = 0,
             here' = [here EXCEPT !.op[o] = Access!Idle, !.lost = lost, !.latch = latch]
      PROVE  KeepsAccess(here')
  BY <1>2, RequestEnds
<1>3. CASE Access!ResponseLost(o)
  <2>1. PICK lost, latch : lost = (here.lost \/ here.op[o].carried # 0) /\ latch = here.latch
    OBVIOUS
  <2>2. lost \in BOOLEAN /\ latch \in {"subprotocol", "query"} /\ (here.lost => lost)
        /\ (~lost => here.op[o].carried = 0)
    BY <1>1, <2>1
  <2>3. here' = [here EXCEPT !.op[o] = Access!Idle, !.lost = lost, !.latch = latch]
    BY <1>1, <1>3, <2>1 DEF Access!ResponseLost, Access!X, AccessRecord
  <2> QED BY <1>2, <2>2, <2>3
<1>4. CASE Access!HandshakeAccepted(o)
  <2>1. PICK lost, latch :
          /\ lost = here.lost
          /\ latch = IF here.op[o].transport = "fallback" THEN "query" ELSE here.latch
    OBVIOUS
  <2>2. lost \in BOOLEAN /\ latch \in {"subprotocol", "query"} /\ here.op[o].at # "answered"
    BY <1>1, <1>4, <2>1 DEF Access!HandshakeAccepted, Access!X
  <2>3. here' = [here EXCEPT !.op[o] = Access!Idle, !.lost = lost, !.latch = latch]
    BY <1>1, <1>4, <2>1 DEF Access!HandshakeAccepted, Access!X, AccessRecord
  <2> QED BY <1>2, <2>1, <2>2, <2>3
<1>5. CASE Access!HandshakeFails(o)
  <2>1. here.op[o].at = "shaking"
    BY <1>5 DEF Access!HandshakeFails, Access!X
  <2>2. CASE here' = Access!Send(here, o, TRUE, "fallback")
    BY <2>1, <2>2, RequestStarts
  <2>3. CASE here' = [here EXCEPT !.op[o] = Access!Idle]
    <3>1. PICK lost, latch : lost = here.lost /\ latch = here.latch
      OBVIOUS
    <3>2. here' = [here EXCEPT !.op[o] = Access!Idle, !.lost = lost, !.latch = latch]
      BY <1>1, <2>3, <3>1 DEF AccessRecord
    <3> QED BY <1>1, <1>2, <2>1, <3>1, <3>2
  <2> QED BY <1>5, <2>2, <2>3 DEF Access!HandshakeFails, Access!X, Access!Fallback
<1> QED BY <1>3, <1>4, <1>5

LEMMA WriteKeeps ==
  ASSUME KeepsAccess(here), Access!Saved
  PROVE  KeepsAccess(here')
<1>1. /\ here \in AccessRecord /\ Admitted(here) /\ Written(here) /\ ShownOnce(here)
      /\ here.saving \in Seq(Nat) /\ here.saving # <<>>
  BY AccessFields DEF KeepsAccess, Access!Saved, Access!X
<1>2. PICK disk, saving : disk = Head(here.saving) /\ saving = Tail(here.saving)
  OBVIOUS
<1>3. disk \in Nat /\ saving \in Seq(Nat)
  BY <1>1, <1>2
<1>4. here' = [here EXCEPT !.disk = disk, !.saving = saving]
  BY <1>1, <1>2 DEF Access!Saved, Access!X, AccessRecord
<1>5. /\ here' \in AccessRecord /\ here'.op = here.op /\ here'.mem = here.mem
      /\ here'.newest = here.newest /\ here'.live = here.live /\ here'.lost = here.lost
      /\ here'.overtaken = here.overtaken /\ here'.refused = here.refused
      /\ here'.saving = saving /\ here'.disk = disk /\ here'.reused = here.reused
      /\ here'.presented = here.presented /\ here'.tickets = here.tickets
  BY <1>1, <1>3, <1>4 DEF AccessRecord
<1>6. here.saving[Len(here.saving)] = IF saving = <<>> THEN disk ELSE saving[Len(saving)]
  <2>1. PICK w : w = here.saving
    OBVIOUS
  <2>2. w \in Seq(Nat) /\ w # <<>> /\ disk = Head(w) /\ saving = Tail(w)
    BY <1>1, <1>2, <2>1
  <2>3. w[Len(w)] = IF saving = <<>> THEN disk ELSE saving[Len(saving)]
    <3>1. w[1] = disk /\ Len(w) \in Nat \ {0} /\ Len(saving) = Len(w) - 1
      BY <2>2
    <3>2. saving = <<>> => Len(w) = 1
      <4>1. saving = <<>> => Len(saving) = 0
        OBVIOUS
      <4> QED BY ONLY <3>1, <4>1
    <3>3. ASSUME saving # <<>> PROVE saving[Len(saving)] = w[Len(w)]
      <4>1. \A i \in 1..Len(saving) : saving[i] = w[i + 1]
        BY <2>2
      <4>2. Len(saving) \in 1..Len(saving)
        BY <1>3, <3>3
      <4>3. saving[Len(saving)] = w[Len(saving) + 1] /\ Len(saving) + 1 = Len(w)
        BY <3>1, <4>1, <4>2
      <4> QED BY <4>3
    <3> QED BY <3>1, <3>2, <3>3
  <2> QED BY <2>1, <2>3
<1>7. Written(here') /\ ShownOnce(here')
  BY <1>1, <1>5, <1>6 DEF Written, ShownOnce
<1>8. Admitted(here')
  BY <1>1, <1>5 DEF Admitted, NewestComes, StillLive
<1> QED BY <1>5, <1>7, <1>8 DEF KeepsAccess

LEMMA RestartKeeps ==
  ASSUME KeepsAccess(here), Access!Restart
  PROVE  KeepsAccess(here')
<1>1. /\ here \in AccessRecord /\ Admitted(here) /\ Written(here) /\ ShownOnce(here)
      /\ here.mem \in Nat /\ here.disk \in Nat /\ here.lost \in BOOLEAN /\ here.newest \in Nat
  BY AccessFields DEF KeepsAccess
<1>2. PICK idle, lost :
        /\ idle = Access!Idle
        /\ lost = (here.lost \/ here.saving # <<>> \/ \E o \in Requests : here.op[o].carried # 0)
  OBVIOUS
<1>3. idle \in RequestRecord /\ idle.at = "none" /\ idle.carried = 0
  BY <1>2 DEF RequestRecord, RequestPlaces, Access!Idle
<1>4. PICK op, disk, saving : /\ op = [o \in Requests |-> idle] /\ disk = here.disk
                              /\ saving = <<>>
  OBVIOUS
<1>5. /\ op \in [Requests -> RequestRecord] /\ lost \in BOOLEAN /\ saving \in Seq(Nat)
      /\ \A o \in Requests : op[o] = idle
  BY <1>2, <1>3, <1>4
<1>6. here' = [here EXCEPT !.mem = disk, !.saving = saving, !.latch = "subprotocol", !.op = op,
                           !.lost = lost]
  BY <1>1, <1>2, <1>4 DEF Access!Restart, Access!X, AccessRecord
<1>7. /\ here' \in AccessRecord /\ here'.op = op /\ here'.mem = disk
      /\ here'.newest = here.newest /\ here'.live = here.live /\ here'.lost = lost
      /\ here'.overtaken = here.overtaken /\ here'.refused = here.refused
      /\ here'.saving = saving /\ here'.disk = disk /\ here'.reused = here.reused
      /\ here'.presented = here.presented /\ here'.tickets = here.tickets
  BY <1>1, <1>4, <1>5, <1>6 DEF AccessRecord
<1>8. Written(here') /\ ShownOnce(here')
  BY <1>1, <1>4, <1>7 DEF Written, ShownOnce
<1>9. Admitted(here')
  <2> SUFFICES ASSUME ~lost, ~here.overtaken
               PROVE  ~here.refused /\ NewestComes(here') /\ StillLive(here')
    BY <1>7 DEF Admitted
  <2>1. ~here.lost /\ here.saving = <<>> /\ \A o \in Requests : here.op[o].carried = 0
    BY <1>2
  <2>2. ~here.refused /\ NewestComes(here) /\ StillLive(here)
    BY <1>1, <2>1 DEF Admitted
  <2>3. disk = here.mem
    BY <1>1, <1>4, <2>1 DEF Written
  <2>4. here.mem = here.newest
    BY <2>1, <2>2 DEF NewestComes
  <2>5. NewestComes(here')
    BY <1>1, <1>3, <1>5, <1>7, <2>2, <2>3, <2>4 DEF NewestComes
  <2>6. StillLive(here')
    BY <1>3, <1>5, <1>7, <2>2, <2>3 DEF StillLive
  <2> QED BY <2>2, <2>5, <2>6
<1> QED BY <1>7, <1>8, <1>9 DEF KeepsAccess

\* What the gateway forgets.
LEMMA AgeKeeps ==
  ASSUME KeepsAccess(here), Access!AccessExpires \/ Access!PairsAgeOut
  PROVE  KeepsAccess(here')
<1>1. /\ here \in AccessRecord /\ Admitted(here) /\ Written(here) /\ ShownOnce(here)
      /\ here.newest \in Nat /\ here.live \in SUBSET Nat
  BY AccessFields DEF KeepsAccess
<1>2. CASE Access!AccessExpires
  <2>1. PICK fresh \in SUBSET Nat : fresh = {}
    OBVIOUS
  <2>2. here' = [here EXCEPT !.fresh = fresh]
    BY <1>2, <2>1 DEF Access!AccessExpires, Access!X
  <2>3. /\ here' \in AccessRecord /\ here'.op = here.op /\ here'.mem = here.mem
        /\ here'.newest = here.newest /\ here'.live = here.live /\ here'.lost = here.lost
        /\ here'.overtaken = here.overtaken /\ here'.refused = here.refused
        /\ here'.saving = here.saving /\ here'.disk = here.disk /\ here'.reused = here.reused
        /\ here'.presented = here.presented /\ here'.tickets = here.tickets
    BY <1>1, <2>1, <2>2 DEF AccessRecord
  <2> QED BY <1>1, <2>3 DEF KeepsAccess, Admitted, Written, ShownOnce, NewestComes, StillLive
<1>3. CASE Access!PairsAgeOut
  <2>1. PICK live : live = {here.newest}
    OBVIOUS
  <2>2. /\ here' = [here EXCEPT !.live = live] /\ live \in SUBSET Nat
        /\ \A o \in Requests : here.op[o].at \notin {"sent", "answered"}
    BY <1>1, <1>3, <2>1 DEF Access!PairsAgeOut, Access!X
  <2>3. /\ here' \in AccessRecord /\ here'.op = here.op /\ here'.mem = here.mem
        /\ here'.newest = here.newest /\ here'.live = live /\ here'.lost = here.lost
        /\ here'.overtaken = here.overtaken /\ here'.refused = here.refused
        /\ here'.saving = here.saving /\ here'.disk = here.disk /\ here'.reused = here.reused
        /\ here'.presented = here.presented /\ here'.tickets = here.tickets
    BY <1>1, <2>2 DEF AccessRecord
  <2>4. Admitted(here')
    <3> SUFFICES ASSUME ~here.lost, ~here.overtaken
                 PROVE  ~here.refused /\ NewestComes(here') /\ StillLive(here')
      BY <2>3 DEF Admitted
    <3>1. ~here.refused /\ NewestComes(here)
      BY <1>1 DEF Admitted
    <3>2. here.mem = here.newest
      BY <2>2, <3>1 DEF NewestComes
    <3>3. NewestComes(here')
      BY <2>3, <3>1 DEF NewestComes
    <3>4. StillLive(here')
      BY <2>1, <2>2, <2>3, <3>2 DEF StillLive
    <3> QED BY <3>1, <3>3, <3>4
  <2> QED BY <1>1, <2>3, <2>4 DEF KeepsAccess, Written, ShownOnce
<1> QED BY <1>2, <1>3

LEMMA AccessSteps == AccessInv /\ Access!Next => AccessInv'
<1> SUFFICES ASSUME KeepsAccess(here), Access!Next PROVE KeepsAccess(here')
  BY DEF AccessInv
<1>1. CASE Access!AccessExpires \/ Access!PairsAgeOut \/ Access!Saved \/ Access!Restart
  BY <1>1, AgeKeeps, WriteKeeps, RestartKeeps
<1>2. ASSUME NEW o \in Requests, Access!Read(o) \/ Access!OpenSocket(o)
      PROVE  KeepsAccess(here')
  <2>1. PICK transport : transport = here.latch
    OBVIOUS
  <2>2. transport \in {"", "subprotocol", "fallback", "query"}
    BY <2>1 DEF KeepsAccess, AccessRecord
  <2>3. here.op[o].at \notin {"sent", "answered"}
    BY <1>2 DEF Access!Read, Access!OpenSocket, Access!X
  <2>4. CASE Access!Read(o)
    BY <2>3, <2>4, RequestStarts DEF Access!Read, Access!X
  <2>5. CASE Access!OpenSocket(o)
    <3>1. here' = Access!Send(here, o, TRUE, transport)
      BY <2>1, <2>5 DEF Access!OpenSocket, Access!X
    <3> QED BY <2>2, <2>3, <3>1, RequestStarts
  <2> QED BY <1>2, <2>4, <2>5
<1>3. ASSUME NEW o \in Requests,
             \/ Access!GatewayAnswers(o) \/ Access!ResponseArrives(o) \/ Access!ResponseLost(o)
             \/ Access!HandshakeAccepted(o) \/ Access!HandshakeFails(o)
      PROVE  KeepsAccess(here')
  BY <1>3, GatewayKeeps, ResponseKeeps, EndingKeeps
<1> QED BY <1>1, <1>2, <1>3 DEF Access!Next

----------------------------------------------------------------------------
(* The channel (SessionChannel).                                           *)

Dials == 1..MaxDials
Stored == 1..MaxSessions
ChannelOp ==
  [kind : {"none", "turn", "command", "model", "resume", "cancel", "delete"},
   at : {"none", "dial", "resolving", "calling", "confirmed", "streaming", "over"},
   sid : Stored \cup {0}, live : Nat, pick : Picks \cup {0}]

ChannelRecord ==
  [resolved : Stored \cup {0}, live : [Stored -> Nat], active : [Stored -> Dials \cup {0}],
   newest : [Stored -> Dials \cup {0}], pick : Picks \cup {0}, op : [Dials -> ChannelOp],
   next : Nat \ {0}, created : Stored \cup {0}, lives : Nat, served : [Stored -> Nat],
   model : [Stored -> Picks \cup {0}], started : Picks \cup {0}, running : [Stored -> BOOLEAN],
   deleted : SUBSET Stored, wanted : Picks \cup {0}, latePick : BOOLEAN, raced : BOOLEAN,
   unseen : BOOLEAN, broken : BOOLEAN]

\* Operations are numbered as they come; only a turn or a command may set out for
\* a placeholder, and a stream has its session.
OpsInOrder(h) ==
  \A o \in Dials :
    /\ o >= h.next => h.op[o].at = "none"
    /\ h.op[o].at \notin {"none", "over"} /\ h.op[o].sid = 0 =>
         h.op[o].at \in {"dial", "resolving"} /\ h.op[o].kind \in {"turn", "command"}
    /\ h.op[o].at = "confirmed" => h.op[o].kind = "delete"

\* The stream that is registered is open, and it is the newest one if that is.
Registered(h) ==
  \A s \in Stored :
    /\ h.active[s] # 0 => h.op[h.active[s]].at = "streaming" /\ h.op[h.active[s]].sid = s
    /\ h.newest[s] # 0 /\ h.op[h.newest[s]].at = "streaming" /\ h.op[h.newest[s]].sid = s =>
         h.active[s] = h.newest[s]

\* What was picked before there is a session waits here, or went out with the
\* session.create.
PickWaits(h) ==
  /\ h.created = 0 <=> h.resolved = 0
  /\ h.created = 0 => /\ h.pick = h.wanted
                      /\ ~h.latePick => \A o \in Dials :
                           h.op[o].at = "resolving" /\ h.op[o].sid = 0 => h.op[o].pick = h.wanted
  /\ h.created # 0 /\ ~h.latePick => h.started = h.wanted

\* An operation that may create a session.
Creates(h, o) == h.op[o].at \in {"dial", "resolving"} /\ h.op[o].sid = 0

\* Unless two set out for the placeholder, one of them creates its session.
OneCreates(h) ==
  ~h.raced =>
    /\ h.created <= 1
    /\ \A o, p \in Dials : Creates(h, o) /\ Creates(h, p) => o = p
    /\ h.created # 0 => \A o \in Dials : ~Creates(h, o)

\* A delete that goes on saw no turn, and none has begun since.
DeletesIdle(h) ==
  /\ ~h.broken
  /\ ~h.unseen => \A o \in Dials : h.op[o].at = "confirmed" => ~h.running[h.op[o].sid]

KeepsChannel(h) ==
  /\ h \in ChannelRecord /\ OpsInOrder(h) /\ Registered(h)
  /\ PickWaits(h) /\ OneCreates(h) /\ DeletesIdle(h)

ChannelInv == KeepsChannel(here)

LEMMA ChannelStarts == ClientConstants /\ Channel!Init => ChannelInv
  <1> SUFFICES ASSUME ClientConstants, Channel!Init PROVE ChannelInv
    OBVIOUS
  <1>1. here.resolved = 0 /\ here.op = [o \in Dials |-> Channel!NoOp]
        /\ here.active = [s \in Stored |-> 0] /\ here.newest = [s \in Stored |-> 0]
        /\ here.pick = 0 /\ here.next = 1 /\ here.created = 0 /\ here.started = 0
        /\ here.running = [s \in Stored |-> FALSE] /\ here.wanted = 0
        /\ ~here.raced /\ ~here.broken
    BY DEF Channel!Init, Dials, Stored, Channel!Operations, Channel!Sessions, Channel!NoStream
  <1>2. Channel!NoOp \in ChannelOp /\ Channel!NoOp.at = "none" /\ Channel!NoOp.sid = 0
    BY DEF Channel!NoOp, ChannelOp
  <1>3. here \in ChannelRecord
    BY <1>2 DEF Channel!Init, ChannelRecord, Dials, Stored, Channel!Operations, Channel!Sessions,
      Channel!NoStream
  <1>4. \A o \in Dials : here.op[o].at = "none"
    BY <1>1, <1>2
  <1>5. OpsInOrder(here) /\ OneCreates(here) /\ DeletesIdle(here)
    BY <1>1, <1>4 DEF OpsInOrder, OneCreates, DeletesIdle, Creates
  <1>6. Registered(here) /\ PickWaits(here)
    BY <1>1, <1>4 DEF Registered, PickWaits
  <1> QED BY <1>3, <1>5, <1>6 DEF ChannelInv, KeepsChannel

\* What the channel's properties say is in the invariant.
LEMMA ChannelPromises ==
  ASSUME ChannelInv
  PROVE  /\ Channel!ChannelIsOpen /\ Channel!PickReachesSession
         /\ Channel!OneStoredSession /\ Channel!DeleteSeesTheTurn
  <1>1. here \in ChannelRecord /\ Registered(here) /\ PickWaits(here) /\ OneCreates(here)
        /\ DeletesIdle(here)
    BY DEF ChannelInv, KeepsChannel
  <1>2. Channel!ChannelIsOpen
    <2> SUFFICES ASSUME NEW s \in Stored
                 PROVE  /\ here.active[s] # 0 => here.active[s] \in Channel!Streams(s)
                        /\ here.newest[s] \in Channel!Streams(s) => here.active[s] = here.newest[s]
      BY DEF Channel!ChannelIsOpen, Stored, Channel!Sessions, Channel!H, Channel!NoStream
    <2>1. here.active[s] \in Dials \cup {0} /\ here.newest[s] \in Dials \cup {0}
      BY <1>1 DEF ChannelRecord
    <2>2. \A o : o \in Channel!Streams(s) <=>
                   o \in Dials /\ here.op[o].at = "streaming" /\ here.op[o].sid = s
      BY DEF Channel!Streams, Channel!H, Channel!Operations, Dials
    <2>3. 0 \notin Dials
      BY DEF Dials
    <2> QED BY <1>1, <2>1, <2>2, <2>3 DEF Registered
  <1>3. Channel!PickReachesSession
    BY <1>1 DEF Channel!PickReachesSession, Channel!H, PickWaits, ChannelRecord, Stored
  <1>4. Channel!OneStoredSession /\ Channel!DeleteSeesTheTurn
    BY <1>1 DEF Channel!OneStoredSession, Channel!DeleteSeesTheTurn, Channel!H, OneCreates,
      DeletesIdle, ChannelRecord, Stored
  <1> QED BY <1>2, <1>3, <1>4

\* One operation goes on or comes in: no stream, no session of its own, and nothing
\* it does not account for.
LEMMA OneOpMoves ==
  ASSUME NEW c, KeepsChannel(c), NEW h \in ChannelRecord, NEW o \in Dials, NEW e \in ChannelOp,
         h.op = [c.op EXCEPT ![o] = e],
         h.resolved = c.resolved, h.active = c.active, h.newest = c.newest, h.pick = c.pick,
         h.created = c.created, h.started = c.started, h.wanted = c.wanted,
         h.latePick = c.latePick, c.raced => h.raced, c.unseen => h.unseen, ~h.broken,
         \A s \in Stored : h.running[s] => c.running[s],
         c.next <= h.next, o < h.next,
         c.op[o].at # "streaming", e.at # "streaming",
         e.at \notin {"none", "over"} /\ e.sid = 0 =>
           e.at \in {"dial", "resolving"} /\ e.kind \in {"turn", "command"},
         e.at = "confirmed" => e.kind = "delete" /\ (h.unseen \/ ~h.running[e.sid]),
         c.created = 0 /\ e.at = "resolving" /\ e.sid = 0 => e.pick = c.wanted,
         e.at \in {"dial", "resolving"} /\ e.sid = 0 =>
           \/ Creates(c, o) \/ h.raced
           \/ c.created = 0 /\ \A p \in Dials : ~Creates(c, p)
  PROVE  KeepsChannel(h)
  <1>1. c \in ChannelRecord /\ OpsInOrder(c) /\ Registered(c) /\ PickWaits(c) /\ OneCreates(c)
        /\ DeletesIdle(c)
    BY DEF KeepsChannel
  <1>2. c.op \in [Dials -> ChannelOp] /\ c.next \in Nat /\ h.next \in Nat
        /\ c.active \in [Stored -> Dials \cup {0}] /\ c.newest \in [Stored -> Dials \cup {0}]
        /\ c.created \in Nat
    BY <1>1 DEF ChannelRecord, Stored
  <1>3. h.op[o] = e /\ \A p \in Dials : p # o => h.op[p] = c.op[p]
    BY <1>2
  <1>4. OpsInOrder(h)
    <2> SUFFICES ASSUME NEW p \in Dials
                 PROVE  /\ p >= h.next => h.op[p].at = "none"
                        /\ h.op[p].at \notin {"none", "over"} /\ h.op[p].sid = 0 =>
                             h.op[p].at \in {"dial", "resolving"}
                             /\ h.op[p].kind \in {"turn", "command"}
                        /\ h.op[p].at = "confirmed" => h.op[p].kind = "delete"
      BY DEF OpsInOrder
    <2>1. CASE p = o
      BY <2>1, <1>3, <1>2 DEF Dials
    <2>2. CASE p # o
      BY <2>2, <1>3, <1>2, <1>1 DEF OpsInOrder, Dials
    <2> QED BY <2>1, <2>2
  <1>5. Registered(h)
    <2> SUFFICES ASSUME NEW s \in Stored
                 PROVE  /\ h.active[s] # 0 => h.op[h.active[s]].at = "streaming"
                                              /\ h.op[h.active[s]].sid = s
                        /\ h.newest[s] # 0 /\ h.op[h.newest[s]].at = "streaming"
                             /\ h.op[h.newest[s]].sid = s => h.active[s] = h.newest[s]
      BY DEF Registered
    <2>1. h.active[s] # 0 => h.active[s] \in Dials /\ h.active[s] # o
      BY <1>1, <1>2 DEF Registered
    <2>2. h.newest[s] # 0 => h.newest[s] \in Dials
      BY <1>2
    <2> QED BY <2>1, <2>2, <1>1, <1>3 DEF Registered
  <1>6. PickWaits(h)
    <2>1. c.created = 0 /\ ~c.latePick =>
            \A p \in Dials : h.op[p].at = "resolving" /\ h.op[p].sid = 0 => h.op[p].pick = c.wanted
      BY <1>1, <1>3 DEF PickWaits
    <2> QED BY <2>1, <1>1 DEF PickWaits
  <1>7. OneCreates(h)
    <2> SUFFICES ASSUME ~h.raced
                 PROVE  /\ h.created <= 1
                        /\ \A p, q \in Dials : Creates(h, p) /\ Creates(h, q) => p = q
                        /\ h.created # 0 => \A p \in Dials : ~Creates(h, p)
      BY DEF OneCreates
    <2>1. /\ c.created <= 1
          /\ \A p, q \in Dials : Creates(c, p) /\ Creates(c, q) => p = q
          /\ c.created # 0 => \A p \in Dials : ~Creates(c, p)
      BY <1>1 DEF OneCreates
    <2>2. \A p \in Dials : p # o => (Creates(h, p) <=> Creates(c, p))
      BY <1>3 DEF Creates
    <2>3. Creates(h, o) => Creates(c, o) \/ (c.created = 0 /\ \A p \in Dials : ~Creates(c, p))
      BY <1>3 DEF Creates
    <2> QED BY <2>1, <2>2, <2>3
  <1>8. DeletesIdle(h)
    <2>1. SUFFICES ASSUME ~h.unseen, NEW p \in Dials, h.op[p].at = "confirmed"
                   PROVE  ~h.running[h.op[p].sid]
      BY DEF DeletesIdle
    <2>2. CASE p = o
      BY <2>1, <2>2, <1>3
    <2>3. CASE p # o
      <3>1. c.op[p].at = "confirmed" /\ h.op[p] = c.op[p] /\ ~c.running[c.op[p].sid]
        BY <2>1, <2>3, <1>1, <1>3 DEF DeletesIdle
      <3>2. c.op[p].sid \in Stored
        BY <3>1, <1>1, <1>2 DEF OpsInOrder, ChannelOp
      <3> QED BY <3>1, <3>2
    <2> QED BY <2>2, <2>3
  <1> QED BY <1>4, <1>5, <1>6, <1>7, <1>8 DEF KeepsChannel

LEMMA BeginKeeps ==
  ASSUME ClientConstants, ChannelInv, Channel!CanBegin, NEW r \in BOOLEAN, here.raced => r,
         NEW k \in {"turn", "command", "model", "resume", "cancel", "delete"},
         NEW m \in Picks \cup {0},
         \/ here.resolved # 0
         \/ k \in {"turn", "command"} /\ (r \/ ~Channel!Creating)
  PROVE  KeepsChannel([Channel!Begin(k, "dial", m) EXCEPT !.raced = r])
  <1> DEFINE e == [kind |-> k, at |-> "dial", sid |-> here.resolved, pick |-> m,
                   live |-> IF here.resolved = 0 THEN 0 ELSE here.live[here.resolved]]
  <1> DEFINE h == [Channel!Begin(k, "dial", m) EXCEPT !.raced = r]
  <1>1. here \in ChannelRecord /\ KeepsChannel(here) /\ OpsInOrder(here) /\ PickWaits(here)
    BY DEF ChannelInv, KeepsChannel
  <1>2. here.next \in Dials /\ here.next \in Nat /\ here.next + 1 \in Nat \ {0}
        /\ here.op \in [Dials -> ChannelOp] /\ here.resolved \in Stored \cup {0}
        /\ here.live \in [Stored -> Nat] /\ ~here.broken
    BY <1>1 DEF Channel!CanBegin, Channel!H, Channel!Operations, Dials, ChannelRecord, KeepsChannel,
      DeletesIdle
  <1>3. e \in ChannelOp
    BY <1>2 DEF ChannelOp
  <1>4. h = [here EXCEPT !.next = here.next + 1, !.op = [here.op EXCEPT ![here.next] = e], !.raced = r]
    BY <1>1 DEF Channel!Begin, Channel!H, ChannelRecord
  <1>5. e.at = "dial" /\ e.sid = here.resolved /\ e.kind = k
    OBVIOUS
  <1> HIDE DEF e
  <1>6. [here.op EXCEPT ![here.next] = e] \in [Dials -> ChannelOp]
    BY <1>2, <1>3
  <1> DEFINE f == [here.op EXCEPT ![here.next] = e]
  <1>7. h = [here EXCEPT !.next = here.next + 1, !.op = f, !.raced = r] /\ f \in [Dials -> ChannelOp]
        /\ f = [here.op EXCEPT ![here.next] = e]
    BY <1>4, <1>6
  <1> HIDE DEF f, h
  <1>8. h \in ChannelRecord
    BY <1>1, <1>2, <1>7, ZenonT(60) DEF ChannelRecord
  <1>9. /\ h.op = f /\ h.resolved = here.resolved /\ h.active = here.active
        /\ h.newest = here.newest /\ h.pick = here.pick /\ h.created = here.created
        /\ h.started = here.started /\ h.wanted = here.wanted /\ h.latePick = here.latePick
        /\ h.raced = r /\ h.unseen = here.unseen /\ h.broken = here.broken
        /\ h.running = here.running /\ h.next = here.next + 1
    BY <1>1, <1>7 DEF ChannelRecord
  <1>10. here.op[here.next].at = "none"
    BY <1>1, <1>2 DEF OpsInOrder
  <1>11. here.resolved = 0 => here.created = 0 /\ k \in {"turn", "command"}
                              /\ (r \/ \A p \in Dials : ~Creates(here, p))
    BY <1>1 DEF PickWaits, Channel!Creating, Creates, Channel!H, Channel!Operations, Dials
  <1>12. here.next <= h.next /\ here.next < h.next
    BY <1>2, <1>9
  <1> HIDE DEF ChannelRecord, ChannelOp, Creates, KeepsChannel
  <1>13. h.op = [here.op EXCEPT ![here.next] = e] /\ (here.raced => h.raced)
         /\ (here.unseen => h.unseen) /\ ~h.broken /\ here.op[here.next].at # "streaming"
         /\ (\A s \in Stored : h.running[s] => here.running[s])
    BY <1>2, <1>7, <1>9, <1>10
  <1>14. /\ e.at # "streaming" /\ e.at # "confirmed" /\ e.at # "resolving"
         /\ e.at \notin {"none", "over"} /\ e.sid = 0 =>
              e.at \in {"dial", "resolving"} /\ e.kind \in {"turn", "command"}
         /\ e.at \in {"dial", "resolving"} /\ e.sid = 0 =>
              \/ Creates(here, here.next) \/ h.raced
              \/ here.created = 0 /\ \A p \in Dials : ~Creates(here, p)
    BY <1>5, <1>9, <1>11
  <1>15. KeepsChannel(h)
    BY ONLY OneOpMoves, <1>1, <1>2, <1>3, <1>8, <1>9, <1>12, <1>13, <1>14
  <1> QED BY <1>15 DEF h

LEMMA BeginsKnown ==
  ASSUME ClientConstants, ChannelInv, Channel!CanBegin, here.resolved # 0,
         NEW k \in {"turn", "command", "model", "resume", "cancel", "delete"},
         NEW m \in Picks \cup {0}
  PROVE  KeepsChannel(Channel!Begin(k, "dial", m))
  <1>1. here \in ChannelRecord
    BY DEF ChannelInv, KeepsChannel
  <1>2. here.raced \in BOOLEAN
    BY <1>1 DEF ChannelRecord
  <1>3. KeepsChannel([Channel!Begin(k, "dial", m) EXCEPT !.raced = here.raced])
    BY BeginKeeps, <1>2
  <1>4. [Channel!Begin(k, "dial", m) EXCEPT !.raced = here.raced] = Channel!Begin(k, "dial", m)
    BY <1>1 DEF Channel!Begin, Channel!H, ChannelRecord
  <1> QED BY <1>3, <1>4

LEMMA ChannelBegins ==
  ASSUME ClientConstants, ChannelInv,
         \/ Channel!StreamTurn \/ Channel!Command \/ Channel!ResumeTurnStream
         \/ Channel!CancelTurn \/ Channel!DeleteSession
  PROVE  ChannelInv'
  <1>1. here \in ChannelRecord
    BY DEF ChannelInv, KeepsChannel
  <1> DEFINE r == here.raced \/ (Channel!Creating /\ here.resolved = 0)
  <1>2. r \in BOOLEAN /\ (here.raced => r) /\ (here.resolved # 0 \/ r \/ ~Channel!Creating)
    BY <1>1 DEF ChannelRecord
  <1>3. 0 \in Picks \cup {0}
    OBVIOUS
  <1>4. ASSUME NEW k \in {"turn", "command"}, Channel!CanBegin,
               here' = [Channel!Begin(k, "dial", 0) EXCEPT !.raced = @ \/ (Channel!Creating /\ here.resolved = 0)]
        PROVE  ChannelInv'
    <2>1. Channel!Begin(k, "dial", 0).raced = here.raced
      BY <1>1 DEF Channel!Begin, Channel!H, ChannelRecord
    <2>2. here' = [Channel!Begin(k, "dial", 0) EXCEPT !.raced = r]
      BY <1>4, <2>1
    <2> HIDE DEF r
    <2>3. KeepsChannel([Channel!Begin(k, "dial", 0) EXCEPT !.raced = r])
      BY BeginKeeps, <1>2, <1>3, <1>4
    <2> QED BY <2>2, <2>3 DEF ChannelInv
  <1>5. ASSUME Channel!StreamTurn PROVE ChannelInv'
    BY <1>4, <1>5 DEF Channel!StreamTurn, Channel!H
  <1>6. ASSUME Channel!Command PROVE ChannelInv'
    BY <1>4, <1>6 DEF Channel!Command, Channel!H
  <1>7. ASSUME Channel!ResumeTurnStream \/ Channel!CancelTurn \/ Channel!DeleteSession PROVE ChannelInv'
    BY BeginsKnown, <1>3, <1>7 DEF Channel!ResumeTurnStream, Channel!CancelTurn, Channel!DeleteSession,
      Channel!H, ChannelInv
  <1> QED BY <1>5, <1>6, <1>7

LEMMA ChannelSetsModel ==
  ASSUME ClientConstants, ChannelInv, NEW m \in Picks, Channel!SetSessionModel(m)
  PROVE  ChannelInv'
  <1>1. here \in ChannelRecord /\ OpsInOrder(here) /\ Registered(here) /\ PickWaits(here)
        /\ OneCreates(here) /\ DeletesIdle(here)
    BY DEF ChannelInv, KeepsChannel
  <1>2. ASSUME here.resolved # 0 PROVE ChannelInv'
    BY <1>2, BeginsKnown DEF Channel!SetSessionModel, Channel!H, ChannelInv
  <1>3. ASSUME here.resolved = 0 PROVE ChannelInv'
    <2> DEFINE late == here.latePick
                 \/ \E o \in Dials : here.op[o].at = "resolving" /\ here.op[o].sid = 0
    <2>1. here' = [here EXCEPT !.pick = m, !.wanted = m, !.latePick = late]
      BY <1>1, <1>3 DEF Channel!SetSessionModel, Channel!H, Channel!Operations, Dials, ChannelRecord
    <2>2. late \in BOOLEAN
      BY <1>1 DEF ChannelRecord
    <2>3. ~late => \A o \in Dials : ~(here.op[o].at = "resolving" /\ here.op[o].sid = 0)
      OBVIOUS
    <2> HIDE DEF late
    <2>4. here' \in ChannelRecord
      BY <1>1, <2>1, <2>2, ZenonT(60) DEF ChannelRecord
    <2>5. /\ here'.op = here.op /\ here'.resolved = here.resolved /\ here'.active = here.active
          /\ here'.newest = here.newest /\ here'.pick = m /\ here'.created = here.created
          /\ here'.wanted = m /\ here'.latePick = late
          /\ here'.raced = here.raced /\ here'.unseen = here.unseen /\ here'.broken = here.broken
          /\ here'.running = here.running /\ here'.next = here.next
      BY <1>1, <2>1 DEF ChannelRecord
    <2>6. OpsInOrder(here') /\ Registered(here') /\ OneCreates(here') /\ DeletesIdle(here')
      <3>1. OpsInOrder(here')
        BY <1>1, <2>5 DEF OpsInOrder
      <3>2. Registered(here')
        BY <1>1, <2>5 DEF Registered
      <3>3. OneCreates(here')
        BY <1>1, <2>5 DEF OneCreates, Creates
      <3>4. DeletesIdle(here')
        BY <1>1, <2>5 DEF DeletesIdle
      <3> QED BY <3>1, <3>2, <3>3, <3>4
    <2>7. PickWaits(here')
      BY <1>1, <1>3, <2>3, <2>5 DEF PickWaits
    <2> QED BY <2>4, <2>6, <2>7 DEF ChannelInv, KeepsChannel
  <1> QED BY <1>2, <1>3

LEMMA OpGoesOn ==
  ASSUME ClientConstants, NEW c, KeepsChannel(c), NEW o \in Dials, NEW e \in ChannelOp,
         NEW g \in [Stored -> Picks \cup {0}], NEW n \in [Stored -> BOOLEAN],
         NEW d \in SUBSET Stored, NEW u \in BOOLEAN,
         c.unseen => u, \A s \in Stored : n[s] => c.running[s],
         c.op[o].at \notin {"none", "streaming"}, e.at # "streaming",
         e.at \notin {"none", "over"} /\ e.sid = 0 =>
           Creates(c, o) /\ e.at \in {"dial", "resolving"} /\ e.kind \in {"turn", "command"},
         e.at = "confirmed" => e.kind = "delete" /\ (u \/ ~n[e.sid]),
         c.created = 0 /\ e.at = "resolving" /\ e.sid = 0 => e.pick = c.wanted
  PROVE  KeepsChannel([c EXCEPT !.op = [c.op EXCEPT ![o] = e], !.model = g, !.running = n,
                                !.deleted = d, !.unseen = u])
  <1> DEFINE f == [c.op EXCEPT ![o] = e]
  <1> DEFINE h == [c EXCEPT !.op = f, !.model = g, !.running = n, !.deleted = d, !.unseen = u]
  <1>1. c \in ChannelRecord /\ OpsInOrder(c) /\ ~c.broken
    BY DEF KeepsChannel, DeletesIdle
  <1>2. c.op \in [Dials -> ChannelOp] /\ c.next \in Nat
    BY <1>1 DEF ChannelRecord
  <1>3. f \in [Dials -> ChannelOp] /\ f = [c.op EXCEPT ![o] = e]
    BY <1>2
  <1> HIDE DEF f
  <1>4. h \in ChannelRecord
    BY <1>1, <1>3, ZenonT(60) DEF ChannelRecord
  <1>5. /\ h.op = f /\ h.resolved = c.resolved /\ h.active = c.active
        /\ h.newest = c.newest /\ h.pick = c.pick /\ h.created = c.created
        /\ h.started = c.started /\ h.wanted = c.wanted /\ h.latePick = c.latePick
        /\ h.raced = c.raced /\ h.unseen = u /\ h.broken = c.broken
        /\ h.running = n /\ h.next = c.next
    BY <1>1 DEF ChannelRecord
  <1>6. c.next <= h.next /\ o < h.next
    BY <1>1, <1>2, <1>5 DEF OpsInOrder, Dials
  <1> HIDE DEF h
  <1>7. h.op = [c.op EXCEPT ![o] = e] /\ (c.raced => h.raced)
         /\ (c.unseen => h.unseen) /\ ~h.broken /\ c.op[o].at # "streaming"
         /\ (\A s \in Stored : h.running[s] => c.running[s])
    BY <1>1, <1>3, <1>5
  <1>8. /\ e.at \notin {"none", "over"} /\ e.sid = 0 =>
              e.at \in {"dial", "resolving"} /\ e.kind \in {"turn", "command"}
        /\ e.at \in {"dial", "resolving"} /\ e.sid = 0 =>
              \/ Creates(c, o) \/ h.raced
              \/ c.created = 0 /\ \A p \in Dials : ~Creates(c, p)
        /\ e.at = "confirmed" => e.kind = "delete" /\ (h.unseen \/ ~h.running[e.sid])
    BY <1>5
  <1>9. KeepsChannel(h)
    BY ONLY OneOpMoves, <1>4, <1>5, <1>6, <1>7, <1>8, KeepsChannel(c), o \in Dials, e \in ChannelOp,
       e.at # "streaming", c.created = 0 /\ e.at = "resolving" /\ e.sid = 0 => e.pick = c.wanted
  <1> QED BY <1>9 DEF h, f

LEMMA NoOpOver == /\ [Channel!NoOp EXCEPT !.at = "over"] \in ChannelOp
                  /\ [Channel!NoOp EXCEPT !.at = "over"].at = "over"
  BY DEF Channel!NoOp, ChannelOp

\* An operation ends that was not a stream.
LEMMA OpEnds ==
  ASSUME ClientConstants, NEW c, KeepsChannel(c), NEW o \in Dials,
         c.op[o].at \notin {"none", "streaming"},
         NEW g \in [Stored -> Picks \cup {0}], NEW n \in [Stored -> BOOLEAN],
         NEW d \in SUBSET Stored,
         \A s \in Stored : n[s] => c.running[s]
  PROVE  KeepsChannel([Channel!End(c, o) EXCEPT !.model = g, !.running = n, !.deleted = d])
  <1> DEFINE e == [Channel!NoOp EXCEPT !.at = "over"]
  <1>1. c \in ChannelRecord
    BY DEF KeepsChannel
  <1>2. c.unseen \in BOOLEAN
    BY <1>1 DEF ChannelRecord
  <1>3. e \in ChannelOp /\ e.at = "over"
    BY NoOpOver
  <1>4. [Channel!End(c, o) EXCEPT !.model = g, !.running = n, !.deleted = d]
        = [c EXCEPT !.op = [c.op EXCEPT ![o] = e], !.model = g, !.running = n,
                                !.deleted = d, !.unseen = c.unseen]
    BY <1>1 DEF Channel!End, ChannelRecord
  <1> HIDE DEF e
  <1>5. KeepsChannel([c EXCEPT !.op = [c.op EXCEPT ![o] = e], !.model = g, !.running = n,
                                !.deleted = d, !.unseen = c.unseen])
    BY OpGoesOn, <1>2, <1>3
  <1> QED BY <1>4, <1>5

LEMMA OpJustEnds ==
  ASSUME ClientConstants, NEW c, KeepsChannel(c), NEW o \in Dials,
         c.op[o].at \notin {"none", "streaming"}
  PROVE  KeepsChannel(Channel!End(c, o))
  <1>1. c \in ChannelRecord
    BY DEF KeepsChannel
  <1>2. c.model \in [Stored -> Picks \cup {0}] /\ c.running \in [Stored -> BOOLEAN]
        /\ c.deleted \in SUBSET Stored
    BY <1>1 DEF ChannelRecord
  <1>3. Channel!End(c, o)
        = [Channel!End(c, o) EXCEPT !.model = c.model, !.running = c.running, !.deleted = c.deleted]
    BY <1>1 DEF Channel!End, ChannelRecord
  <1>4. KeepsChannel([Channel!End(c, o) EXCEPT !.model = c.model, !.running = c.running,
                                              !.deleted = c.deleted])
    BY OpEnds, <1>2
  <1> QED BY <1>3, <1>4

LEMMA OpJustGoesOn ==
  ASSUME ClientConstants, NEW c, KeepsChannel(c), NEW o \in Dials, NEW e \in ChannelOp,
         NEW u \in BOOLEAN, c.unseen => u,
         c.op[o].at \notin {"none", "streaming"}, e.at # "streaming",
         e.at \notin {"none", "over"} /\ e.sid = 0 =>
           Creates(c, o) /\ e.at \in {"dial", "resolving"} /\ e.kind \in {"turn", "command"},
         e.at = "confirmed" => e.kind = "delete" /\ (u \/ ~c.running[e.sid]),
         c.created = 0 /\ e.at = "resolving" /\ e.sid = 0 => e.pick = c.wanted
  PROVE  KeepsChannel([c EXCEPT !.op = [c.op EXCEPT ![o] = e], !.unseen = u])
  <1>1. c \in ChannelRecord
    BY DEF KeepsChannel
  <1>2. c.model \in [Stored -> Picks \cup {0}] /\ c.running \in [Stored -> BOOLEAN]
        /\ c.deleted \in SUBSET Stored
    BY <1>1 DEF ChannelRecord
  <1>3. [c EXCEPT !.op = [c.op EXCEPT ![o] = e], !.unseen = u]
        = [c EXCEPT !.op = [c.op EXCEPT ![o] = e], !.model = c.model, !.running = c.running,
                                !.deleted = c.deleted, !.unseen = u]
    BY <1>1 DEF ChannelRecord
  <1>4. KeepsChannel([c EXCEPT !.op = [c.op EXCEPT ![o] = e], !.model = c.model, !.running = c.running,
                                !.deleted = c.deleted, !.unseen = u])
    BY OpGoesOn, <1>2
  <1> QED BY <1>3, <1>4

LEMMA ChannelDials ==
  ASSUME ClientConstants, ChannelInv, NEW o \in Dials,
         Channel!Dialled(o) \/ Channel!DialFails(o) \/ Channel!CallFails(o) \/ Channel!Probed(o)
  PROVE  ChannelInv'
  <1> DEFINE p == here.op[o]
  <1>1. here \in ChannelRecord /\ KeepsChannel(here) /\ OpsInOrder(here) /\ PickWaits(here)
        /\ DeletesIdle(here)
    BY DEF ChannelInv, KeepsChannel
  <1>2. p \in ChannelOp /\ here.unseen \in BOOLEAN /\ here.pick \in Picks \cup {0}
        /\ here.op \in [Dials -> ChannelOp] /\ TRUE \in BOOLEAN
    BY <1>1 DEF ChannelRecord
  <1>3. /\ p.at \notin {"none", "over"} /\ p.sid = 0 =>
             p.at \in {"dial", "resolving"} /\ p.kind \in {"turn", "command"}
        /\ Creates(here, o) <=> p.at \in {"dial", "resolving"} /\ p.sid = 0
    BY <1>1 DEF OpsInOrder, Creates
  <1>4. ASSUME p.at \notin {"none", "streaming"} PROVE KeepsChannel(Channel!End(here, o))
    BY <1>1, <1>4, OpJustEnds
  <1>5. ASSUME p.at \in {"dial", "calling", "resolving"}, p.kind = "delete", p.sid # 0,
               NEW u \in BOOLEAN, here.unseen => u, u \/ ~here.running[p.sid]
        PROVE  KeepsChannel([here EXCEPT !.op = [here.op EXCEPT ![o] = [p EXCEPT !.at = "confirmed"]],
                                         !.unseen = u])
    <2> DEFINE e == [p EXCEPT !.at = "confirmed"]
    <2>1. e \in ChannelOp /\ e.at = "confirmed" /\ e.kind = "delete" /\ e.sid = p.sid
      BY <1>2, <1>5 DEF ChannelOp
    <2> HIDE DEF e
    <2>2. KeepsChannel([here EXCEPT !.op = [here.op EXCEPT ![o] = e], !.unseen = u])
      BY OpJustGoesOn, <1>1, <1>5, <2>1
    <2> QED BY <2>2 DEF e
  <1>6. ASSUME NEW u \in BOOLEAN
        PROVE  [here EXCEPT !.op[o].at = "confirmed", !.unseen = u]
               = [here EXCEPT !.op = [here.op EXCEPT ![o] = [p EXCEPT !.at = "confirmed"]], !.unseen = u]
    BY <1>1 DEF ChannelRecord
  <1>7. ASSUME Channel!Dialled(o) PROVE ChannelInv'
    <2> DEFINE calls == p.kind \in {"cancel", "delete"}
    <2> DEFINE e == IF calls THEN [p EXCEPT !.at = "calling"]
                    ELSE [p EXCEPT !.at = "resolving", !.pick = IF p.sid = 0 THEN here.pick ELSE p.pick]
    <2>1. p.at = "dial"
      BY <1>7 DEF Channel!Dialled, Channel!H
    <2>2. e \in ChannelOp /\ e.kind = p.kind /\ e.sid = p.sid
          /\ e.at = (IF calls THEN "calling" ELSE "resolving")
          /\ (e.at = "resolving" /\ e.sid = 0 => e.pick = here.pick)
      BY <1>2, ZenonT(60) DEF ChannelOp
    <2>3. here' = [here EXCEPT !.op = [here.op EXCEPT ![o] = e], !.unseen = here.unseen]
      <3>1. ASSUME calls PROVE here' = [here EXCEPT !.op[o] = e]
        BY <3>1, <1>7, <1>1 DEF Channel!Dialled, Channel!H, ChannelRecord
      <3>2. ASSUME ~calls PROVE here' = [here EXCEPT !.op[o] = e]
        <4>1. here' = [here EXCEPT !.op[o].at = "resolving",
                                   !.op[o].pick = IF p.sid = 0 THEN here.pick ELSE @]
          BY <3>2, <1>7 DEF Channel!Dialled, Channel!H
        <4> DEFINE q == IF p.sid = 0 THEN here.pick ELSE p.pick
        <4>2. [p EXCEPT !.at = "resolving"].pick = p.pick
          BY <1>2 DEF ChannelOp
        <4>3. here' = [here EXCEPT !.op = [here.op EXCEPT ![o] =
                         [[p EXCEPT !.at = "resolving"] EXCEPT !.pick = q]]]
          BY <4>1, <4>2, <1>1, <1>2, ZenonT(60) DEF ChannelRecord
        <4>4. e = [[p EXCEPT !.at = "resolving"] EXCEPT !.pick = q]
          BY <3>2
        <4> HIDE DEF e, q
        <4> QED BY <4>3, <4>4, <1>1
      <3>3. here' = [here EXCEPT !.op[o] = e]
        BY <3>1, <3>2
      <3> HIDE DEF e
      <3> QED BY <3>3, <1>1 DEF ChannelRecord
    <2>4. e.at # "streaming" /\ e.at # "confirmed"
          /\ (e.at \notin {"none", "over"} /\ e.sid = 0 =>
                Creates(here, o) /\ e.at \in {"dial", "resolving"} /\ e.kind \in {"turn", "command"})
      BY <2>1, <2>2, <1>3
    <2>5. here.created = 0 /\ e.at = "resolving" /\ e.sid = 0 => e.pick = here.wanted
      BY <2>2, <1>1 DEF PickWaits
    <2> HIDE DEF e
    <2>6. KeepsChannel([here EXCEPT !.op = [here.op EXCEPT ![o] = e], !.unseen = here.unseen])
      BY OpJustGoesOn, <1>1, <1>2, <2>1, <2>2, <2>4, <2>5
    <2> QED BY <2>3, <2>6, ZenonT(60) DEF ChannelInv
  <1>8. ASSUME Channel!DialFails(o) PROVE ChannelInv'
    <2>1. p.at = "dial" /\ here' = IF p.kind = "delete"
            THEN [here EXCEPT !.op[o].at = "confirmed", !.unseen = TRUE] ELSE Channel!End(here, o)
      BY <1>8 DEF Channel!DialFails, Channel!H
    <2> QED BY <2>1, <1>2, <1>3, <1>4, <1>5, <1>6 DEF ChannelInv
  <1>9. ASSUME Channel!CallFails(o) PROVE ChannelInv'
    <2>1. p.at \in {"resolving", "calling"} /\ here' = IF p.kind = "delete"
            THEN [here EXCEPT !.op[o].at = "confirmed", !.unseen = TRUE] ELSE Channel!End(here, o)
      BY <1>9 DEF Channel!CallFails, Channel!H
    <2> QED BY <2>1, <1>2, <1>3, <1>4, <1>5, <1>6 DEF ChannelInv
  <1>10. ASSUME Channel!Probed(o) PROVE ChannelInv'
    <2>1. p.at = "calling" /\ p.kind = "delete" /\ here' = IF here.running[p.sid]
            THEN Channel!End(here, o) ELSE [here EXCEPT !.op[o].at = "confirmed"]
      BY <1>10 DEF Channel!Probed, Channel!H
    <2>2. p.sid # 0
      BY <2>1, <1>3
    <2>3. [here EXCEPT !.op[o].at = "confirmed"]
          = [here EXCEPT !.op[o].at = "confirmed", !.unseen = here.unseen]
      BY <1>1 DEF ChannelRecord
    <2> QED BY <2>1, <2>2, <2>3, <1>2, <1>4, <1>5, <1>6 DEF ChannelInv
  <1> QED BY <1>7, <1>8, <1>9, <1>10

LEMMA ChannelAnswers ==
  ASSUME ClientConstants, ChannelInv, NEW o \in Dials,
         Channel!CallAnswered(o) \/ Channel!Deleted(o)
  PROVE  ChannelInv'
  <1> DEFINE p == here.op[o]
  <1>1. here \in ChannelRecord /\ KeepsChannel(here) /\ OpsInOrder(here) /\ DeletesIdle(here)
    BY DEF ChannelInv, KeepsChannel
  <1>2. p \in ChannelOp /\ here.model \in [Stored -> Picks \cup {0}]
        /\ here.running \in [Stored -> BOOLEAN] /\ here.deleted \in SUBSET Stored
        /\ here.unseen \in BOOLEAN
    BY <1>1 DEF ChannelRecord
  <1>3. p.pick \in Picks \cup {0} /\ (p.sid # 0 => p.sid \in Stored)
    BY <1>2 DEF ChannelOp
  <1>4. Channel!End(here, o) = [here EXCEPT !.op[o] = [Channel!NoOp EXCEPT !.at = "over"]]
    BY DEF Channel!End
  <1>5. /\ Channel!End(here, o).model = here.model /\ Channel!End(here, o).running = here.running
        /\ Channel!End(here, o).deleted = here.deleted /\ Channel!End(here, o).broken = here.broken
        /\ Channel!End(here, o).op = [here.op EXCEPT ![o] = [Channel!NoOp EXCEPT !.at = "over"]]
    BY <1>1, <1>4 DEF ChannelRecord
  <1>6. ASSUME Channel!CallAnswered(o) PROVE ChannelInv'
    <2> DEFINE served == p.live # 0 /\ here.served[p.sid] = p.live /\ p.sid \notin here.deleted
    <2> DEFINE g == [here.model EXCEPT ![p.sid] = IF served /\ p.kind = "model" THEN p.pick ELSE @]
    <2> DEFINE n == [here.running EXCEPT ![p.sid] = @ /\ ~(served /\ p.kind = "cancel")]
    <2>1. p.at = "calling" /\ p.sid \in Stored
      BY <1>6, <1>1, <1>3 DEF Channel!CallAnswered, Channel!H, OpsInOrder
    <2>2. here' = [Channel!End(here, o) EXCEPT
                      !.model[p.sid] = IF served /\ p.kind = "model" THEN p.pick ELSE @,
                      !.running[p.sid] = @ /\ ~(served /\ p.kind = "cancel")]
      BY <1>6 DEF Channel!CallAnswered, Channel!H
    <2>3. here' = [Channel!End(here, o) EXCEPT !.model = g, !.running = n]
      BY <2>2, <1>5
    <2>4. g \in [Stored -> Picks \cup {0}]
      BY <1>2, <1>3, <2>1
    <2>5. n \in [Stored -> BOOLEAN] /\ \A s \in Stored : n[s] => here.running[s]
      BY <1>2, <2>1
    <2> HIDE DEF g, n
    <2>6. KeepsChannel([Channel!End(here, o) EXCEPT !.model = g, !.running = n, !.deleted = here.deleted])
      BY OpEnds, <1>1, <1>2, <2>1, <2>4, <2>5
    <2>7. here' = [Channel!End(here, o) EXCEPT !.model = g, !.running = n, !.deleted = here.deleted]
      BY <2>3, <1>1 DEF Channel!End, ChannelRecord
    <2> QED BY <2>6, <2>7 DEF ChannelInv
  <1>7. ASSUME Channel!Deleted(o) PROVE ChannelInv'
    <2>1. p.at = "confirmed" /\ p.sid \in Stored
      BY <1>7, <1>1, <1>3 DEF Channel!Deleted, Channel!H, OpsInOrder
    <2>2. here' = [Channel!End(here, o) EXCEPT !.deleted = @ \cup {p.sid},
                                     !.broken = @ \/ (here.running[p.sid] /\ ~here.unseen)]
      BY <1>7 DEF Channel!Deleted, Channel!H
    <2>3. ~here.broken /\ ~(here.running[p.sid] /\ ~here.unseen) /\ here.broken \in BOOLEAN
      BY <1>1, <2>1 DEF DeletesIdle, ChannelRecord
    <2>4. here' = [Channel!End(here, o) EXCEPT !.deleted = here.deleted \cup {p.sid}, !.broken = here.broken]
      BY <2>2, <2>3, <1>5
    <2>5. here' = [Channel!End(here, o) EXCEPT !.model = here.model, !.running = here.running,
                                               !.deleted = here.deleted \cup {p.sid}]
      BY <2>4, <1>1 DEF Channel!End, ChannelRecord
    <2>6. here.deleted \cup {p.sid} \in SUBSET Stored
      BY <1>2, <2>1
    <2>7. KeepsChannel([Channel!End(here, o) EXCEPT !.model = here.model, !.running = here.running,
                                               !.deleted = here.deleted \cup {p.sid}])
      BY OpEnds, <1>1, <1>2, <2>1, <2>6
    <2> QED BY <2>5, <2>7 DEF ChannelInv
  <1> QED BY <1>6, <1>7

LEMMA ChannelGatewaySteps ==
  ASSUME ClientConstants, ChannelInv,
         Channel!GatewayRestarts \/ \E s \in Stored : Channel!TurnEnds(s)
  PROVE  ChannelInv'
  <1>1. here \in ChannelRecord /\ OpsInOrder(here) /\ Registered(here) /\ PickWaits(here)
        /\ OneCreates(here) /\ DeletesIdle(here)
    BY DEF ChannelInv, KeepsChannel
  <1>2. ASSUME NEW n \in [Stored -> BOOLEAN], NEW v \in [Stored -> Nat],
               \A s \in Stored : n[s] => here.running[s],
               here' = [here EXCEPT !.served = v, !.running = n]
        PROVE  ChannelInv'
    <2>1. here' \in ChannelRecord
      BY <1>1, <1>2, ZenonT(60) DEF ChannelRecord
    <2>2. /\ here'.op = here.op /\ here'.resolved = here.resolved /\ here'.active = here.active
          /\ here'.newest = here.newest /\ here'.pick = here.pick /\ here'.created = here.created
          /\ here'.wanted = here.wanted /\ here'.latePick = here.latePick
          /\ here'.started = here.started
          /\ here'.raced = here.raced /\ here'.unseen = here.unseen /\ here'.broken = here.broken
          /\ here'.running = n /\ here'.next = here.next
      BY <1>1, <1>2 DEF ChannelRecord
    <2>3. OpsInOrder(here')
      BY <1>1, <2>2 DEF OpsInOrder
    <2>4. Registered(here')
      BY <1>1, <2>2 DEF Registered
    <2>5. OneCreates(here')
      BY <1>1, <2>2 DEF OneCreates, Creates
    <2>6. PickWaits(here')
      BY <1>1, <2>2 DEF PickWaits
    <2>7. DeletesIdle(here')
      <3>1. \A o \in Dials : here.op[o].at = "confirmed" => here.op[o].sid \in Stored
        BY <1>1 DEF OpsInOrder, ChannelRecord, ChannelOp
      <3> QED BY <1>1, <1>2, <2>2, <3>1 DEF DeletesIdle
    <2> QED BY <2>1, <2>3, <2>4, <2>5, <2>6, <2>7 DEF ChannelInv, KeepsChannel
  <1>3. ASSUME Channel!GatewayRestarts PROVE ChannelInv'
    <2>1. here' = [here EXCEPT !.served = [s \in Stored |-> 0], !.running = [s \in Stored |-> FALSE]]
      BY <1>3 DEF Channel!GatewayRestarts, Channel!H, Channel!Sessions, Stored
    <2> DEFINE v == [s \in Stored |-> 0]
    <2> DEFINE n == [s \in Stored |-> FALSE]
    <2>2. v \in [Stored -> Nat] /\ n \in [Stored -> BOOLEAN] /\ \A s \in Stored : ~n[s]
      OBVIOUS
    <2>3. here' = [here EXCEPT !.served = v, !.running = n]
      BY <2>1
    <2> HIDE DEF v, n
    <2> QED BY <1>2, <2>2, <2>3
  <1>4. ASSUME NEW s \in Stored, Channel!TurnEnds(s) PROVE ChannelInv'
    <2> DEFINE n == [here.running EXCEPT ![s] = FALSE]
    <2>1. n \in [Stored -> BOOLEAN] /\ (\A t \in Stored : n[t] => here.running[t])
          /\ here.served \in [Stored -> Nat]
      BY <1>1 DEF ChannelRecord
    <2>2. here' = [here EXCEPT !.running = n]
      BY <1>4 DEF Channel!TurnEnds, Channel!H
    <2> HIDE DEF n
    <2>3. here' = [here EXCEPT !.served = here.served, !.running = n]
      BY <1>1, <2>2 DEF ChannelRecord
    <2> QED BY <1>2, <2>1, <2>3
  <1> QED BY <1>3, <1>4

\* An operation that reached its session takes the channel, for the stream of a turn.
LEMMA RegisterKeeps ==
  ASSUME ClientConstants, NEW c, KeepsChannel(c), NEW o \in Dials, NEW s \in Stored,
         NEW live \in Nat, c.op[o].at = "calling", c.op[o].sid = s,
         NEW n \in [Stored -> BOOLEAN], NEW u \in BOOLEAN, c.unseen => u,
         \/ n = c.running
         \/ n = [c.running EXCEPT ![s] = TRUE]
            /\ ((\E p \in Dials : c.op[p].at = "confirmed") => u)
  PROVE  KeepsChannel([Channel!Register(c, o, s, live) EXCEPT !.running = n, !.unseen = u])
  <1> DEFINE e == [c.op[o] EXCEPT !.at = "streaming", !.sid = s, !.live = live]
  <1> DEFINE f == [c.op EXCEPT ![o] = e]
  <1> DEFINE a == [c.active EXCEPT ![s] = o]
  <1> DEFINE w == [c.newest EXCEPT ![s] = o]
  <1> DEFINE h == [c EXCEPT !.active = a, !.newest = w, !.op = f, !.running = n, !.unseen = u]
  <1>1. c \in ChannelRecord /\ OpsInOrder(c) /\ Registered(c) /\ PickWaits(c)
        /\ OneCreates(c) /\ DeletesIdle(c)
    BY DEF KeepsChannel
  <1>2. c.op[o] \in ChannelOp /\ c.op \in [Dials -> ChannelOp]
        /\ c.active \in [Stored -> Dials \cup {0}] /\ c.newest \in [Stored -> Dials \cup {0}]
    BY <1>1 DEF ChannelRecord
  <1>3. e \in ChannelOp /\ e.at = "streaming" /\ e.sid = s
    BY <1>2 DEF ChannelOp
  <1>4. [Channel!Register(c, o, s, live) EXCEPT !.running = n, !.unseen = u] = h
    <2>1. Channel!Register(c, o, s, live) = [c EXCEPT !.active = a, !.newest = w, !.op = f]
      BY <1>1 DEF Channel!Register, ChannelRecord
    <2> HIDE DEF a, w, f
    <2> QED BY <2>1, <1>1 DEF ChannelRecord
  <1> HIDE DEF e
  <1>5. f \in [Dials -> ChannelOp] /\ a \in [Stored -> Dials \cup {0}]
        /\ w \in [Stored -> Dials \cup {0}]
    BY <1>2, <1>3
  <1>6. /\ \A p \in Dials : p # o => f[p] = c.op[p]
        /\ f[o].at = "streaming" /\ f[o].sid = s /\ a[s] = o /\ w[s] = o
        /\ \A t \in Stored : t # s => a[t] = c.active[t] /\ w[t] = c.newest[t]
    BY <1>2, <1>3
  <1> HIDE DEF f, a, w
  <1>7. h \in ChannelRecord
    BY <1>1, <1>5, ZenonT(60) DEF ChannelRecord
  <1>8. /\ h.op = f /\ h.resolved = c.resolved /\ h.active = a
        /\ h.newest = w /\ h.pick = c.pick /\ h.created = c.created
        /\ h.started = c.started /\ h.wanted = c.wanted /\ h.latePick = c.latePick
        /\ h.raced = c.raced /\ h.unseen = u /\ h.broken = c.broken
        /\ h.running = n /\ h.next = c.next
    BY <1>1 DEF ChannelRecord
  <1> HIDE DEF h
  <1>9. OpsInOrder(h)
    <2> SUFFICES ASSUME NEW p \in Dials
                 PROVE  /\ p >= h.next => h.op[p].at = "none"
                        /\ h.op[p].at \notin {"none", "over"} /\ h.op[p].sid = 0 =>
                             h.op[p].at \in {"dial", "resolving"}
                             /\ h.op[p].kind \in {"turn", "command"}
                        /\ h.op[p].at = "confirmed" => h.op[p].kind = "delete"
      BY DEF OpsInOrder
    <2>1. s # 0
      BY DEF Stored
    <2>2. CASE p = o
      BY <2>1, <2>2, <1>1, <1>6, <1>8 DEF OpsInOrder
    <2>3. CASE p # o
      BY <2>3, <1>1, <1>6, <1>8 DEF OpsInOrder
    <2> QED BY <2>2, <2>3
  <1>10. Registered(h)
    <2> SUFFICES ASSUME NEW t \in Stored
                 PROVE  /\ h.active[t] # 0 => h.op[h.active[t]].at = "streaming"
                                              /\ h.op[h.active[t]].sid = t
                        /\ h.newest[t] # 0 /\ h.op[h.newest[t]].at = "streaming"
                             /\ h.op[h.newest[t]].sid = t => h.active[t] = h.newest[t]
      BY DEF Registered
    <2>1. CASE t = s
      BY <2>1, <1>6, <1>8
    <2>2. CASE t # s
      <3>1. h.active[t] = c.active[t] /\ h.newest[t] = c.newest[t]
            /\ c.active[t] \in Dials \cup {0} /\ c.newest[t] \in Dials \cup {0}
        BY <2>2, <1>2, <1>6, <1>8
      <3>2. c.active[t] # 0 => c.active[t] # o
        BY <1>1 DEF Registered
      <3>3. c.newest[t] = o => h.op[h.newest[t]].sid # t
        BY <3>1, <2>2, <1>6, <1>8
      <3> QED BY <3>1, <3>2, <3>3, <1>1, <1>6, <1>8 DEF Registered
    <2> QED BY <2>1, <2>2
  <1>11. PickWaits(h)
    <2>1. \A p \in Dials : h.op[p].at = "resolving" => h.op[p] = c.op[p]
      BY <1>6, <1>8
    <2> QED BY <2>1, <1>1, <1>8 DEF PickWaits
  <1>12. OneCreates(h)
    <2>1. \A p \in Dials : Creates(h, p) => Creates(c, p)
      BY <1>6, <1>8 DEF Creates
    <2> QED BY <2>1, <1>1, <1>8 DEF OneCreates
  <1>13. DeletesIdle(h)
    <2> SUFFICES ASSUME ~h.unseen, NEW p \in Dials, h.op[p].at = "confirmed"
                 PROVE  ~h.running[h.op[p].sid]
      BY <1>1, <1>8 DEF DeletesIdle
    <2>1. c.op[p].at = "confirmed" /\ h.op[p] = c.op[p] /\ ~c.unseen /\ n = c.running
      BY <1>6, <1>8
    <2> QED BY <2>1, <1>1, <1>8 DEF DeletesIdle
  <1>14. KeepsChannel(h)
    BY <1>7, <1>9, <1>10, <1>11, <1>12, <1>13 DEF KeepsChannel
  <1> QED BY <1>4, <1>14

\* Whatever the operation does with its session.
LEMMA ContinueKeeps ==
  ASSUME ClientConstants, NEW h \in ChannelRecord, NEW o \in Dials, NEW s \in Stored,
         NEW live \in Nat,
         KeepsChannel([h EXCEPT !.op[o] = [@ EXCEPT !.at = "calling", !.sid = s, !.live = live]])
  PROVE  KeepsChannel(Channel!Continue(h, o, s, live))
  <1> DEFINE e == [h.op[o] EXCEPT !.at = "calling", !.sid = s, !.live = live]
  <1> DEFINE f == [h.op EXCEPT ![o] = e]
  <1> DEFINE c == [h EXCEPT !.op = f]
  <1>1. c = [h EXCEPT !.op[o] = [@ EXCEPT !.at = "calling", !.sid = s, !.live = live]]
    BY DEF ChannelRecord
  <1>2. KeepsChannel(c)
    BY <1>1
  <1>3. h.op \in [Dials -> ChannelOp] /\ h.op[o] \in ChannelOp /\ h.unseen \in BOOLEAN
        /\ h.running \in [Stored -> BOOLEAN]
    BY DEF ChannelRecord
  <1>4. e.at = "calling" /\ e.sid = s /\ e.kind = h.op[o].kind /\ e \in ChannelOp
    BY <1>3 DEF ChannelOp
  <1>5. c.op[o].at = "calling" /\ c.op[o].sid = s /\ c.unseen = h.unseen /\ c.running = h.running
        /\ c.op = f
    BY <1>3, <1>4 DEF ChannelRecord
  <1>6. Channel!Register(h, o, s, live) = Channel!Register(c, o, s, live)
    <2>1. [h.op[o] EXCEPT !.at = "streaming", !.sid = s, !.live = live]
          = [e EXCEPT !.at = "streaming", !.sid = s, !.live = live]
      BY <1>3 DEF ChannelOp
    <2>2. \A k \in {h, c} : Channel!Register(k, o, s, live) =
            [k EXCEPT !.active = [k.active EXCEPT ![s] = o], !.newest = [k.newest EXCEPT ![s] = o],
                      !.op = [k.op EXCEPT ![o] = [k.op[o] EXCEPT !.at = "streaming", !.sid = s,
                                                                 !.live = live]]]
      BY <1>2 DEF Channel!Register, ChannelRecord, KeepsChannel
    <2>3. [h.op EXCEPT ![o] = [h.op[o] EXCEPT !.at = "streaming", !.sid = s, !.live = live]]
          = [f EXCEPT ![o] = [f[o] EXCEPT !.at = "streaming", !.sid = s, !.live = live]]
      BY <2>1, <1>3
    <2> DEFINE a == [h.active EXCEPT ![s] = o]
    <2> DEFINE w == [h.newest EXCEPT ![s] = o]
    <2> DEFINE g == [f EXCEPT ![o] = [f[o] EXCEPT !.at = "streaming", !.sid = s, !.live = live]]
    <2>4. c.active = h.active /\ c.newest = h.newest /\ c.op = f
      BY DEF ChannelRecord
    <2>5. Channel!Register(h, o, s, live) = [h EXCEPT !.active = a, !.newest = w, !.op = g]
      BY <2>2, <2>3
    <2>6. Channel!Register(c, o, s, live) = [c EXCEPT !.active = a, !.newest = w, !.op = g]
      BY <2>2, <2>4
    <2> HIDE DEF a, w, g, e, f
    <2> QED BY <2>5, <2>6, ZenonT(60) DEF ChannelRecord
  <1>7. Channel!End(h, o) = Channel!End(c, o)
    <2>1. [h.op EXCEPT ![o] = [Channel!NoOp EXCEPT !.at = "over"]]
          = [f EXCEPT ![o] = [Channel!NoOp EXCEPT !.at = "over"]]
      BY <1>3
    <2> HIDE DEF e, f
    <2> QED BY <2>1 DEF Channel!End, ChannelRecord
  <1> HIDE DEF e, f, c
  <1>8. ASSUME h.op[o].kind = "turn" PROVE KeepsChannel(Channel!Continue(h, o, s, live))
    <2> DEFINE r == Channel!Register(h, o, s, live)
    <2> DEFINE n == [h.running EXCEPT ![s] = TRUE]
    <2> DEFINE u == h.unseen \/ \E p \in Dials : h.op[p].at = "confirmed"
    <2>1. Channel!Continue(h, o, s, live) = [r EXCEPT !.running[s] = TRUE,
                   !.unseen = @ \/ \E p \in Channel!Operations : h.op[p].at = "confirmed"]
      BY <1>8, "turn" # "resume", Zenon DEF Channel!Continue
    <2>2. r.running = h.running /\ r.unseen = h.unseen
      BY DEF Channel!Register, ChannelRecord
    <2>3. Channel!Continue(h, o, s, live) = [r EXCEPT !.running = n, !.unseen = u]
      BY <2>1, <2>2 DEF Channel!Operations, Dials
    <2>4. n \in [Stored -> BOOLEAN] /\ u \in BOOLEAN /\ (c.unseen => u)
          /\ n = [c.running EXCEPT ![s] = TRUE]
      BY <1>3, <1>5
    <2>5. (\E p \in Dials : c.op[p].at = "confirmed") => u
      BY <1>3, <1>4, <1>5 DEF f
    <2> HIDE DEF n, u, r
    <2>6. KeepsChannel([Channel!Register(c, o, s, live) EXCEPT !.running = n, !.unseen = u])
      BY RegisterKeeps, <1>2, <1>5, <2>4, <2>5
    <2> QED BY <2>3, <2>6, <1>6 DEF r
  <1>9. ASSUME h.op[o].kind = "resume" PROVE KeepsChannel(Channel!Continue(h, o, s, live))
    <2>1. KeepsChannel(Channel!End(c, o))
      BY OpJustEnds, <1>2, <1>5
    <2>2. KeepsChannel([Channel!Register(c, o, s, live) EXCEPT !.running = h.running, !.unseen = h.unseen])
      BY RegisterKeeps, <1>2, <1>3, <1>5
    <2>3. [Channel!Register(h, o, s, live) EXCEPT !.running = h.running, !.unseen = h.unseen]
          = Channel!Register(h, o, s, live)
      BY DEF Channel!Register, ChannelRecord
    <2>4. Channel!Continue(h, o, s, live) =
                IF h.running[s] THEN Channel!Register(h, o, s, live) ELSE Channel!End(h, o)
      BY <1>9, "turn" # "resume", Zenon DEF Channel!Continue
    <2> QED BY <1>6, <1>7, <2>1, <2>2, <2>3, <2>4
  <1>10. ASSUME h.op[o].kind \notin {"turn", "resume"}
         PROVE  KeepsChannel(Channel!Continue(h, o, s, live))
    <2>1. h.op[o].kind # "turn" /\ h.op[o].kind # "resume"
      BY <1>10
    <2>2. Channel!Continue(h, o, s, live) =
            [h EXCEPT !.op[o] = [@ EXCEPT !.at = "calling", !.sid = s, !.live = live]]
      BY <2>1, Zenon DEF Channel!Continue
    <2> QED BY <2>2
  <1> QED BY <1>8, <1>9, <1>10

\* session.create answers: the conversation has its session, with the pick that
\* was waiting, and the operation goes on to it.
LEMMA ChannelCreates ==
  ASSUME ClientConstants, ChannelInv, NEW o \in Dials, Channel!Created(o)
  PROVE  ChannelInv'
  <1> DEFINE p == here.op[o]
  <1> DEFINE s == here.created + 1
  <1> DEFINE live == here.lives + 1
  <1> DEFINE x == IF s = 1 THEN p.pick ELSE here.started
  <1> DEFINE v == [here.served EXCEPT ![s] = live]
  <1> DEFINE md == [here.model EXCEPT ![s] = p.pick]
  <1> DEFINE lv == [here.live EXCEPT ![s] = live]
  <1> DEFINE h == [here EXCEPT !.created = s, !.lives = live, !.served = v, !.model = md,
                               !.pick = 0, !.started = x, !.resolved = s, !.live = lv]
  <1> DEFINE e == [p EXCEPT !.at = "calling", !.sid = s, !.live = live]
  <1> DEFINE f == [here.op EXCEPT ![o] = e]
  <1> DEFINE c == [h EXCEPT !.op = f]
  <1>1. here \in ChannelRecord /\ OpsInOrder(here) /\ Registered(here) /\ PickWaits(here)
        /\ OneCreates(here) /\ DeletesIdle(here)
    BY DEF ChannelInv, KeepsChannel
  <1>2. p.at = "resolving" /\ p.sid = 0 /\ here.created < MaxSessions
    BY DEF Channel!Created, Channel!H
  <1>3. here.created \in Nat /\ here.lives \in Nat /\ MaxSessions \in Nat
        /\ here.op \in [Dials -> ChannelOp] /\ p \in ChannelOp
        /\ here.active \in [Stored -> Dials \cup {0}] /\ here.newest \in [Stored -> Dials \cup {0}]
    BY <1>1 DEF ChannelRecord, Stored, ClientConstants
  <1>4. s \in Stored /\ live \in Nat /\ s # 0
    BY <1>2, <1>3 DEF Stored
  <1>5. p.pick \in Picks \cup {0} /\ x \in Picks \cup {0} /\ 0 \in Picks \cup {0}
    BY <1>1, <1>3 DEF ChannelOp, ChannelRecord
  <1>6. v \in [Stored -> Nat] /\ md \in [Stored -> Picks \cup {0}] /\ lv \in [Stored -> Nat]
    BY <1>1, <1>4, <1>5 DEF ChannelRecord
  <1>7. here' = Channel!Continue([here EXCEPT !.created = s, !.lives = live, !.served[s] = live,
                                      !.model[s] = p.pick, !.pick = 0,
                                      !.started = IF s = 1 THEN p.pick ELSE @,
                                      !.resolved = s, !.live[s] = live], o, s, live)
    BY DEF Channel!Created, Channel!H
  <1>8. [here EXCEPT !.created = s, !.lives = live, !.served[s] = live, !.model[s] = p.pick,
                     !.pick = 0, !.started = IF s = 1 THEN p.pick ELSE @,
                     !.resolved = s, !.live[s] = live] = h
    BY <1>1 DEF ChannelRecord
  <1>9. here' = Channel!Continue(h, o, s, live)
    BY <1>7, <1>8
  <1>10. e \in ChannelOp /\ e.at = "calling" /\ e.sid = s
    BY <1>3, <1>4 DEF ChannelOp
  <1> HIDE DEF e
  <1>11. f \in [Dials -> ChannelOp] /\ f[o] = e /\ \A q \in Dials : q # o => f[q] = here.op[q]
    BY <1>3, <1>10
  <1>12. s = 1 <=> here.created = 0
    BY <1>3
  <1>13. x = IF here.created = 0 THEN p.pick ELSE here.started
    BY <1>12
  <1> HIDE DEF f, v, md, lv, x, live
  <1>14. h \in ChannelRecord /\ c \in ChannelRecord
    <2>1. s \in Stored \cup {0}
      BY <1>4
    <2> HIDE DEF s
    <2> QED BY <1>1, <1>4, <1>5, <1>6, <1>11, <2>1, ZenonT(60) DEF ChannelRecord
  <1>15. /\ c.op = f /\ c.resolved = s /\ c.active = here.active
         /\ c.newest = here.newest /\ c.pick = 0 /\ c.created = s
         /\ c.started = x /\ c.wanted = here.wanted /\ c.latePick = here.latePick
         /\ c.raced = here.raced /\ c.unseen = here.unseen /\ c.broken = here.broken
         /\ c.running = here.running /\ c.next = here.next
    BY <1>1 DEF ChannelRecord
  <1>16. c = [h EXCEPT !.op[o] = [@ EXCEPT !.at = "calling", !.sid = s, !.live = live]]
    <2>1. h.op = here.op
      BY <1>1 DEF ChannelRecord
    <2>2. [h EXCEPT !.op[o] = [@ EXCEPT !.at = "calling", !.sid = s, !.live = live]]
          = [h EXCEPT !.op = [h.op EXCEPT ![o] = [h.op[o] EXCEPT !.at = "calling", !.sid = s, !.live = live]]]
      BY <1>14 DEF ChannelRecord
    <2> QED BY <2>1, <2>2 DEF f, e
  <1> HIDE DEF c, h
  <1>17. OpsInOrder(c)
    <2> SUFFICES ASSUME NEW q \in Dials
                 PROVE  /\ q >= c.next => c.op[q].at = "none"
                        /\ c.op[q].at \notin {"none", "over"} /\ c.op[q].sid = 0 =>
                             c.op[q].at \in {"dial", "resolving"}
                             /\ c.op[q].kind \in {"turn", "command"}
                        /\ c.op[q].at = "confirmed" => c.op[q].kind = "delete"
      BY DEF OpsInOrder
    <2>1. CASE q = o
      BY <2>1, <1>1, <1>2, <1>4, <1>10, <1>11, <1>15 DEF OpsInOrder
    <2>2. CASE q # o
      BY <2>2, <1>1, <1>11, <1>15 DEF OpsInOrder
    <2> QED BY <2>1, <2>2
  <1>18. Registered(c)
    <2> SUFFICES ASSUME NEW t \in Stored
                 PROVE  /\ c.active[t] # 0 => c.op[c.active[t]].at = "streaming"
                                              /\ c.op[c.active[t]].sid = t
                        /\ c.newest[t] # 0 /\ c.op[c.newest[t]].at = "streaming"
                             /\ c.op[c.newest[t]].sid = t => c.active[t] = c.newest[t]
      BY DEF Registered
    <2>1. here.active[t] \in Dials \cup {0} /\ here.newest[t] \in Dials \cup {0}
      BY <1>3
    <2>2. here.active[t] # o
      BY <1>1, <1>2, <2>1 DEF Registered, Dials
    <2> QED BY <2>1, <2>2, <1>1, <1>10, <1>11, <1>15 DEF Registered
  <1>19. PickWaits(c)
    <2>1. ~here.latePick => x = here.wanted
      BY <1>1, <1>2, <1>13 DEF PickWaits
    <2> QED BY <2>1, <1>4, <1>15 DEF PickWaits
  <1>20. OneCreates(c)
    <2>1. Creates(here, o) /\ ~Creates(c, o)
      BY <1>2, <1>10, <1>11, <1>15 DEF Creates
    <2>2. \A q \in Dials : q # o => (Creates(c, q) <=> Creates(here, q))
      BY <1>11, <1>15 DEF Creates
    <2>3. here.created = 0 => s <= 1
      BY <1>12
    <2> QED BY <2>1, <2>2, <2>3, <1>1, <1>15 DEF OneCreates
  <1>21. DeletesIdle(c)
    <2>1. \A q \in Dials : c.op[q].at = "confirmed" => c.op[q] = here.op[q]
      BY <1>10, <1>11, <1>15
    <2> QED BY <2>1, <1>1, <1>15 DEF DeletesIdle
  <1>22. KeepsChannel(c)
    BY <1>14, <1>17, <1>18, <1>19, <1>20, <1>21 DEF KeepsChannel
  <1> HIDE DEF s
  <1>23. KeepsChannel(Channel!Continue(h, o, s, live))
    BY ContinueKeeps, <1>4, <1>14, <1>16, <1>22
  <1> QED BY <1>9, <1>23 DEF ChannelInv

\* session.resume answers.
LEMMA ChannelResumes ==
  ASSUME ClientConstants, ChannelInv, NEW o \in Dials, Channel!Resumed(o)
  PROVE  ChannelInv'
  <1> DEFINE p == here.op[o]
  <1> DEFINE s == p.sid
  <1> DEFINE live == IF here.served[s] = 0 THEN here.lives + 1 ELSE here.served[s]
  <1> DEFINE ls == IF here.served[s] = 0 THEN live ELSE here.lives
  <1> DEFINE v == [here.served EXCEPT ![s] = live]
  <1> DEFINE lv == [here.live EXCEPT ![s] = live]
  <1> DEFINE h == [here EXCEPT !.lives = ls, !.served = v, !.live = lv]
  <1> DEFINE e == [p EXCEPT !.at = "calling", !.sid = s, !.live = live]
  <1> DEFINE f == [here.op EXCEPT ![o] = e]
  <1> DEFINE c == [h EXCEPT !.op = f]
  <1>1. here \in ChannelRecord /\ KeepsChannel(here) /\ ~here.broken /\ OpsInOrder(here)
    BY DEF ChannelInv, KeepsChannel, DeletesIdle
  <1>2. p.at = "resolving" /\ s # 0
    BY DEF Channel!Resumed, Channel!Exists, Channel!H
  <1>3. here.lives \in Nat /\ here.op \in [Dials -> ChannelOp] /\ p \in ChannelOp
        /\ here.served \in [Stored -> Nat] /\ here.live \in [Stored -> Nat] /\ here.next \in Nat
    BY <1>1 DEF ChannelRecord
  <1>4. s \in Stored
    BY <1>2, <1>3 DEF ChannelOp
  <1>5. live \in Nat /\ ls \in Nat
    BY <1>3, <1>4
  <1>6. v \in [Stored -> Nat] /\ lv \in [Stored -> Nat]
    BY <1>3, <1>4, <1>5
  <1>7. here' = Channel!Continue([here EXCEPT !.lives = IF here.served[s] = 0 THEN live ELSE @,
                                             !.served[s] = live, !.live[s] = live], o, s, live)
    BY DEF Channel!Resumed, Channel!H
  <1>8. [here EXCEPT !.lives = IF here.served[s] = 0 THEN live ELSE @,
                     !.served[s] = live, !.live[s] = live] = h
    BY <1>1 DEF ChannelRecord
  <1>9. here' = Channel!Continue(h, o, s, live)
    BY <1>7, <1>8
  <1>10. e \in ChannelOp /\ e.at = "calling" /\ e.sid = s
    BY <1>3, <1>4, <1>5 DEF ChannelOp
  <1> HIDE DEF e
  <1>11. f \in [Dials -> ChannelOp] /\ f = [here.op EXCEPT ![o] = e]
    BY <1>3, <1>10
  <1> HIDE DEF f, v, lv, ls, live
  <1>14. h \in ChannelRecord /\ c \in ChannelRecord
    BY <1>1, <1>5, <1>6, <1>11, ZenonT(60) DEF ChannelRecord
  <1>15. /\ c.op = f /\ c.resolved = here.resolved /\ c.active = here.active
         /\ c.newest = here.newest /\ c.pick = here.pick /\ c.created = here.created
         /\ c.started = here.started /\ c.wanted = here.wanted /\ c.latePick = here.latePick
         /\ c.raced = here.raced /\ c.unseen = here.unseen /\ c.broken = here.broken
         /\ c.running = here.running /\ c.next = here.next
    BY <1>1 DEF ChannelRecord
  <1>16. c = [h EXCEPT !.op[o] = [@ EXCEPT !.at = "calling", !.sid = s, !.live = live]]
    <2>1. h.op = here.op
      BY <1>1 DEF ChannelRecord
    <2>2. [h EXCEPT !.op[o] = [@ EXCEPT !.at = "calling", !.sid = s, !.live = live]]
          = [h EXCEPT !.op = [h.op EXCEPT ![o] = [h.op[o] EXCEPT !.at = "calling", !.sid = s, !.live = live]]]
      BY <1>14 DEF ChannelRecord
    <2> QED BY <2>1, <2>2 DEF f, e
  <1> HIDE DEF c, h
  <1>17. here.next <= c.next /\ o < c.next
    BY <1>1, <1>2, <1>3, <1>15 DEF OpsInOrder, Dials
  <1>18. c.op = [here.op EXCEPT ![o] = e] /\ (here.raced => c.raced) /\ (here.unseen => c.unseen)
         /\ ~c.broken /\ here.op[o].at # "streaming"
         /\ (\A t \in Stored : c.running[t] => here.running[t])
    BY <1>1, <1>2, <1>11, <1>15
  <1>19. /\ e.at # "streaming" /\ e.at # "confirmed" /\ e.at # "resolving" /\ e.at # "dial"
         /\ e.sid # 0
    BY <1>2, <1>10
  <1>20. KeepsChannel(c)
    BY ONLY OneOpMoves, <1>1, <1>10, <1>14, <1>15, <1>17, <1>18, <1>19, o \in Dials
  <1> HIDE DEF s
  <1>23. KeepsChannel(Channel!Continue(h, o, s, live))
    BY ContinueKeeps, <1>4, <1>5, <1>14, <1>16, <1>20
  <1> QED BY <1>9, <1>23 DEF ChannelInv

LEMMA ChannelStreamEnds ==
  ASSUME ClientConstants, ChannelInv, NEW o \in Dials, Channel!StreamEnds(o)
  PROVE  ChannelInv'
  <1> DEFINE s == here.op[o].sid
  <1> DEFINE e == [Channel!NoOp EXCEPT !.at = "over"]
  <1> DEFINE f == [here.op EXCEPT ![o] = e]
  <1> DEFINE a == [here.active EXCEPT ![s] = IF @ = o THEN 0 ELSE @]
  <1>1. here \in ChannelRecord /\ OpsInOrder(here) /\ Registered(here) /\ PickWaits(here)
        /\ OneCreates(here) /\ DeletesIdle(here)
    BY DEF ChannelInv, KeepsChannel
  <1>2. here.op[o].at = "streaming" /\ here.op \in [Dials -> ChannelOp] /\ here.op[o] \in ChannelOp
        /\ here.active \in [Stored -> Dials \cup {0}] /\ here.newest \in [Stored -> Dials \cup {0}]
    BY <1>1 DEF Channel!StreamEnds, Channel!H, ChannelRecord
  <1>3. s \in Stored
    BY <1>1, <1>2 DEF OpsInOrder, ChannelOp
  <1>4. e \in ChannelOp /\ e.at = "over"
    BY NoOpOver
  <1>5. here' = [here EXCEPT !.op = f, !.active = a]
    <2>1. here' = Channel!Unregister(here, o)
      BY DEF Channel!StreamEnds, Channel!H
    <2>2. Channel!End(here, o) = [here EXCEPT !.op = f]
      BY <1>1 DEF Channel!End, ChannelRecord
    <2>3. Channel!End(here, o).active = here.active
      BY <2>2, <1>1 DEF ChannelRecord
    <2>4. Channel!Unregister(here, o) = [Channel!End(here, o) EXCEPT !.active = a]
      BY <2>3 DEF Channel!Unregister, Channel!NoStream
    <2> HIDE DEF f, a
    <2> QED BY <2>1, <2>2, <2>4, <1>1 DEF ChannelRecord
  <1> HIDE DEF e
  <1>6. f \in [Dials -> ChannelOp] /\ a \in [Stored -> Dials \cup {0}]
    BY <1>2, <1>3, <1>4
  <1>7. /\ f[o].at = "over" /\ \A p \in Dials : p # o => f[p] = here.op[p]
        /\ \A t \in Stored : t # s => a[t] = here.active[t]
        /\ a[s] = (IF here.active[s] = o THEN 0 ELSE here.active[s])
    BY <1>2, <1>3, <1>4
  <1> HIDE DEF f, a
  <1>8. here' \in ChannelRecord
    BY <1>1, <1>5, <1>6, ZenonT(60) DEF ChannelRecord
  <1>9. /\ here'.op = f /\ here'.resolved = here.resolved /\ here'.active = a
        /\ here'.newest = here.newest /\ here'.pick = here.pick /\ here'.created = here.created
        /\ here'.started = here.started /\ here'.wanted = here.wanted
        /\ here'.latePick = here.latePick
        /\ here'.raced = here.raced /\ here'.unseen = here.unseen /\ here'.broken = here.broken
        /\ here'.running = here.running /\ here'.next = here.next
    BY <1>1, <1>5 DEF ChannelRecord
  <1>10. OpsInOrder(here')
    <2> SUFFICES ASSUME NEW p \in Dials
                 PROVE  /\ p >= here'.next => here'.op[p].at = "none"
                        /\ here'.op[p].at \notin {"none", "over"} /\ here'.op[p].sid = 0 =>
                             here'.op[p].at \in {"dial", "resolving"}
                             /\ here'.op[p].kind \in {"turn", "command"}
                        /\ here'.op[p].at = "confirmed" => here'.op[p].kind = "delete"
      BY DEF OpsInOrder
    <2>1. CASE p = o
      BY <2>1, <1>1, <1>2, <1>7, <1>9 DEF OpsInOrder
    <2>2. CASE p # o
      BY <2>2, <1>1, <1>7, <1>9 DEF OpsInOrder
    <2> QED BY <2>1, <2>2
  <1>11. Registered(here')
    <2> SUFFICES ASSUME NEW t \in Stored
                 PROVE  /\ here'.active[t] # 0 => here'.op[here'.active[t]].at = "streaming"
                                                  /\ here'.op[here'.active[t]].sid = t
                        /\ here'.newest[t] # 0 /\ here'.op[here'.newest[t]].at = "streaming"
                             /\ here'.op[here'.newest[t]].sid = t => here'.active[t] = here'.newest[t]
      BY DEF Registered
    <2>1. here.active[t] \in Dials \cup {0} /\ here.newest[t] \in Dials \cup {0} /\ 0 \notin Dials
      BY <1>2 DEF Dials
    <2>2. a[t] # o /\ (a[t] = here.active[t] \/ (t = s /\ here.active[t] = o /\ a[t] = 0))
      BY <1>1, <1>7, <2>1 DEF Registered
    <2>3. here.newest[t] # o => (here.newest[t] # 0 => f[here.newest[t]] = here.op[here.newest[t]])
      BY <1>7, <2>1
    <2>4. here.newest[t] # 0 /\ f[here.newest[t]].at = "streaming"
            => here.newest[t] # o /\ f[here.newest[t]] = here.op[here.newest[t]]
      BY <1>7, <2>3
    <2> QED BY <1>1, <1>7, <1>9, <2>1, <2>2, <2>4 DEF Registered
  <1>12. PickWaits(here')
    <2>1. \A p \in Dials : here'.op[p].at = "resolving" => here'.op[p] = here.op[p]
      BY <1>7, <1>9
    <2> QED BY <2>1, <1>1, <1>9 DEF PickWaits
  <1>13. OneCreates(here')
    <2>1. \A p \in Dials : Creates(here', p) => Creates(here, p)
      BY <1>7, <1>9 DEF Creates
    <2> QED BY <2>1, <1>1, <1>9 DEF OneCreates
  <1>14. DeletesIdle(here')
    <2>1. \A p \in Dials : here'.op[p].at = "confirmed" => here'.op[p] = here.op[p]
      BY <1>7, <1>9
    <2> QED BY <2>1, <1>1, <1>9 DEF DeletesIdle
  <1> QED BY <1>8, <1>10, <1>11, <1>12, <1>13, <1>14 DEF ChannelInv, KeepsChannel

LEMMA ChannelSteps ==
  ASSUME ClientConstants, ChannelInv, Channel!Next
  PROVE  ChannelInv'
  <1>1. ASSUME Channel!StreamTurn \/ Channel!Command \/ Channel!ResumeTurnStream
               \/ Channel!CancelTurn \/ Channel!DeleteSession
        PROVE  ChannelInv'
    BY <1>1, ChannelBegins
  <1>2. ASSUME NEW m \in Picks, Channel!SetSessionModel(m) PROVE ChannelInv'
    BY <1>2, ChannelSetsModel
  <1>3. ASSUME Channel!GatewayRestarts \/ \E s \in Stored : Channel!TurnEnds(s) PROVE ChannelInv'
    BY <1>3, ChannelGatewaySteps
  <1>4. ASSUME NEW o \in Dials, Channel!Dialled(o) \/ Channel!DialFails(o) \/ Channel!CallFails(o)
                               \/ Channel!Probed(o)
        PROVE  ChannelInv'
    BY <1>4, ChannelDials
  <1>5. ASSUME NEW o \in Dials, Channel!CallAnswered(o) \/ Channel!Deleted(o) PROVE ChannelInv'
    BY <1>5, ChannelAnswers
  <1>6. ASSUME NEW o \in Dials, Channel!Created(o) \/ Channel!Resumed(o) \/ Channel!StreamEnds(o)
        PROVE  ChannelInv'
    BY <1>6, ChannelCreates, ChannelResumes, ChannelStreamEnds
  <1> QED BY <1>1, <1>2, <1>3, <1>4, <1>5, <1>6
        DEF Channel!Next, Channel!Operations, Channel!Sessions, Dials, Stored

----------------------------------------------------------------------------
(* The draft (Composer).                                                   *)

Marks == {"/title", "/config", "/skill", "/", "offered"}
Drafts == Seq(Words \cup Marks)

DraftRecord ==
  [part : {"commands", "dictation"}, text : Drafts, entered : SUBSET Words, files : Nat,
   catalog : {"unseen", "asked", "known", "failed"},
   slash : [kind : {"none", "title", "execute", "unavailable", "chat"}, words : SUBSET Words],
   mic : {"idle", "recording", "transcribing"}, fix : Drafts, correcting : BOOLEAN,
   turn : {"idle", "running", "settling"}, turns : Nat, cancelling : BOOLEAN, prompt : BOOLEAN,
   delivered : SUBSET Words, lost : SUBSET Words, unanswered : SUBSET Words]

\* Every word is accounted for, and the words of the draft and those of the
\* correction that is out are nowhere else: the gateway has of them only what it
\* took without an answer.
WordsAccounted(d) ==
  LET text == Draft!WordsOf(d.text)
      fix == Draft!WordsOf(d.fix)
  IN /\ d.entered = UNION {text, fix, d.slash.words, d.delivered, d.lost}
     /\ text \cap (fix \cup d.slash.words) = {} /\ fix \cap d.slash.words = {}
     /\ (text \cup fix) \cap d.delivered \subseteq d.unanswered
     /\ ~d.correcting => fix = {}

DraftInv == here \in DraftRecord /\ WordsAccounted(here)

LEMMA WordsOfDrafts ==
  ASSUME ClientConstants
  PROVE  /\ Draft!WordsOf(<<>>) = {} /\ Draft!WordsOf(<<"offered">>) = {}
         /\ \A t \in Drafts : Draft!WordsOf(t) \subseteq Words
         /\ \A t \in Drafts, w \in Words \cup Marks :
              Append(t, w) \in Drafts
              /\ Draft!WordsOf(Append(t, w)) = Draft!WordsOf(t) \cup ({w} \cap Words)
         /\ \A t \in Drafts : t # <<>> =>
              SubSeq(t, 1, Len(t) - 1) \in Drafts
              /\ Draft!WordsOf(SubSeq(t, 1, Len(t) - 1)) \subseteq Draft!WordsOf(t)
         /\ \A t \in Drafts, i \in Nat, w \in Marks :
              i \in DOMAIN t /\ t[i] \in Marks =>
                [t EXCEPT ![i] = w] \in Drafts /\ Draft!WordsOf([t EXCEPT ![i] = w]) = Draft!WordsOf(t)
  <1>1. Words \cap Marks = {}
    BY DEF ClientConstants, Marks
  <1>2. Draft!WordsOf(<<>>) = {}
    BY DEF Draft!WordsOf
  <1>3. Draft!WordsOf(<<"offered">>) = {}
    BY <1>1 DEF Draft!WordsOf, Marks
  <1>4. \A t \in Drafts : Draft!WordsOf(t) \subseteq Words
    BY DEF Draft!WordsOf
  <1>5. ASSUME NEW t \in Drafts, NEW w \in Words \cup Marks
        PROVE  Append(t, w) \in Drafts
               /\ Draft!WordsOf(Append(t, w)) = Draft!WordsOf(t) \cup ({w} \cap Words)
    <2> DEFINE a == Append(t, w)
    <2>1. a \in Drafts /\ Len(t) \in Nat /\ DOMAIN t = 1..Len(t) /\ DOMAIN a = 1..(Len(t) + 1)
          /\ a[Len(t) + 1] = w /\ \A i \in 1..Len(t) : a[i] = t[i]
      BY DEF Drafts
    <2> HIDE DEF a
    <2>2. \A i \in 1..(Len(t) + 1) : i \in 1..Len(t) \/ i = Len(t) + 1
      BY <2>1
    <2>3. \A i \in 1..Len(t) : i \in 1..(Len(t) + 1)
      BY <2>1
    <2>4. Len(t) + 1 \in 1..(Len(t) + 1)
      BY <2>1
    <2>5. {a[i] : i \in DOMAIN a} = {t[i] : i \in DOMAIN t} \cup {w}
      BY <2>1, <2>2, <2>3, <2>4
    <2>6. Draft!WordsOf(a) = Draft!WordsOf(t) \cup ({w} \cap Words)
      BY <2>5 DEF Draft!WordsOf
    <2> QED BY <2>1, <2>6 DEF a
  <1>6. ASSUME NEW t \in Drafts, t # <<>>
        PROVE  SubSeq(t, 1, Len(t) - 1) \in Drafts
               /\ Draft!WordsOf(SubSeq(t, 1, Len(t) - 1)) \subseteq Draft!WordsOf(t)
    <2> DEFINE s == SubSeq(t, 1, Len(t) - 1)
    <2>1. Len(t) \in Nat /\ Len(t) >= 1 /\ DOMAIN t = 1..Len(t)
      BY <1>6 DEF Drafts
    <2>2. s \in Drafts /\ DOMAIN s = 1..(Len(t) - 1) /\ \A i \in 1..(Len(t) - 1) : s[i] = t[i]
      BY <2>1 DEF Drafts
    <2> HIDE DEF s
    <2>3. \A i \in DOMAIN s : i \in DOMAIN t /\ s[i] = t[i]
      BY <2>1, <2>2
    <2>4. Draft!WordsOf(s) \subseteq Draft!WordsOf(t)
      BY <2>3 DEF Draft!WordsOf
    <2> QED BY <2>2, <2>4 DEF s
  <1>7. ASSUME NEW t \in Drafts, NEW i \in Nat, NEW w \in Marks, i \in DOMAIN t, t[i] \in Marks
        PROVE  [t EXCEPT ![i] = w] \in Drafts
               /\ Draft!WordsOf([t EXCEPT ![i] = w]) = Draft!WordsOf(t)
    <2> DEFINE a == [t EXCEPT ![i] = w]
    <2>1. DOMAIN a = DOMAIN t /\ a[i] = w /\ \A j \in DOMAIN t : j # i => a[j] = t[j]
      BY <1>7
    <2>2. a \in Drafts
      BY <1>7 DEF Drafts
    <2> HIDE DEF a
    <2>3. w \notin Words /\ t[i] \notin Words
      BY <1>1, <1>7
    <2>4. Draft!WordsOf(a) = Draft!WordsOf(t)
      BY <2>1, <2>3 DEF Draft!WordsOf
    <2> QED BY <2>2, <2>4 DEF a
  <1> QED BY <1>2, <1>3, <1>4, <1>5, <1>6, <1>7

LEMMA DraftStarts == ClientConstants /\ Draft!Init => DraftInv
  <1> SUFFICES ASSUME ClientConstants, Draft!Init PROVE DraftInv
    OBVIOUS
  <1>1. <<>> \in Drafts /\ Draft!WordsOf(<<>>) = {}
    BY WordsOfDrafts DEF Drafts
  <1> QED BY <1>1 DEF Draft!Init, DraftInv, DraftRecord, WordsAccounted, Draft!NoCommand

LEMMA DraftPromises ==
  DraftInv => Draft!NoWordVanishes /\ Draft!NoWordTwice
  BY DEF DraftInv, DraftRecord, WordsAccounted, Draft!NoWordVanishes, Draft!NoWordTwice,
         Draft!C

\* Steps that leave the words where they are.
LEMMA WordsStand ==
  ASSUME ClientConstants, DraftInv,
         \/ Draft!CatalogAnswers \/ Draft!StartDictation \/ Draft!StopDictation
         \/ Draft!NothingHeard \/ Draft!AddFile \/ Draft!RemoveFile \/ Draft!Stop
         \/ Draft!TurnEnds \/ Draft!TurnSettles \/ Draft!PromptShows
  PROVE  DraftInv'
  <1>1. here \in DraftRecord /\ WordsAccounted(here)
    BY DEF DraftInv
  <1>2. ASSUME here' \in DraftRecord, here'.text = here.text, here'.entered = here.entered,
               here'.slash = here.slash, here'.fix = here.fix, here'.correcting = here.correcting,
               here'.delivered = here.delivered, here'.lost = here.lost,
               here'.unanswered = here.unanswered
        PROVE  DraftInv'
    <2>1. WordsAccounted(here')
      BY <1>1, <1>2 DEF WordsAccounted
    <2> QED BY <1>2, <2>1 DEF DraftInv
  <1>3. here.files \in Nat /\ (here.files > 0 => here.files - 1 \in Nat) /\ here.files + 1 \in Nat
    BY <1>1 DEF DraftRecord
  <1>4. ASSUME Draft!CatalogAnswers PROVE DraftInv'
    BY <1>1, <1>2, <1>4 DEF Draft!CatalogAnswers, Draft!C, DraftRecord
  <1>5. ASSUME Draft!StartDictation \/ Draft!StopDictation \/ Draft!NothingHeard PROVE DraftInv'
    BY <1>1, <1>2, <1>5 DEF Draft!StartDictation, Draft!StopDictation, Draft!NothingHeard, Draft!C,
      DraftRecord
  <1>6. ASSUME Draft!AddFile \/ Draft!RemoveFile PROVE DraftInv'
    BY <1>1, <1>2, <1>3, <1>6 DEF Draft!AddFile, Draft!RemoveFile, Draft!C, DraftRecord
  <1>7. ASSUME Draft!Stop PROVE DraftInv'
    BY <1>1, <1>2, <1>7 DEF Draft!Stop, Draft!C, DraftRecord
  <1>8. ASSUME Draft!TurnEnds PROVE DraftInv'
    BY <1>1, <1>2, <1>8, ZenonT(60) DEF Draft!TurnEnds, Draft!C, DraftRecord
  <1>9. ASSUME Draft!TurnSettles PROVE DraftInv'
    BY <1>1, <1>2, <1>9 DEF Draft!TurnSettles, Draft!C, DraftRecord
  <1>10. ASSUME Draft!PromptShows PROVE DraftInv'
    BY <1>1, <1>2, <1>10 DEF Draft!PromptShows, Draft!C, DraftRecord
  <1> QED BY <1>4, <1>5, <1>6, <1>7, <1>8, <1>9, <1>10

\* A word comes in that was nowhere.
LEMMA WordEnters ==
  ASSUME ClientConstants, DraftInv, NEW w \in Words, Draft!Type(w) \/ Draft!Transcribed(w)
  PROVE  DraftInv'
  <1> DEFINE t == Append(here.text, w)
  <1>1. here \in DraftRecord /\ WordsAccounted(here) /\ here.text \in Drafts
    BY DEF DraftInv, DraftRecord
  <1>2. t \in Drafts /\ Draft!WordsOf(t) = Draft!WordsOf(here.text) \cup {w}
    <2>1. {w} \cap Words = {w}
      OBVIOUS
    <2> QED BY <1>1, <2>1, WordsOfDrafts
  <1>3. w \notin here.entered
    BY DEF Draft!Type, Draft!Transcribed, Draft!C
  <1>4. \E m \in {"idle", "recording", "transcribing"} :
          here' = [here EXCEPT !.mic = m, !.text = t, !.entered = here.entered \cup {w}]
    <2>1. here.mic \in {"idle", "recording", "transcribing"} /\ here = [here EXCEPT !.mic = here.mic]
      BY <1>1 DEF DraftRecord
    <2>2. ASSUME Draft!Type(w)
          PROVE  here' = [here EXCEPT !.mic = here.mic, !.text = t, !.entered = here.entered \cup {w}]
      BY <2>2, <1>1 DEF Draft!Type, Draft!C, DraftRecord
    <2>3. ASSUME Draft!Transcribed(w)
          PROVE  here' = [here EXCEPT !.mic = "idle", !.text = t, !.entered = here.entered \cup {w}]
      BY <2>3 DEF Draft!Transcribed, Draft!C
    <2> QED BY <2>1, <2>2, <2>3
  <1> HIDE DEF t
  <1>5. here' \in DraftRecord
    <2>1. PICK m \in {"idle", "recording", "transcribing"} :
            here' = [here EXCEPT !.mic = m, !.text = t, !.entered = here.entered \cup {w}]
      BY <1>4
    <2>2. here.entered \cup {w} \in SUBSET Words
      BY <1>1 DEF DraftRecord
    <2> QED BY <1>1, <1>2, <2>1, <2>2, ZenonT(60) DEF DraftRecord
  <1>6. /\ here'.text = t /\ here'.entered = here.entered \cup {w}
        /\ here'.slash = here.slash /\ here'.fix = here.fix /\ here'.correcting = here.correcting
        /\ here'.unanswered = here.unanswered
        /\ here'.delivered = here.delivered /\ here'.lost = here.lost
    BY <1>1, <1>4 DEF DraftRecord
  <1>7. WordsAccounted(here')
    BY <1>1, <1>2, <1>3, <1>6 DEF WordsAccounted
  <1> QED BY <1>5, <1>7 DEF DraftInv

\* The draft is edited without a new word.
LEMMA DraftEdits ==
  ASSUME ClientConstants, DraftInv,
         \/ \E cmd \in Draft!Commands : Draft!TypeCommand(cmd)
         \/ \E cmd \in Draft!Commands \ {"/"} : Draft!Accept(cmd)
         \/ Draft!Erase
  PROVE  DraftInv'
  <1>1. here \in DraftRecord /\ WordsAccounted(here) /\ here.text \in Drafts
        /\ here.lost \in SUBSET Words
        /\ here.catalog \in {"unseen", "asked", "known", "failed"}
    BY DEF DraftInv, DraftRecord
  <1>2. Words \cap Marks = {} /\ Draft!Commands \subseteq Marks
    BY DEF ClientConstants, Marks, Draft!Commands, Draft!Registry
  <1>3. ASSUME NEW t \in Drafts, NEW l \in SUBSET Words,
               NEW k \in {"unseen", "asked", "known", "failed"},
               Draft!WordsOf(t) \subseteq Draft!WordsOf(here.text),
               l = here.lost \cup (Draft!WordsOf(here.text) \ Draft!WordsOf(t)),
               here' = [here EXCEPT !.text = t, !.catalog = k, !.lost = l]
        PROVE  DraftInv'
    <2>1. here' \in DraftRecord
      BY <1>1, <1>3, ZenonT(60) DEF DraftRecord
    <2>2. /\ here'.text = t /\ here'.entered = here.entered
          /\ here'.slash = here.slash /\ here'.fix = here.fix /\ here'.correcting = here.correcting
          /\ here'.unanswered = here.unanswered
          /\ here'.delivered = here.delivered /\ here'.lost = l
      BY <1>1, <1>3 DEF DraftRecord
    <2>3. WordsAccounted(here')
      BY <1>1, <1>3, <2>2 DEF WordsAccounted
    <2> QED BY <2>1, <2>3 DEF DraftInv
  <1>4. ASSUME NEW cmd \in Draft!Commands, Draft!TypeCommand(cmd) PROVE DraftInv'
    <2> DEFINE t == Append(here.text, cmd)
    <2> DEFINE k == IF here.catalog = "unseen" THEN "asked" ELSE here.catalog
    <2>1. {cmd} \cap Words = {} /\ cmd \in Words \cup Marks
      BY <1>2
    <2>2. t \in Drafts /\ Draft!WordsOf(t) = Draft!WordsOf(here.text)
      <3>1. t \in Drafts /\ Draft!WordsOf(t) = Draft!WordsOf(here.text) \cup ({cmd} \cap Words)
        BY <1>1, <2>1, WordsOfDrafts
      <3> HIDE DEF t
      <3> QED BY <3>1, <2>1
    <2>3. here' = [here EXCEPT !.text = t, !.catalog = k, !.lost = here.lost]
      BY <1>1, <1>4, ZenonT(60) DEF Draft!TypeCommand, Draft!C, DraftRecord
    <2>4. k \in {"unseen", "asked", "known", "failed"}
      BY <1>1
    <2> HIDE DEF t, k
    <2> QED BY <1>1, <1>3, <2>2, <2>3, <2>4
  <1>5. ASSUME NEW cmd \in Draft!Commands \ {"/"}, Draft!Accept(cmd) PROVE DraftInv'
    <2>1. PICK i \in DOMAIN here.text : here.text[i] = "/" /\ here' = [here EXCEPT !.text[i] = cmd]
      BY <1>5, ZenonT(60) DEF Draft!Accept, Draft!C
    <2> DEFINE t == [here.text EXCEPT ![i] = cmd]
    <2>2. i \in Nat /\ here.text[i] \in Marks /\ cmd \in Marks
      BY <1>1, <1>2, <2>1 DEF Drafts, Marks
    <2>3. t \in Drafts /\ Draft!WordsOf(t) = Draft!WordsOf(here.text)
      BY <1>1, <2>1, <2>2, WordsOfDrafts
    <2>4. here' = [here EXCEPT !.text = t]
      BY <2>1
    <2> HIDE DEF t
    <2>5. here' = [here EXCEPT !.text = t, !.catalog = here.catalog, !.lost = here.lost]
      BY <1>1, <2>4 DEF DraftRecord
    <2> QED BY <1>1, <1>3, <2>3, <2>5
  <1>6. ASSUME Draft!Erase PROVE DraftInv'
    <2> DEFINE t == SubSeq(here.text, 1, Len(here.text) - 1)
    <2> DEFINE l == here.lost \cup (Draft!WordsOf(here.text) \ Draft!WordsOf(t))
    <2>1. here.text # <<>> /\ here' = [here EXCEPT !.text = t, !.lost = l]
      BY <1>6 DEF Draft!Erase, Draft!C
    <2>2. t \in Drafts /\ Draft!WordsOf(t) \subseteq Draft!WordsOf(here.text)
      BY <1>1, <2>1, WordsOfDrafts
    <2>3. Draft!WordsOf(here.text) \subseteq Words
      BY <1>1, WordsOfDrafts
    <2>4. l \in SUBSET Words
      BY <1>1, <2>3
    <2>5. l = here.lost \cup (Draft!WordsOf(here.text) \ Draft!WordsOf(t))
      OBVIOUS
    <2> HIDE DEF t, l
    <2>6. here' = [here EXCEPT !.text = t, !.catalog = here.catalog, !.lost = l]
      BY <1>1, <2>1 DEF DraftRecord
    <2> QED BY <1>1, <1>3, <2>2, <2>4, <2>5, <2>6
  <1> QED BY <1>4, <1>5, <1>6

\* The draft leaves: as a command, a message or a correction.
LEMMA ChatKeeps ==
  ASSUME ClientConstants, NEW d \in DraftRecord, NEW words \in SUBSET Words
  PROVE  LET h == Draft!Chat(d, words)
         IN /\ h \in DraftRecord
            /\ h.text = d.text /\ h.entered = d.entered /\ h.slash = d.slash /\ h.fix = d.fix
            /\ h.correcting = d.correcting /\ h.unanswered = d.unanswered
            /\ \/ h.delivered = d.delivered /\ h.lost = d.lost \cup words
               \/ h.delivered = d.delivered \cup words /\ h.lost = d.lost
  <1>1. d.lost \cup words \in SUBSET Words /\ d.delivered \cup words \in SUBSET Words
        /\ d.turns \in Nat /\ d.turns + 1 \in Nat
    BY DEF DraftRecord
  <1> DEFINE x == d.lost \cup words
  <1> DEFINE y == d.delivered \cup words
  <1> DEFINE n == d.turns + 1
  <1>2. \/ Draft!Chat(d, words) = [d EXCEPT !.lost = x]
        \/ Draft!Chat(d, words) = [d EXCEPT !.turn = "running", !.turns = n, !.delivered = y]
    BY DEF Draft!Chat
  <1>3. x \in SUBSET Words /\ y \in SUBSET Words /\ n \in Nat /\ x = d.lost \cup words
        /\ y = d.delivered \cup words
    BY <1>1
  <1> HIDE DEF x, y, n
  <1>4. ASSUME NEW h, h = [d EXCEPT !.lost = x]
        PROVE  /\ h \in DraftRecord
               /\ h.text = d.text /\ h.entered = d.entered /\ h.slash = d.slash /\ h.fix = d.fix
               /\ h.correcting = d.correcting /\ h.unanswered = d.unanswered
               /\ h.delivered = d.delivered /\ h.lost = x
    BY <1>3, <1>4 DEF DraftRecord
  <1>5. ASSUME NEW h, h = [d EXCEPT !.turn = "running", !.turns = n, !.delivered = y]
        PROVE  /\ h \in DraftRecord
               /\ h.text = d.text /\ h.entered = d.entered /\ h.slash = d.slash /\ h.fix = d.fix
               /\ h.correcting = d.correcting /\ h.unanswered = d.unanswered
               /\ h.delivered = y /\ h.lost = d.lost
    BY <1>3, <1>5, ZenonT(60) DEF DraftRecord
  <1> QED BY <1>2, <1>3, <1>4, <1>5

LEMMA DraftLeaves ==
  ASSUME ClientConstants, DraftInv, Draft!RunSlash \/ Draft!Send \/ Draft!Correct
  PROVE  DraftInv'
  <1> DEFINE words == Draft!WordsOf(here.text)
  <1>1. here \in DraftRecord /\ WordsAccounted(here) /\ here.text \in Drafts
        /\ here.fix \in Drafts
    BY DEF DraftInv, DraftRecord
  <1>2. words \in SUBSET Words /\ <<>> \in Drafts /\ Draft!WordsOf(<<>>) = {}
    BY <1>1, WordsOfDrafts DEF Drafts
  <1>3. ASSUME Draft!RunSlash PROVE DraftInv'
    <2> DEFINE s == [kind |-> Draft!Resolution(here), words |-> words]
    <2>1. here.slash.words = {} /\ here' = [here EXCEPT !.text = <<>>, !.slash = s]
      BY <1>3 DEF Draft!RunSlash, Draft!C, Draft!NoCommand
    <2>2. Draft!Resolution(here) \in {"none", "title", "execute", "unavailable", "chat"}
      BY DEF Draft!Resolution
    <2>3. s \in [kind : {"none", "title", "execute", "unavailable", "chat"}, words : SUBSET Words]
          /\ s.words = words
      BY <1>2, <2>2
    <2> HIDE DEF s, words
    <2>4. here' \in DraftRecord
      BY <1>1, <1>2, <2>1, <2>3 DEF DraftRecord
    <2>5. /\ here'.text = <<>> /\ here'.entered = here.entered
          /\ here'.slash = s /\ here'.fix = here.fix /\ here'.correcting = here.correcting
          /\ here'.unanswered = here.unanswered
          /\ here'.delivered = here.delivered /\ here'.lost = here.lost
      BY <1>1, <2>1 DEF DraftRecord
    <2>6. WordsAccounted(here')
      BY <1>1, <1>2, <2>1, <2>3, <2>5 DEF WordsAccounted, words
    <2> QED BY <2>4, <2>6 DEF DraftInv
  <1>4. ASSUME Draft!Send PROVE DraftInv'
    <2> DEFINE h == Draft!Chat(here, words)
    <2>1. here' = [h EXCEPT !.text = <<>>, !.files = 0]
      BY <1>4 DEF Draft!Send, Draft!C, Draft!HasWords
    <2>2. /\ h \in DraftRecord
          /\ h.text = here.text /\ h.entered = here.entered /\ h.slash = here.slash
          /\ h.fix = here.fix /\ h.correcting = here.correcting
          /\ h.unanswered = here.unanswered
          /\ \/ h.delivered = here.delivered /\ h.lost = here.lost \cup words
             \/ h.delivered = here.delivered \cup words /\ h.lost = here.lost
      BY ChatKeeps, <1>1, <1>2
    <2> HIDE DEF h, words
    <2>3. here' \in DraftRecord
      BY <1>2, <2>1, <2>2 DEF DraftRecord
    <2>4. /\ here'.text = <<>> /\ here'.entered = here.entered
          /\ here'.slash = here.slash /\ here'.fix = here.fix
          /\ here'.correcting = here.correcting
          /\ here'.unanswered = here.unanswered
          /\ here'.delivered = h.delivered /\ here'.lost = h.lost
      BY <2>1, <2>2 DEF DraftRecord
    <2>5. WordsAccounted(here')
      BY <1>1, <1>2, <2>2, <2>4 DEF WordsAccounted, words
    <2> QED BY <2>3, <2>5 DEF DraftInv
  <1>5. ASSUME Draft!Correct PROVE DraftInv'
    <2>1. here' = [here EXCEPT !.text = <<>>, !.fix = here.text, !.correcting = TRUE]
          /\ ~here.correcting
      BY <1>5 DEF Draft!Correct, Draft!C, Draft!HasWords
    <2>2. here' \in DraftRecord
      BY <1>1, <1>2, <2>1 DEF DraftRecord
    <2>3. /\ here'.text = <<>> /\ here'.entered = here.entered
          /\ here'.slash = here.slash /\ here'.fix = here.text
          /\ here'.correcting
          /\ here'.unanswered = here.unanswered
          /\ here'.delivered = here.delivered /\ here'.lost = here.lost
      BY <1>1, <2>1 DEF DraftRecord
    <2>4. WordsAccounted(here')
      BY <1>1, <1>2, <2>1, <2>3 DEF WordsAccounted
    <2> QED BY <2>2, <2>4 DEF DraftInv
  <1> QED BY <1>3, <1>4, <1>5

\* An answer comes: to the correction, or to the command.
LEMMA DraftAnswers ==
  ASSUME ClientConstants, DraftInv,
         \/ Draft!CorrectionTaken \/ Draft!CorrectionFails \/ Draft!AnswerLost
         \/ Draft!SlashShows \/ Draft!SlashFails \/ Draft!SlashPrefills \/ Draft!SlashSends
  PROVE  DraftInv'
  <1> DEFINE words == Draft!WordsOf(here.text)
  <1> DEFINE fixed == Draft!WordsOf(here.fix)
  <1> DEFINE none == Draft!NoCommand
  <1>1. here \in DraftRecord /\ WordsAccounted(here) /\ here.text \in Drafts
        /\ here.fix \in Drafts /\ here.slash.words \in SUBSET Words
        /\ here.delivered \in SUBSET Words /\ here.lost \in SUBSET Words
    BY DEF DraftInv, DraftRecord
  <1>2. words \in SUBSET Words /\ fixed \in SUBSET Words
        /\ <<>> \in Drafts /\ Draft!WordsOf(<<>>) = {}
        /\ <<"offered">> \in Drafts /\ Draft!WordsOf(<<"offered">>) = {}
    <2>1. "offered" \in Words \cup Marks
      BY DEF Marks
    <2>2. <<>> \in Drafts /\ <<"offered">> \in Drafts
      BY <2>1 DEF Drafts
    <2> QED BY <1>1, <2>2, WordsOfDrafts
  <1>3. none \in [kind : {"none", "title", "execute", "unavailable", "chat"}, words : SUBSET Words]
        /\ none.words = {}
    BY DEF Draft!NoCommand
  <1> HIDE DEF words, fixed, none
  <1>6. /\ here.entered = UNION {words, fixed, here.slash.words, here.delivered, here.lost}
        /\ words \cap (fixed \cup here.slash.words) = {} /\ fixed \cap here.slash.words = {}
        /\ (words \cup fixed) \cap here.delivered \subseteq here.unanswered
        /\ ~here.correcting => fixed = {}
    BY <1>1 DEF WordsAccounted, words, fixed
  <1>7. /\ here.correcting \in BOOLEAN
        /\ here.slash \in [kind : {"none", "title", "execute", "unavailable", "chat"}, words : SUBSET Words]
    BY <1>1 DEF DraftRecord
  <1>8. ASSUME Draft!CorrectionTaken PROVE DraftInv'
    <2> DEFINE v == here.delivered \cup fixed
    <2>1. here' = [here EXCEPT !.fix = <<>>, !.correcting = FALSE, !.delivered = v]
      BY <1>8, <1>1 DEF Draft!CorrectionTaken, Draft!Corrected, Draft!C, DraftRecord, fixed
    <2>2. v \in SUBSET Words /\ here.entered = UNION {words, {}, here.slash.words, v, here.lost}
          /\ words \cap here.slash.words = {} /\ words \cap v \subseteq here.unanswered
      BY <1>1, <1>2, <1>6
    <2> HIDE DEF v
    <2>3. here' = [here EXCEPT !.text = here.text, !.fix = <<>>, !.correcting = FALSE,
                               !.slash = here.slash, !.delivered = v, !.lost = here.lost]
      BY <2>1, <1>1 DEF DraftRecord
    <2>4. /\ here' \in DraftRecord
          /\ here'.text = here.text /\ here'.fix = <<>> /\ here'.correcting = FALSE
          /\ here'.unanswered = here.unanswered
          /\ here'.slash = here.slash /\ here'.delivered = v /\ here'.lost = here.lost
          /\ here'.entered = here.entered
      BY <1>1, <1>2, <1>3, <2>2, <2>3, ZenonT(60) DEF DraftRecord
    <2>5. WordsAccounted(here')
      BY <1>2, <1>3, <1>6, <2>2, <2>2, <2>4 DEF WordsAccounted, words, fixed
    <2> QED BY <2>4, <2>5 DEF DraftInv
  <1> DEFINE back == IF here.text = <<>> THEN here.fix ELSE here.text
  <1> DEFINE gone == IF here.text = <<>> THEN here.lost ELSE here.lost \cup fixed
  <1>4. Draft!Returned(here) = [here EXCEPT !.fix = <<>>, !.correcting = FALSE, !.text = back, !.lost = gone]
    BY <1>1 DEF Draft!Returned, Draft!Corrected, Draft!Restored, DraftRecord, fixed
  <1>5. /\ back \in Drafts /\ gone \in SUBSET Words
        /\ Draft!WordsOf(back) \subseteq words \cup fixed
        /\ words \cup fixed \cup here.lost = Draft!WordsOf(back) \cup gone
    <2>1. ASSUME here.text = <<>>
          PROVE  words = {} /\ Draft!WordsOf(back) = fixed /\ gone = here.lost
      BY <2>1, <1>2 DEF words, fixed
    <2>2. ASSUME here.text # <<>>
          PROVE  Draft!WordsOf(back) = words /\ gone = here.lost \cup fixed
      BY <2>2 DEF words
    <2>3. back \in Drafts /\ gone \in SUBSET Words
      BY <1>1, <1>2
    <2> HIDE DEF back, gone
    <2> QED BY <2>1, <2>2, <2>3
  <1> HIDE DEF back, gone
  <1>9. ASSUME NEW v \in SUBSET Words, NEW u \in SUBSET Words,
               \/ v = here.delivered /\ (u = here.unanswered)
               \/ v = here.delivered \cup fixed /\ (u = here.unanswered \cup fixed),
               here' = [here EXCEPT !.fix = <<>>, !.correcting = FALSE, !.text = back, !.lost = gone,
                                    !.delivered = v, !.unanswered = u]
        PROVE  DraftInv'
    <2>1. /\ here.entered = UNION {Draft!WordsOf(back), {}, here.slash.words, v, gone}
          /\ Draft!WordsOf(back) \cap here.slash.words = {} /\ Draft!WordsOf(back) \cap v \subseteq u
      BY <1>5, <1>6, <1>9
    <2>2. /\ here' \in DraftRecord
          /\ here'.text = back /\ here'.fix = <<>> /\ here'.correcting = FALSE
          /\ here'.slash = here.slash /\ here'.delivered = v /\ here'.lost = gone
          /\ here'.entered = here.entered /\ here'.unanswered = u
      BY <1>1, <1>2, <1>5, <1>9, ZenonT(60) DEF DraftRecord
    <2>3. WordsAccounted(here')
      BY <1>2, <2>1, <2>2 DEF WordsAccounted
    <2> QED BY <2>2, <2>3 DEF DraftInv
  <1>14. ASSUME Draft!CorrectionFails PROVE DraftInv'
    <2>1. here' = [here EXCEPT !.fix = <<>>, !.correcting = FALSE, !.text = back, !.lost = gone,
                               !.delivered = here.delivered, !.unanswered = here.unanswered]
      BY <1>1, <1>4, <1>14 DEF Draft!CorrectionFails, Draft!C, DraftRecord
    <2>2. here.unanswered \in SUBSET Words
      BY <1>1 DEF DraftRecord
    <2> QED BY <1>1, <1>9, <2>1, <2>2
  <1>15. ASSUME Draft!AnswerLost PROVE DraftInv'
    <2>1. PICK r : r = Draft!Returned(here)
      OBVIOUS
    <2>2. PICK v, u : v = here.delivered \cup fixed /\ u = here.unanswered \cup fixed
      OBVIOUS
    <2>3. here' = [r EXCEPT !.delivered = v, !.unanswered = u]
      <3>1. r.delivered = here.delivered /\ r.unanswered = here.unanswered
        BY <1>1, <1>4, <2>1 DEF DraftRecord
      <3> QED BY <1>15, <2>1, <2>2, <3>1 DEF Draft!AnswerLost, Draft!C, fixed
    <2>4. here' = [here EXCEPT !.fix = <<>>, !.correcting = FALSE, !.text = back, !.lost = gone,
                               !.delivered = v, !.unanswered = u]
      BY <1>1, <1>4, <2>1, <2>3 DEF DraftRecord
    <2>5. v \in SUBSET Words /\ u \in SUBSET Words
      BY <1>1, <1>2, <2>2 DEF DraftRecord
    <2> QED BY <1>9, <2>2, <2>4, <2>5
  <1>10. ASSUME Draft!SlashShows PROVE DraftInv'
    <2> DEFINE v == here.delivered \cup here.slash.words
    <2>1. here' = [here EXCEPT !.slash = none, !.delivered = v]
      BY <1>10, <1>1 DEF Draft!SlashShows, Draft!SlashDone, Draft!C, DraftRecord, none
    <2>2. /\ v \in SUBSET Words
          /\ here.entered = UNION {words, fixed, {}, v, here.lost}
          /\ words \cap fixed = {} /\ (words \cup fixed) \cap v \subseteq here.unanswered
      BY <1>1, <1>6
    <2> HIDE DEF v
    <2>3. here' = [here EXCEPT !.text = here.text, !.fix = here.fix, !.correcting = here.correcting,
                               !.slash = none, !.delivered = v, !.lost = here.lost]
      BY <2>1, <1>1 DEF DraftRecord
    <2>4. /\ here' \in DraftRecord
          /\ here'.text = here.text /\ here'.fix = here.fix /\ here'.correcting = here.correcting
          /\ here'.unanswered = here.unanswered
          /\ here'.slash = none /\ here'.delivered = v /\ here'.lost = here.lost
          /\ here'.entered = here.entered
      BY <1>1, <1>2, <1>3, <2>2, <2>3, ZenonT(60) DEF DraftRecord
    <2>5. WordsAccounted(here')
      BY <1>2, <1>3, <1>6, <2>2, <2>2, <2>4 DEF WordsAccounted, words, fixed
    <2> QED BY <2>4, <2>5 DEF DraftInv
  <1>11. ASSUME Draft!SlashFails PROVE DraftInv'
    <2> DEFINE l == here.lost \cup here.slash.words
    <2>1. here' = [here EXCEPT !.slash = none, !.lost = l]
      BY <1>11, <1>1 DEF Draft!SlashFails, Draft!SlashDone, Draft!C, DraftRecord, none
    <2>2. /\ l \in SUBSET Words
          /\ here.entered = UNION {words, fixed, {}, here.delivered, l}
          /\ words \cap fixed = {}
          /\ (words \cup fixed) \cap here.delivered \subseteq here.unanswered
      BY <1>1, <1>6
    <2> HIDE DEF l
    <2>3. here' = [here EXCEPT !.text = here.text, !.fix = here.fix, !.correcting = here.correcting,
                               !.slash = none, !.delivered = here.delivered, !.lost = l]
      BY <2>1, <1>1 DEF DraftRecord
    <2>4. /\ here' \in DraftRecord
          /\ here'.text = here.text /\ here'.fix = here.fix /\ here'.correcting = here.correcting
          /\ here'.unanswered = here.unanswered
          /\ here'.slash = none /\ here'.delivered = here.delivered /\ here'.lost = l
          /\ here'.entered = here.entered
      BY <1>1, <1>2, <1>3, <2>2, <2>3, ZenonT(60) DEF DraftRecord
    <2>5. WordsAccounted(here')
      BY <1>2, <1>3, <1>6, <2>2, <2>2, <2>4 DEF WordsAccounted, words, fixed
    <2> QED BY <2>4, <2>5 DEF DraftInv
  <1>12. ASSUME Draft!SlashPrefills PROVE DraftInv'
    <2> DEFINE v == here.delivered \cup here.slash.words
    <2> DEFINE l == here.lost \cup words
    <2>1. here' = [here EXCEPT !.slash = none, !.text = <<"offered">>, !.delivered = v, !.lost = l]
      BY <1>12, <1>1 DEF Draft!SlashPrefills, Draft!SlashDone, Draft!C, DraftRecord, none, words
    <2>2. /\ v \in SUBSET Words /\ l \in SUBSET Words
          /\ here.entered = UNION {{}, fixed, {}, v, l} /\ fixed \cap v \subseteq here.unanswered
      BY <1>1, <1>2, <1>6
    <2> HIDE DEF v, l
    <2>3. here' = [here EXCEPT !.text = <<"offered">>, !.fix = here.fix, !.correcting = here.correcting,
                               !.slash = none, !.delivered = v, !.lost = l]
      BY <2>1, <1>1 DEF DraftRecord
    <2>4. /\ here' \in DraftRecord
          /\ here'.text = <<"offered">> /\ here'.fix = here.fix /\ here'.correcting = here.correcting
          /\ here'.unanswered = here.unanswered
          /\ here'.slash = none /\ here'.delivered = v /\ here'.lost = l
          /\ here'.entered = here.entered
      BY <1>1, <1>2, <1>3, <2>2, <2>3, ZenonT(60) DEF DraftRecord
    <2>5. WordsAccounted(here')
      BY <1>2, <1>3, <1>6, <2>2, <2>2, <2>4 DEF WordsAccounted, words, fixed
    <2> QED BY <2>4, <2>5 DEF DraftInv
  <1>13. ASSUME Draft!SlashSends PROVE DraftInv'
    <2> DEFINE d == [here EXCEPT !.slash = none]
    <2> DEFINE h == Draft!Chat(d, here.slash.words)
    <2>1. here' = h
      BY <1>13 DEF Draft!SlashSends, Draft!SlashDone, Draft!C, none
    <2>2. d \in DraftRecord
      BY <1>1, <1>3 DEF DraftRecord
    <2>3. /\ d.text = here.text /\ d.entered = here.entered /\ d.slash = none /\ d.fix = here.fix
          /\ d.unanswered = here.unanswered
          /\ d.correcting = here.correcting /\ d.delivered = here.delivered /\ d.lost = here.lost
      BY <1>1 DEF DraftRecord
    <2> HIDE DEF d
    <2>4. /\ h \in DraftRecord
          /\ h.text = here.text /\ h.entered = here.entered /\ h.slash = none /\ h.fix = here.fix
          /\ h.correcting = here.correcting /\ h.unanswered = here.unanswered
          /\ \/ h.delivered = here.delivered /\ h.lost = here.lost \cup here.slash.words
             \/ h.delivered = here.delivered \cup here.slash.words /\ h.lost = here.lost
      BY ChatKeeps, <1>1, <2>2, <2>3
    <2> HIDE DEF h
    <2>5. WordsAccounted(h)
      BY <1>3, <1>6, <2>4 DEF WordsAccounted, words, fixed
    <2> QED BY <2>1, <2>4, <2>5 DEF DraftInv
  <1> QED BY <1>8, <1>10, <1>11, <1>12, <1>13, <1>14, <1>15

LEMMA DraftSteps ==
  ASSUME ClientConstants, DraftInv, Draft!Next
  PROVE  DraftInv'
  <1>1. ASSUME NEW w \in Words, Draft!Type(w) \/ Draft!Transcribed(w) PROVE DraftInv'
    BY <1>1, WordEnters
  <1>2. ASSUME \/ \E cmd \in Draft!Commands : Draft!TypeCommand(cmd)
               \/ \E cmd \in Draft!Commands \ {"/"} : Draft!Accept(cmd)
               \/ Draft!Erase
        PROVE  DraftInv'
    BY <1>2, DraftEdits
  <1>3. ASSUME Draft!RunSlash \/ Draft!Send \/ Draft!Correct PROVE DraftInv'
    BY <1>3, DraftLeaves
  <1>4. ASSUME \/ Draft!CorrectionTaken \/ Draft!CorrectionFails \/ Draft!AnswerLost
               \/ Draft!SlashShows \/ Draft!SlashFails \/ Draft!SlashPrefills \/ Draft!SlashSends
        PROVE  DraftInv'
    BY <1>4, DraftAnswers
  <1>5. ASSUME \/ Draft!CatalogAnswers \/ Draft!StartDictation \/ Draft!StopDictation
               \/ Draft!NothingHeard \/ Draft!AddFile \/ Draft!RemoveFile \/ Draft!Stop
               \/ Draft!TurnEnds \/ Draft!TurnSettles \/ Draft!PromptShows
        PROVE  DraftInv'
    BY <1>5, WordsStand
  <1> QED BY <1>1, <1>2, <1>3, <1>4, <1>5 DEF Draft!Next

----------------------------------------------------------------------------
(* The picker (ModelPicker).                                               *)

Models == {"base", "base-fast", "dear"}
Contexts == [model : Models, fast : {"normal", "fast"}, effort : {"none", "high"}]
Lane == [at : {"idle", "out", "back"}, value : Contexts, stale : BOOLEAN]
LaneRequest ==
  [key : {"none", "model", "fast", "effort"},
   value : Models \cup {"normal", "fast", "none", "high"},
   consent : BOOLEAN, keepOpen : BOOLEAN,
   at : {"idle", "out", "confirm", "deferred", "applied"}]

PickerRecord ==
  [server : Contexts, deferred : Models \cup {"none"}, turn : BOOLEAN,
   cache : Contexts \cup {Picker!Unknown}, known : BOOLEAN, read : Lane, refresh : Lane,
   reads : Nat, changes : Nat, model : LaneRequest, control : LaneRequest, toggling : BOOLEAN,
   open : BOOLEAN, confirm : Models \cup {"none"}, timer : Models \cup {"none", "reopen"},
   consented : SUBSET Models]

\* A request of a lane is one of its kind.
LanesKept(p) ==
  /\ p.model.at # "idle" => p.model.key = "model" /\ p.model.value \in Models
  /\ p.model.at = "idle" => p.model = Picker!NoRequest
  /\ p.control.at # "idle" =>
       \/ p.control.key = "fast" /\ p.control.value \in {"normal", "fast"}
       \/ p.control.key = "effort" /\ p.control.value \in {"none", "high"}
  /\ p.control.at \in {"idle", "out", "applied"}
  /\ p.control.at # "idle" => p.cache \in Contexts

\* Whatever runs, waits or goes out with the consent flag was agreed to.
Agreed(p) ==
  /\ "dear" \in {p.server.model, p.deferred} => "dear" \in p.consented
  /\ p.model.consent => p.model.value \in p.consented
  /\ p.model.at \in {"applied", "deferred"} /\ p.model.value = "dear" => "dear" \in p.consented

\* An alert, or the timer that will show it, keeps the sheet and the lane free.
Apart(p) ==
  /\ p.confirm # "none" => ~p.open /\ p.model.at = "idle" /\ p.timer = "none"
  /\ p.timer \in Models => ~p.open /\ p.model.at = "idle" /\ p.confirm = "none"

\* A fresh answer is what the session is.
Fresh(p) ==
  /\ p.read.at = "back" /\ ~p.read.stale => p.read.value = p.server
  /\ p.refresh.at = "back" /\ ~p.refresh.stale => p.refresh.value = p.server

\* A change the gateway took is there, or is what it deferred.
Took(p) ==
  /\ p.model.at \in {"applied", "deferred"} =>
       \/ p.model.value = p.deferred
       \/ p.deferred = "none" /\ p.model.value = p.server.model
  /\ p.control.at = "applied" =>
       IF p.control.key = "fast" THEN p.server.fast = p.control.value
       ELSE p.server.effort = p.control.value

Pill(p) ==
  p.known =>
    /\ p.cache \in Contexts
    /\ (p.control.at = "applied" /\ p.control.key = "fast") \/ p.cache.fast = p.server.fast
    /\ (p.control.at = "applied" /\ p.control.key = "effort") \/ p.cache.effort = p.server.effort
    /\ p.model.at \in {"applied", "deferred"} \/ p.cache.model \in {p.server.model, p.deferred}

KeepsPicker(p) ==
  /\ p \in PickerRecord /\ LanesKept(p) /\ Agreed(p) /\ Apart(p)
  /\ Fresh(p) /\ Took(p) /\ Pill(p)

PickerInv == KeepsPicker(here)

LEMMA PickerStarts == Picker!Init => PickerInv
  BY DEF Picker!Init, PickerInv, KeepsPicker, PickerRecord, LanesKept, Agreed, Apart, Fresh, Took, Pill,
         Lane, LaneRequest, Contexts, Models, Picker!NoRequest, Picker!Start, Picker!Unknown, Picker!None

LEMMA PickerPromises ==
  PickerInv => Picker!DearWithConsent /\ Picker!OneSurface /\ Picker!PillTellsTheGateway
  BY DEF PickerInv, KeepsPicker, LanesKept, Agreed, Apart, Fresh, Took, Pill, PickerRecord, Contexts,
         Picker!NoRequest, Picker!None,
         Picker!DearWithConsent, Picker!OneSurface, Picker!PillTellsTheGateway, Picker!P

\* Reading changes the lanes and the cache only.
LEMMA PickerReads ==
  ASSUME KeepsPicker(here),
         \/ Picker!ReadAnswered \/ Picker!RefreshAnswered \/ Picker!ReadApplied
         \/ Picker!RefreshApplied \/ Picker!ReadFails \/ Picker!RefreshFails
  PROVE  KeepsPicker(here')
<1> USE DEF Picker!P
<1>1. CASE Picker!ReadAnswered
  <2> DEFINE lane == Picker!Answered(here.read)
  <2>1. lane \in Lane /\ lane.at = "back" /\ lane.value = here.server
    BY DEF Picker!Answered, KeepsPicker, PickerRecord, Lane
  <2>2. here' = [here EXCEPT !.read = lane]
    BY <1>1 DEF Picker!ReadAnswered
  <2> HIDE DEF lane
  <2>3. here' \in PickerRecord
    BY <2>1, <2>2 DEF KeepsPicker, PickerRecord
  <2>4. LanesKept(here')
    BY <2>1, <2>2 DEF KeepsPicker, PickerRecord, LanesKept
  <2>5. Agreed(here')
    BY <2>1, <2>2 DEF KeepsPicker, PickerRecord, Agreed
  <2>6. Apart(here')
    BY <2>1, <2>2 DEF KeepsPicker, PickerRecord, Apart
  <2>7. Fresh(here')
    BY <2>1, <2>2 DEF KeepsPicker, PickerRecord, Fresh
  <2>8. Took(here')
    BY <2>1, <2>2 DEF KeepsPicker, PickerRecord, Took
  <2>9. Pill(here')
    BY <2>1, <2>2 DEF KeepsPicker, PickerRecord, Pill
  <2> QED BY <2>3, <2>4, <2>5, <2>6, <2>7, <2>8, <2>9 DEF KeepsPicker
<1>2. CASE Picker!ReadApplied
  <2> DEFINE lane == Picker!Idle(here.read)  value == here.read.value  known == ~here.read.stale
  <2>1. lane \in Lane /\ lane.at = "idle" /\ value \in Contexts /\ known \in BOOLEAN
        /\ (known => value = here.server)
    BY <1>2 DEF Picker!ReadApplied, Picker!Idle, KeepsPicker, PickerRecord, Lane, Fresh
  <2>2. here' = [here EXCEPT !.read = lane, !.cache = value, !.known = known]
    BY <1>2 DEF Picker!ReadApplied
  <2> HIDE DEF lane, value, known
  <2>3. here' \in PickerRecord
    BY <2>1, <2>2 DEF KeepsPicker, PickerRecord
  <2>4. LanesKept(here')
    BY <2>1, <2>2 DEF KeepsPicker, PickerRecord, LanesKept
  <2>5. Agreed(here')
    BY <2>1, <2>2 DEF KeepsPicker, PickerRecord, Agreed
  <2>6. Apart(here')
    BY <2>1, <2>2 DEF KeepsPicker, PickerRecord, Apart
  <2>7. Fresh(here')
    BY <2>1, <2>2 DEF KeepsPicker, PickerRecord, Fresh
  <2>8. Took(here')
    BY <2>1, <2>2 DEF KeepsPicker, PickerRecord, Took
  <2>9. Pill(here')
    BY <2>1, <2>2 DEF KeepsPicker, PickerRecord, Pill
  <2> QED BY <2>3, <2>4, <2>5, <2>6, <2>7, <2>8, <2>9 DEF KeepsPicker
<1>3. CASE Picker!ReadFails
  <2> DEFINE lane == Picker!Idle(here.read)
  <2>1. lane \in Lane /\ lane.at = "idle"
    BY DEF Picker!Idle, KeepsPicker, PickerRecord, Lane
  <2>2. here' = [here EXCEPT !.read = lane]
    BY <1>3 DEF Picker!ReadFails
  <2> HIDE DEF lane
  <2>3. here' \in PickerRecord
    BY <2>1, <2>2 DEF KeepsPicker, PickerRecord
  <2>4. LanesKept(here')
    BY <2>1, <2>2 DEF KeepsPicker, PickerRecord, LanesKept
  <2>5. Agreed(here')
    BY <2>1, <2>2 DEF KeepsPicker, PickerRecord, Agreed
  <2>6. Apart(here')
    BY <2>1, <2>2 DEF KeepsPicker, PickerRecord, Apart
  <2>7. Fresh(here')
    BY <2>1, <2>2 DEF KeepsPicker, PickerRecord, Fresh
  <2>8. Took(here')
    BY <2>1, <2>2 DEF KeepsPicker, PickerRecord, Took
  <2>9. Pill(here')
    BY <2>1, <2>2 DEF KeepsPicker, PickerRecord, Pill
  <2> QED BY <2>3, <2>4, <2>5, <2>6, <2>7, <2>8, <2>9 DEF KeepsPicker
<1>4. CASE Picker!RefreshAnswered
  <2> DEFINE lane == Picker!Answered(here.refresh)
  <2>1. lane \in Lane /\ lane.at = "back" /\ lane.value = here.server
    BY DEF Picker!Answered, KeepsPicker, PickerRecord, Lane
  <2>2. here' = [here EXCEPT !.refresh = lane]
    BY <1>4 DEF Picker!RefreshAnswered
  <2> HIDE DEF lane
  <2>3. here' \in PickerRecord
    BY <2>1, <2>2 DEF KeepsPicker, PickerRecord
  <2>4. LanesKept(here')
    BY <2>1, <2>2 DEF KeepsPicker, PickerRecord, LanesKept
  <2>5. Agreed(here')
    BY <2>1, <2>2 DEF KeepsPicker, PickerRecord, Agreed
  <2>6. Apart(here')
    BY <2>1, <2>2 DEF KeepsPicker, PickerRecord, Apart
  <2>7. Fresh(here')
    BY <2>1, <2>2 DEF KeepsPicker, PickerRecord, Fresh
  <2>8. Took(here')
    BY <2>1, <2>2 DEF KeepsPicker, PickerRecord, Took
  <2>9. Pill(here')
    BY <2>1, <2>2 DEF KeepsPicker, PickerRecord, Pill
  <2> QED BY <2>3, <2>4, <2>5, <2>6, <2>7, <2>8, <2>9 DEF KeepsPicker
<1>5. CASE Picker!RefreshApplied
  <2> DEFINE lane == Picker!Idle(here.refresh)  value == here.refresh.value  known == ~here.refresh.stale
  <2>1. lane \in Lane /\ lane.at = "idle" /\ value \in Contexts /\ known \in BOOLEAN
        /\ (known => value = here.server)
    BY <1>5 DEF Picker!RefreshApplied, Picker!Idle, KeepsPicker, PickerRecord, Lane, Fresh
  <2>2. here' = [here EXCEPT !.refresh = lane, !.cache = value, !.known = known]
    BY <1>5 DEF Picker!RefreshApplied
  <2> HIDE DEF lane, value, known
  <2>3. here' \in PickerRecord
    BY <2>1, <2>2 DEF KeepsPicker, PickerRecord
  <2>4. LanesKept(here')
    BY <2>1, <2>2 DEF KeepsPicker, PickerRecord, LanesKept
  <2>5. Agreed(here')
    BY <2>1, <2>2 DEF KeepsPicker, PickerRecord, Agreed
  <2>6. Apart(here')
    BY <2>1, <2>2 DEF KeepsPicker, PickerRecord, Apart
  <2>7. Fresh(here')
    BY <2>1, <2>2 DEF KeepsPicker, PickerRecord, Fresh
  <2>8. Took(here')
    BY <2>1, <2>2 DEF KeepsPicker, PickerRecord, Took
  <2>9. Pill(here')
    BY <2>1, <2>2 DEF KeepsPicker, PickerRecord, Pill
  <2> QED BY <2>3, <2>4, <2>5, <2>6, <2>7, <2>8, <2>9 DEF KeepsPicker
<1>6. CASE Picker!RefreshFails
  <2> DEFINE lane == Picker!Idle(here.refresh)
  <2>1. lane \in Lane /\ lane.at = "idle"
    BY DEF Picker!Idle, KeepsPicker, PickerRecord, Lane
  <2>2. here' = [here EXCEPT !.refresh = lane]
    BY <1>6 DEF Picker!RefreshFails
  <2> HIDE DEF lane
  <2>3. here' \in PickerRecord
    BY <2>1, <2>2 DEF KeepsPicker, PickerRecord
  <2>4. LanesKept(here')
    BY <2>1, <2>2 DEF KeepsPicker, PickerRecord, LanesKept
  <2>5. Agreed(here')
    BY <2>1, <2>2 DEF KeepsPicker, PickerRecord, Agreed
  <2>6. Apart(here')
    BY <2>1, <2>2 DEF KeepsPicker, PickerRecord, Apart
  <2>7. Fresh(here')
    BY <2>1, <2>2 DEF KeepsPicker, PickerRecord, Fresh
  <2>8. Took(here')
    BY <2>1, <2>2 DEF KeepsPicker, PickerRecord, Took
  <2>9. Pill(here')
    BY <2>1, <2>2 DEF KeepsPicker, PickerRecord, Pill
  <2> QED BY <2>3, <2>4, <2>5, <2>6, <2>7, <2>8, <2>9 DEF KeepsPicker
<1> QED BY <1>1, <1>2, <1>3, <1>4, <1>5, <1>6

\* A sheet that opens reads again; nothing else comes up with it.
LEMMA RefetchedKeeps ==
  ASSUME NEW p, KeepsPicker(p) PROVE KeepsPicker(Picker!Refetched(p))
<1> DEFINE lane == [at |-> "out", value |-> Picker!Start, stale |-> FALSE]
           q == Picker!Refetched(p)
<1>1. lane \in Lane /\ lane.at = "out"
  BY DEF Lane, Contexts, Models, Picker!Start
<1>2. q = p \/ q = [p EXCEPT !.read = lane]
  BY DEF Picker!Refetched
<1> HIDE DEF lane, q
<1>3. q \in PickerRecord
  BY <1>1, <1>2 DEF KeepsPicker, PickerRecord
<1>4. LanesKept(q)
  BY <1>1, <1>2 DEF KeepsPicker, PickerRecord, LanesKept
<1>5. Agreed(q)
  BY <1>1, <1>2 DEF KeepsPicker, PickerRecord, Agreed
<1>6. Apart(q)
  BY <1>1, <1>2 DEF KeepsPicker, PickerRecord, Apart
<1>7. Fresh(q)
  BY <1>1, <1>2 DEF KeepsPicker, PickerRecord, Fresh
<1>8. Took(q)
  BY <1>1, <1>2 DEF KeepsPicker, PickerRecord, Took
<1>9. Pill(q)
  BY <1>1, <1>2 DEF KeepsPicker, PickerRecord, Pill
<1> HIDE DEF q
<1>20. KeepsPicker(q)
  BY <1>3, <1>4, <1>5, <1>6, <1>7, <1>8, <1>9 DEF KeepsPicker
<1> QED BY <1>20 DEF q

LEMMA PickerSurfaces ==
  ASSUME KeepsPicker(here),
         \/ Picker!OpenPicker \/ Picker!ClosePicker \/ Picker!RefreshModels \/ Picker!TimerFires
         \/ Picker!CloseConfirmation
  PROVE  KeepsPicker(here')
<1> USE DEF Picker!P, Picker!None
<1>1. CASE Picker!OpenPicker
  <2> DEFINE n == here.reads + 1
             p == [here EXCEPT !.open = TRUE, !.confirm = "none", !.timer = "none", !.reads = n]
  <2>1. p = [here EXCEPT !.open = TRUE, !.confirm = "none", !.timer = "none", !.reads = n]
        /\ n \in Nat
    BY DEF KeepsPicker, PickerRecord
  <2>2. here' = Picker!Refetched(p)
    BY <1>1 DEF Picker!OpenPicker
  <2> HIDE DEF n, p
  <2>3. p \in PickerRecord
    BY <2>1 DEF KeepsPicker, PickerRecord, Models
  <2>4. LanesKept(p)
    BY <2>1 DEF KeepsPicker, PickerRecord, LanesKept, Models
  <2>5. Agreed(p)
    BY <2>1 DEF KeepsPicker, PickerRecord, Agreed, Models
  <2>6. Apart(p)
    BY <2>1 DEF KeepsPicker, PickerRecord, Apart, Models
  <2>7. Fresh(p)
    BY <2>1 DEF KeepsPicker, PickerRecord, Fresh, Models
  <2>8. Took(p)
    BY <2>1 DEF KeepsPicker, PickerRecord, Took, Models
  <2>9. Pill(p)
    BY <2>1 DEF KeepsPicker, PickerRecord, Pill, Models
  <2>20. KeepsPicker(p)
    BY <2>3, <2>4, <2>5, <2>6, <2>7, <2>8, <2>9 DEF KeepsPicker
  <2> QED BY <2>2, <2>20, RefetchedKeeps
<1>2. CASE Picker!ClosePicker
  <2>1. here' \in PickerRecord
    BY <1>2 DEF KeepsPicker, PickerRecord, Picker!ClosePicker, Models
  <2>2. LanesKept(here')
    BY <1>2 DEF KeepsPicker, PickerRecord, LanesKept, Picker!ClosePicker, Models
  <2>3. Agreed(here')
    BY <1>2 DEF KeepsPicker, PickerRecord, Agreed, Picker!ClosePicker, Models
  <2>4. Apart(here')
    BY <1>2 DEF KeepsPicker, PickerRecord, Apart, Picker!ClosePicker, Models
  <2>5. Fresh(here')
    BY <1>2 DEF KeepsPicker, PickerRecord, Fresh, Picker!ClosePicker, Models
  <2>6. Took(here')
    BY <1>2 DEF KeepsPicker, PickerRecord, Took, Picker!ClosePicker, Models
  <2>7. Pill(here')
    BY <1>2 DEF KeepsPicker, PickerRecord, Pill, Picker!ClosePicker, Models
  <2> QED BY <2>1, <2>2, <2>3, <2>4, <2>5, <2>6, <2>7 DEF KeepsPicker
<1>3. CASE Picker!RefreshModels
  <2> DEFINE lane == [at |-> "out", value |-> Picker!Start, stale |-> FALSE]
  <2>1. lane \in Lane /\ lane.at = "out"
    BY DEF Lane, Contexts, Models, Picker!Start
  <2> DEFINE n == here.reads + 1
  <2>2. here' = [here EXCEPT !.refresh = lane, !.reads = n] /\ n \in Nat
    BY <1>3 DEF Picker!RefreshModels, KeepsPicker, PickerRecord
  <2> HIDE DEF lane, n
  <2>3. here' \in PickerRecord
    BY <2>1, <2>2 DEF KeepsPicker, PickerRecord
  <2>4. LanesKept(here')
    BY <2>1, <2>2 DEF KeepsPicker, PickerRecord, LanesKept
  <2>5. Agreed(here')
    BY <2>1, <2>2 DEF KeepsPicker, PickerRecord, Agreed
  <2>6. Apart(here')
    BY <2>1, <2>2 DEF KeepsPicker, PickerRecord, Apart
  <2>7. Fresh(here')
    BY <2>1, <2>2 DEF KeepsPicker, PickerRecord, Fresh
  <2>8. Took(here')
    BY <2>1, <2>2 DEF KeepsPicker, PickerRecord, Took
  <2>9. Pill(here')
    BY <2>1, <2>2 DEF KeepsPicker, PickerRecord, Pill
  <2> QED BY <2>3, <2>4, <2>5, <2>6, <2>7, <2>8, <2>9 DEF KeepsPicker
<1>4. CASE Picker!TimerFires
  <2>1. here' \in PickerRecord
    BY <1>4, ZenonT(60) DEF KeepsPicker, PickerRecord, Picker!TimerFires, Models
  <2>2. LanesKept(here')
    BY <1>4 DEF KeepsPicker, PickerRecord, LanesKept, Picker!TimerFires, Models
  <2>3. Agreed(here')
    BY <1>4 DEF KeepsPicker, PickerRecord, Agreed, Picker!TimerFires, Models
  <2>4. Apart(here')
    BY <1>4 DEF KeepsPicker, PickerRecord, Apart, Picker!TimerFires, Models
  <2>5. Fresh(here')
    BY <1>4 DEF KeepsPicker, PickerRecord, Fresh, Picker!TimerFires, Models
  <2>6. Took(here')
    BY <1>4 DEF KeepsPicker, PickerRecord, Took, Picker!TimerFires, Models
  <2>7. Pill(here')
    BY <1>4 DEF KeepsPicker, PickerRecord, Pill, Picker!TimerFires, Models
  <2> QED BY <2>1, <2>2, <2>3, <2>4, <2>5, <2>6, <2>7 DEF KeepsPicker
<1>5. CASE Picker!CloseConfirmation
  <2>1. here' \in PickerRecord
    BY <1>5 DEF KeepsPicker, PickerRecord, Picker!CloseConfirmation, Models
  <2>2. LanesKept(here')
    BY <1>5 DEF KeepsPicker, PickerRecord, LanesKept, Picker!CloseConfirmation, Models
  <2>3. Agreed(here')
    BY <1>5 DEF KeepsPicker, PickerRecord, Agreed, Picker!CloseConfirmation, Models
  <2>4. Apart(here')
    BY <1>5 DEF KeepsPicker, PickerRecord, Apart, Picker!CloseConfirmation, Models
  <2>5. Fresh(here')
    BY <1>5 DEF KeepsPicker, PickerRecord, Fresh, Picker!CloseConfirmation, Models
  <2>6. Took(here')
    BY <1>5 DEF KeepsPicker, PickerRecord, Took, Picker!CloseConfirmation, Models
  <2>7. Pill(here')
    BY <1>5 DEF KeepsPicker, PickerRecord, Pill, Picker!CloseConfirmation, Models
  <2> QED BY <2>1, <2>2, <2>3, <2>4, <2>5, <2>6, <2>7 DEF KeepsPicker
<1> QED BY <1>1, <1>2, <1>3, <1>4, <1>5

\* A pick goes out once nothing stands before the sheet, and with consent only
\* after it was given.
LEMMA SelectedKeeps ==
  ASSUME NEW p, KeepsPicker(p), NEW m \in Models, NEW consent \in BOOLEAN, NEW keepOpen \in BOOLEAN,
         p.confirm = "none", p.timer \notin Models, consent => m \in p.consented
  PROVE  KeepsPicker(Picker!Selected(p, m, consent, keepOpen))
<1> DEFINE request == [Picker!Request("model", m) EXCEPT !.consent = consent, !.keepOpen = keepOpen]
           q == Picker!Selected(p, m, consent, keepOpen)
           n == p.changes + 1
<1>1. request \in LaneRequest /\ request.key = "model" /\ request.value = m /\ request.at = "out"
      /\ request.consent = consent
  BY DEF Picker!Request, Picker!NoRequest, LaneRequest, Models
<1>2. n \in Nat
  BY DEF KeepsPicker, PickerRecord
<1>3. q = p \/ (p.model.at = "idle" /\ q = [p EXCEPT !.model = request, !.changes = n])
  BY DEF Picker!Selected
<1>4. (q = p \/ (p.model.at = "idle" /\ q = [p EXCEPT !.model = request, !.changes = n])) /\ n \in Nat
  BY <1>2, <1>3
<1> HIDE DEF request, q, n
<1>5. q \in PickerRecord
  BY <1>1, <1>4, ZenonT(60) DEF KeepsPicker, PickerRecord
<1>6. LanesKept(q)
  BY <1>1, <1>4, ZenonT(60) DEF KeepsPicker, PickerRecord, LanesKept
<1>7. Agreed(q)
  BY <1>1, <1>4, ZenonT(60) DEF KeepsPicker, PickerRecord, Agreed
<1>8. Apart(q)
  BY <1>1, <1>4 DEF KeepsPicker, PickerRecord, Apart
<1>9. Fresh(q)
  BY <1>1, <1>4, ZenonT(60) DEF KeepsPicker, PickerRecord, Fresh
<1>10. Took(q)
  BY <1>1, <1>4, ZenonT(60) DEF KeepsPicker, PickerRecord, Took
<1>11. Pill(q)
  BY <1>1, <1>4, ZenonT(60) DEF KeepsPicker, PickerRecord, Pill
<1>20. KeepsPicker(q)
  BY <1>5, <1>6, <1>7, <1>8, <1>9, <1>10, <1>11 DEF KeepsPicker
<1> QED BY <1>20 DEF q

\* What the gateway changed, an older answer no longer tells.
LEMMA OvertakenKeeps ==
  ASSUME NEW p \in PickerRecord, LanesKept(p), Agreed(p), Apart(p), Took(p), Pill(p)
  PROVE  KeepsPicker(Picker!Overtaken(p))
<1> DEFINE r == [p.read EXCEPT !.stale = p.read.at = "back" \/ @]
           s == [p.refresh EXCEPT !.stale = p.refresh.at = "back" \/ @]
           q == Picker!Overtaken(p)
<1>1. /\ r \in Lane /\ r.at = p.read.at /\ (r.at = "back" => r.stale)
      /\ s \in Lane /\ s.at = p.refresh.at /\ (s.at = "back" => s.stale)
  BY DEF PickerRecord, Lane
<1>2. q = [p EXCEPT !.read = r, !.refresh = s]
  BY DEF Picker!Overtaken, PickerRecord
<1> HIDE DEF r, s, q
<1>3. q \in PickerRecord
  BY <1>1, <1>2 DEF KeepsPicker, PickerRecord
<1>4. LanesKept(q)
  BY <1>1, <1>2 DEF KeepsPicker, PickerRecord, LanesKept
<1>5. Agreed(q)
  BY <1>1, <1>2 DEF KeepsPicker, PickerRecord, Agreed
<1>6. Apart(q)
  BY <1>1, <1>2 DEF KeepsPicker, PickerRecord, Apart
<1>7. Fresh(q)
  BY <1>1, <1>2 DEF KeepsPicker, PickerRecord, Fresh
<1>8. Took(q)
  BY <1>1, <1>2 DEF KeepsPicker, PickerRecord, Took
<1>9. Pill(q)
  BY <1>1, <1>2 DEF KeepsPicker, PickerRecord, Pill
<1>20. KeepsPicker(q)
  BY <1>3, <1>4, <1>5, <1>6, <1>7, <1>8, <1>9 DEF KeepsPicker
<1> QED BY <1>20 DEF q

LEMMA PickerSelects ==
  ASSUME KeepsPicker(here),
         \/ \E m \in Models : Picker!Select(m)
         \/ Picker!ConfirmSelection
         \/ \E speed \in Picker!Speeds : Picker!SetFastMode(speed)
         \/ \E effort \in Picker!Efforts : Picker!SetReasoning(effort)
  PROVE  KeepsPicker(here')
<1> USE DEF Picker!P, Picker!None
<1>0. here.open => here.confirm = "none" /\ here.timer \notin Models
  BY DEF KeepsPicker, Apart
<1>1. ASSUME NEW m \in Models, Picker!Select(m) PROVE KeepsPicker(here')
  <2>1. here' = Picker!Selected(here, m, FALSE, FALSE) /\ here.open
    BY <1>1 DEF Picker!Select
  <2> QED BY <2>1, <1>0, SelectedKeeps
<1>2. CASE Picker!ConfirmSelection
  <2> DEFINE m == here.confirm
             agreed == here.consented \cup {m}
             p == [here EXCEPT !.confirm = "none", !.consented = agreed]
  <2>1. p = [here EXCEPT !.confirm = "none", !.consented = agreed] /\ m \in Models
        /\ agreed \in SUBSET Models /\ m \in agreed /\ here.consented \subseteq agreed
        /\ here.timer = "none"
    BY <1>2 DEF Picker!ConfirmSelection, KeepsPicker, PickerRecord, Apart
  <2>2. here' = Picker!Selected(p, m, TRUE, FALSE)
    BY <1>2 DEF Picker!ConfirmSelection
  <2> HIDE DEF agreed, p
  <2>3. p \in PickerRecord
    BY <2>1 DEF KeepsPicker, PickerRecord, Models
  <2>4. LanesKept(p)
    BY <2>1 DEF KeepsPicker, PickerRecord, LanesKept, Models
  <2>5. Agreed(p)
    BY <2>1 DEF KeepsPicker, PickerRecord, Agreed, Models
  <2>6. Apart(p)
    BY <2>1 DEF KeepsPicker, PickerRecord, Apart, Models
  <2>7. Fresh(p)
    BY <2>1 DEF KeepsPicker, PickerRecord, Fresh, Models
  <2>8. Took(p)
    BY <2>1 DEF KeepsPicker, PickerRecord, Took, Models
  <2>9. Pill(p)
    BY <2>1 DEF KeepsPicker, PickerRecord, Pill, Models
  <2>20. KeepsPicker(p)
    BY <2>3, <2>4, <2>5, <2>6, <2>7, <2>8, <2>9 DEF KeepsPicker
  <2>21. p.confirm = "none" /\ p.timer = "none" /\ m \in p.consented /\ m \in Models
    BY <2>1 DEF KeepsPicker, PickerRecord
  <2>22. "none" \notin Models
    BY DEF Models
  <2> HIDE DEF m
  <2> QED BY <2>2, <2>20, <2>21, <2>22, SelectedKeeps
<1>3. ASSUME NEW speed \in Picker!Speeds, Picker!SetFastMode(speed) PROVE KeepsPicker(here')
  <2>1. CASE Picker!FastControl(here.cache) = "parameter"
    <3> DEFINE request == Picker!Request("fast", speed)  n == here.changes + 1
    <3>1. request \in LaneRequest /\ request.key = "fast" /\ request.value = speed
          /\ request.at = "out" /\ speed \in {"normal", "fast"} 
      BY <1>3 DEF Picker!Request, Picker!NoRequest, LaneRequest, Picker!Speeds, Models
    <3>30. n \in Nat
      BY DEF KeepsPicker, PickerRecord
    <3>2. here' = [here EXCEPT !.control = request, !.changes = n] /\ here.control.at = "idle"
          /\ here.cache \in Contexts
      BY <1>3, <2>1 DEF Picker!SetFastMode, Picker!CanControl, Picker!HasCache, KeepsPicker, PickerRecord
    <3> HIDE DEF request, n
    <3>3. here' \in PickerRecord
      BY <3>1, <3>2, <3>30 DEF KeepsPicker, PickerRecord
    <3>4. LanesKept(here')
      BY <3>1, <3>2, <3>30 DEF KeepsPicker, PickerRecord, LanesKept
    <3>5. Agreed(here')
      BY <3>1, <3>2, <3>30 DEF KeepsPicker, PickerRecord, Agreed
    <3>6. Apart(here')
      BY <3>1, <3>2, <3>30 DEF KeepsPicker, PickerRecord, Apart
    <3>7. Fresh(here')
      BY <3>1, <3>2, <3>30 DEF KeepsPicker, PickerRecord, Fresh
    <3>8. Took(here')
      BY <3>1, <3>2, <3>30 DEF KeepsPicker, PickerRecord, Took
    <3>9. Pill(here')
      BY <3>1, <3>2, <3>30 DEF KeepsPicker, PickerRecord, Pill
    <3> QED BY <3>3, <3>4, <3>5, <3>6, <3>7, <3>8, <3>9 DEF KeepsPicker
  <2>2. CASE Picker!FastControl(here.cache) # "parameter"
    <3> DEFINE m == IF speed = "fast" THEN "base-fast" ELSE "base"
               q == Picker!Selected(here, m, FALSE, TRUE)
    <3>1. m \in Models
      BY DEF Models
    <3>2. here.open /\ here' = IF q = here THEN here ELSE [q EXCEPT !.toggling = TRUE]
      BY <1>3, <2>2 DEF Picker!SetFastMode, Picker!CanControl
    <3> HIDE DEF m
    <3>3. KeepsPicker(q)
      BY <3>1, <3>2, <1>0, SelectedKeeps
    <3> HIDE DEF q
    <3>4. here' = here \/ here' = [q EXCEPT !.toggling = TRUE]
      BY <3>2
    <3>5. here' \in PickerRecord
      BY <3>3, <3>4, ZenonT(60) DEF KeepsPicker, PickerRecord
    <3>6. LanesKept(here')
      BY <3>3, <3>4 DEF KeepsPicker, PickerRecord, LanesKept
    <3>7. Agreed(here')
      BY <3>3, <3>4 DEF KeepsPicker, PickerRecord, Agreed
    <3>8. Apart(here')
      BY <3>3, <3>4 DEF KeepsPicker, PickerRecord, Apart
    <3>9. Fresh(here')
      BY <3>3, <3>4 DEF KeepsPicker, PickerRecord, Fresh
    <3>10. Took(here')
      BY <3>3, <3>4 DEF KeepsPicker, PickerRecord, Took
    <3>11. Pill(here')
      BY <3>3, <3>4 DEF KeepsPicker, PickerRecord, Pill
    <3> QED BY <3>5, <3>6, <3>7, <3>8, <3>9, <3>10, <3>11 DEF KeepsPicker
  <2> QED BY <2>1, <2>2
<1>4. ASSUME NEW effort \in Picker!Efforts, Picker!SetReasoning(effort) PROVE KeepsPicker(here')
  <2> DEFINE request == Picker!Request("effort", effort)  n == here.changes + 1
  <2>1. request \in LaneRequest /\ request.key = "effort" /\ request.value = effort
        /\ request.at = "out" /\ effort \in {"none", "high"} 
    BY <1>4 DEF Picker!Request, Picker!NoRequest, LaneRequest, Picker!Efforts, Models
  <2>30. n \in Nat
    BY DEF KeepsPicker, PickerRecord
  <2>2. here' = [here EXCEPT !.control = request, !.changes = n] /\ here.control.at = "idle"
        /\ here.cache \in Contexts
    BY <1>4 DEF Picker!SetReasoning, Picker!CanControl, Picker!HasCache, KeepsPicker, PickerRecord
  <2> HIDE DEF request, n
  <2>3. here' \in PickerRecord
    BY <2>1, <2>2, <2>30 DEF KeepsPicker, PickerRecord
  <2>4. LanesKept(here')
    BY <2>1, <2>2, <2>30 DEF KeepsPicker, PickerRecord, LanesKept
  <2>5. Agreed(here')
    BY <2>1, <2>2, <2>30 DEF KeepsPicker, PickerRecord, Agreed
  <2>6. Apart(here')
    BY <2>1, <2>2, <2>30 DEF KeepsPicker, PickerRecord, Apart
  <2>7. Fresh(here')
    BY <2>1, <2>2, <2>30 DEF KeepsPicker, PickerRecord, Fresh
  <2>8. Took(here')
    BY <2>1, <2>2, <2>30 DEF KeepsPicker, PickerRecord, Took
  <2>9. Pill(here')
    BY <2>1, <2>2, <2>30 DEF KeepsPicker, PickerRecord, Pill
  <2> QED BY <2>3, <2>4, <2>5, <2>6, <2>7, <2>8, <2>9 DEF KeepsPicker
<1> QED BY <1>1, <1>2, <1>3, <1>4

\* The gateway asks, defers or applies; a turn that starts takes what was deferred.
LEMMA GatewayDecides ==
  ASSUME KeepsPicker(here), Picker!GatewaySwitches \/ Picker!GatewaySets \/ Picker!TurnMoves
  PROVE  KeepsPicker(here')
<1> USE DEF Picker!P, Picker!None
<1>1. CASE Picker!GatewaySwitches
  <2> DEFINE m == here.model.value  confirm == [here.model EXCEPT !.at = "confirm"]
             deferred == [here.model EXCEPT !.at = "deferred"]
             applied == [here.model EXCEPT !.at = "applied"]
             server == [here.server EXCEPT !.model = m]
             p == [here EXCEPT !.model = applied, !.server = server, !.deferred = "none"]
  <2>1. /\ here.model.at = "out" /\ m = here.model.value /\ m \in Models /\ here.model.key = "model"
        /\ confirm \in LaneRequest /\ confirm.at = "confirm" /\ confirm.value = m
        /\ confirm.consent = here.model.consent /\ confirm.key = "model"
        /\ deferred \in LaneRequest /\ deferred.at = "deferred" /\ deferred.value = m
        /\ deferred.consent = here.model.consent /\ deferred.key = "model"
        /\ applied \in LaneRequest /\ applied.at = "applied" /\ applied.value = m
        /\ applied.consent = here.model.consent /\ applied.key = "model"
    BY <1>1 DEF Picker!GatewaySwitches, KeepsPicker, PickerRecord, LaneRequest, LanesKept
  <2>2. /\ server \in Contexts /\ server.model = m /\ server.fast = here.server.fast
        /\ server.effort = here.server.effort
    BY <2>1 DEF KeepsPicker, PickerRecord, Contexts
  <2>3. \/ here' = [here EXCEPT !.model = confirm]
        \/ /\ m = "dear" => here.model.consent
           /\ \/ here' = [here EXCEPT !.model = deferred, !.deferred = m]
              \/ here' = Picker!Overtaken(p)
    BY <1>1 DEF Picker!GatewaySwitches, KeepsPicker, PickerRecord, LaneRequest, Contexts
  <2>4. p = [here EXCEPT !.model = applied, !.server = server, !.deferred = "none"]
    OBVIOUS
  <2> HIDE DEF m, confirm, deferred, applied, server, p
  <2>5. CASE here' = [here EXCEPT !.model = confirm]
    <3>3. here' \in PickerRecord
      BY <2>1, <2>5 DEF KeepsPicker, PickerRecord
    <3>4. LanesKept(here')
      BY <2>1, <2>5 DEF KeepsPicker, PickerRecord, LanesKept
    <3>5. Agreed(here')
      BY <2>1, <2>5 DEF KeepsPicker, PickerRecord, Agreed
    <3>6. Apart(here')
      BY <2>1, <2>5 DEF KeepsPicker, PickerRecord, Apart
    <3>7. Fresh(here')
      BY <2>1, <2>5 DEF KeepsPicker, PickerRecord, Fresh
    <3>8. Took(here')
      BY <2>1, <2>5 DEF KeepsPicker, PickerRecord, Took
    <3>9. Pill(here')
      BY <2>1, <2>5 DEF KeepsPicker, PickerRecord, Pill
    <3> QED BY <3>3, <3>4, <3>5, <3>6, <3>7, <3>8, <3>9 DEF KeepsPicker
  <2>6. CASE (m = "dear" => here.model.consent) /\ here' = [here EXCEPT !.model = deferred, !.deferred = m]
    <3>3. here' \in PickerRecord
      BY <2>1, <2>6 DEF KeepsPicker, PickerRecord
    <3>4. LanesKept(here')
      BY <2>1, <2>6 DEF KeepsPicker, PickerRecord, LanesKept
    <3>5. Agreed(here')
      BY <2>1, <2>6 DEF KeepsPicker, PickerRecord, Agreed
    <3>6. Apart(here')
      BY <2>1, <2>6 DEF KeepsPicker, PickerRecord, Apart
    <3>7. Fresh(here')
      BY <2>1, <2>6 DEF KeepsPicker, PickerRecord, Fresh
    <3>8. Took(here')
      BY <2>1, <2>6 DEF KeepsPicker, PickerRecord, Took
    <3>9. Pill(here')
      BY <2>1, <2>6 DEF KeepsPicker, PickerRecord, Pill
    <3> QED BY <3>3, <3>4, <3>5, <3>6, <3>7, <3>8, <3>9 DEF KeepsPicker
  <2>7. CASE (m = "dear" => here.model.consent) /\ here' = Picker!Overtaken(p)
    <3>3. p \in PickerRecord
      BY <2>1, <2>2, <2>4, <2>7, ZenonT(60) DEF KeepsPicker, PickerRecord, Models
    <3>4. LanesKept(p)
      BY <2>1, <2>2, <2>4, <2>7 DEF KeepsPicker, PickerRecord, LanesKept, Models
    <3>5. Agreed(p)
      BY <2>1, <2>2, <2>4, <2>7 DEF KeepsPicker, PickerRecord, Agreed, Models
    <3>6. Apart(p)
      BY <2>1, <2>2, <2>4, <2>7 DEF KeepsPicker, PickerRecord, Apart, Models
    <3>7. Took(p)
      BY <2>1, <2>2, <2>4, <2>7 DEF KeepsPicker, PickerRecord, Took, Models
    <3>8. Pill(p)
      BY <2>1, <2>2, <2>4, <2>7 DEF KeepsPicker, PickerRecord, Pill, Models
    <3> QED BY <2>7, <3>3, <3>4, <3>5, <3>6, <3>7, <3>8, OvertakenKeeps
  <2> QED BY <2>3, <2>5, <2>6, <2>7
<1>2. CASE Picker!GatewaySets
  <2> DEFINE r == here.control  applied == [here.control EXCEPT !.at = "applied"]
             fast == [here.server EXCEPT !.fast = r.value]
             effort == [here.server EXCEPT !.effort = r.value]
             server == IF r.key = "fast" THEN fast ELSE effort
             p == [here EXCEPT !.control = applied, !.server = server]
  <2>1. /\ here.control.at = "out" /\ r = here.control
        /\ applied \in LaneRequest /\ applied.at = "applied" /\ applied.key = r.key
        /\ applied.value = r.value
        /\ \/ r.key = "fast" /\ r.value \in {"normal", "fast"}
           \/ r.key = "effort" /\ r.value \in {"none", "high"}
    BY <1>2 DEF Picker!GatewaySets, KeepsPicker, PickerRecord, LaneRequest, LanesKept
  <2>2. /\ server \in Contexts /\ server.model = here.server.model
        /\ r.key = "fast" => server.fast = r.value /\ server.effort = here.server.effort
        /\ r.key = "effort" => server.effort = r.value /\ server.fast = here.server.fast
    BY <2>1 DEF KeepsPicker, PickerRecord, Contexts
  <2>3. here' = Picker!Overtaken([here EXCEPT !.control = applied, !.server = server])
    BY <1>2 DEF Picker!GatewaySets, KeepsPicker, PickerRecord, LaneRequest
  <2>4. p = [here EXCEPT !.control = applied, !.server = server]
    OBVIOUS
  <2> HIDE DEF r, applied, fast, effort, server, p
  <2>5. p \in PickerRecord
    BY <2>1, <2>2, <2>4 DEF KeepsPicker, PickerRecord
  <2>6. LanesKept(p)
    BY <2>1, <2>2, <2>4 DEF KeepsPicker, PickerRecord, LanesKept
  <2>7. Agreed(p)
    BY <2>1, <2>2, <2>4 DEF KeepsPicker, PickerRecord, Agreed
  <2>8. Apart(p)
    BY <2>1, <2>2, <2>4 DEF KeepsPicker, PickerRecord, Apart
  <2>9. Took(p)
    BY <2>1, <2>2, <2>4 DEF KeepsPicker, PickerRecord, Took
  <2>10. Pill(p)
    BY <2>1, <2>2, <2>4 DEF KeepsPicker, PickerRecord, Pill
  <2> QED BY <2>3, <2>4, <2>5, <2>6, <2>7, <2>8, <2>9, <2>10, OvertakenKeeps
<1>3. CASE Picker!TurnMoves
  <2> DEFINE server == [here.server EXCEPT !.model = here.deferred]
             known == here.known /\ here.cache.model = here.deferred
             turn == ~here.turn
             p == [here EXCEPT !.turn = TRUE, !.server = server, !.known = known, !.deferred = "none"]
  <2>1. here' = [here EXCEPT !.turn = turn] \/ (here.deferred # "none" /\ here' = Picker!Overtaken(p))
    BY <1>3 DEF Picker!TurnMoves
  <2>2. here.deferred # "none" =>
          /\ server \in Contexts /\ server.model = here.deferred /\ server.fast = here.server.fast
          /\ server.effort = here.server.effort
    BY DEF KeepsPicker, PickerRecord, Contexts
  <2>3. /\ turn \in BOOLEAN /\ known \in BOOLEAN
        /\ known => here.known /\ here.cache.model = here.deferred
    BY DEF KeepsPicker, PickerRecord
  <2>4. p = [here EXCEPT !.turn = TRUE, !.server = server, !.known = known, !.deferred = "none"]
    OBVIOUS
  <2> HIDE DEF server, known, turn, p
  <2>5. CASE here' = [here EXCEPT !.turn = turn]
    <3>3. here' \in PickerRecord
      BY <2>3, <2>5 DEF KeepsPicker, PickerRecord
    <3>4. LanesKept(here')
      BY <2>3, <2>5 DEF KeepsPicker, PickerRecord, LanesKept
    <3>5. Agreed(here')
      BY <2>3, <2>5 DEF KeepsPicker, PickerRecord, Agreed
    <3>6. Apart(here')
      BY <2>3, <2>5 DEF KeepsPicker, PickerRecord, Apart
    <3>7. Fresh(here')
      BY <2>3, <2>5 DEF KeepsPicker, PickerRecord, Fresh
    <3>8. Took(here')
      BY <2>3, <2>5 DEF KeepsPicker, PickerRecord, Took
    <3>9. Pill(here')
      BY <2>3, <2>5 DEF KeepsPicker, PickerRecord, Pill
    <3> QED BY <3>3, <3>4, <3>5, <3>6, <3>7, <3>8, <3>9 DEF KeepsPicker
  <2>6. CASE here.deferred # "none" /\ here' = Picker!Overtaken(p)
    <3>3. p \in PickerRecord
      BY <2>2, <2>3, <2>4, <2>6, ZenonT(60) DEF KeepsPicker, PickerRecord, Models
    <3>4. LanesKept(p)
      BY <2>2, <2>3, <2>4, <2>6 DEF KeepsPicker, PickerRecord, LanesKept, Models
    <3>5. Agreed(p)
      BY <2>2, <2>3, <2>4, <2>6 DEF KeepsPicker, PickerRecord, Agreed, Models
    <3>6. Apart(p)
      BY <2>2, <2>3, <2>4, <2>6 DEF KeepsPicker, PickerRecord, Apart, Models
    <3>7. Took(p)
      BY <2>2, <2>3, <2>4, <2>6 DEF KeepsPicker, PickerRecord, Took, Models
    <3>8. Pill(p)
      BY <2>2, <2>3, <2>4, <2>6 DEF KeepsPicker, PickerRecord, Pill, Models
    <3> QED BY <2>6, <3>3, <3>4, <3>5, <3>6, <3>7, <3>8, OvertakenKeeps
  <2> QED BY <2>1, <2>5, <2>6
<1> QED BY <1>1, <1>2, <1>3

\* The client hears of it.
LEMMA PickerHears ==
  ASSUME KeepsPicker(here),
         \/ Picker!ConsentAsked \/ Picker!Switched \/ Picker!SwitchFails
         \/ Picker!ControlSet \/ Picker!ControlFails
  PROVE  KeepsPicker(here')
<1> USE DEF Picker!P, Picker!None
<1> DEFINE none == Picker!NoRequest
<1>0. none \in LaneRequest /\ none.at = "idle" /\ ~none.consent /\ none = Picker!NoRequest
  BY DEF Picker!NoRequest, LaneRequest
<1> HIDE DEF none
<1>1. CASE Picker!ConsentAsked
  <2> DEFINE m == here.model.value
  <2>1. m \in Models /\ here.model.at = "confirm"
    BY <1>1 DEF Picker!ConsentAsked, KeepsPicker, LanesKept
  <2>2. here' = [here EXCEPT !.open = FALSE, !.timer = m, !.model = none, !.toggling = FALSE]
    BY <1>0, <1>1 DEF Picker!ConsentAsked, Picker!ModelFree
  <2> HIDE DEF m
  <2>3. here' \in PickerRecord
    BY <1>0, <2>1, <2>2, ZenonT(60) DEF KeepsPicker, PickerRecord, Models
  <2>4. LanesKept(here')
    BY <1>0, <2>1, <2>2 DEF KeepsPicker, PickerRecord, LanesKept, Models
  <2>5. Agreed(here')
    BY <1>0, <2>1, <2>2 DEF KeepsPicker, PickerRecord, Agreed, Models
  <2>6. Apart(here')
    BY <1>0, <2>1, <2>2 DEF KeepsPicker, PickerRecord, Apart, Models
  <2>7. Fresh(here')
    BY <1>0, <2>1, <2>2 DEF KeepsPicker, PickerRecord, Fresh, Models
  <2>8. Took(here')
    BY <1>0, <2>1, <2>2 DEF KeepsPicker, PickerRecord, Took, Models
  <2>9. Pill(here')
    BY <1>0, <2>1, <2>2 DEF KeepsPicker, PickerRecord, Pill, Models
  <2> QED BY <2>3, <2>4, <2>5, <2>6, <2>7, <2>8, <2>9 DEF KeepsPicker
<1>2. CASE Picker!Switched
  <2> DEFINE cache == IF Picker!HasCache THEN [here.cache EXCEPT !.model = here.model.value] ELSE here.cache
             open == here.open /\ here.model.keepOpen
  <2>1. /\ open \in BOOLEAN /\ (open => here.open) /\ here.model.at \in {"applied", "deferred"}
    BY <1>2 DEF Picker!Switched, KeepsPicker, PickerRecord, LaneRequest
  <2>2. /\ cache \in Contexts \cup {Picker!Unknown}
        /\ here.cache \in Contexts => /\ cache \in Contexts /\ cache.model = here.model.value
                                      /\ cache.fast = here.cache.fast
                                      /\ cache.effort = here.cache.effort
    BY <2>1 DEF KeepsPicker, PickerRecord, LanesKept, Contexts, Models, Picker!HasCache, Picker!Unknown,
                Picker!Start
  <2>3. here' = [here EXCEPT !.cache = cache, !.open = open, !.model = none, !.toggling = FALSE]
    BY <1>0, <1>2 DEF Picker!Switched, Picker!ModelFree
  <2> HIDE DEF cache, open
  <2>4. here' \in PickerRecord
    BY <1>0, <2>1, <2>2, <2>3, ZenonT(60) DEF KeepsPicker, PickerRecord
  <2>5. LanesKept(here')
    BY <1>0, <2>1, <2>2, <2>3 DEF KeepsPicker, PickerRecord, LanesKept
  <2>6. Agreed(here')
    BY <1>0, <2>1, <2>2, <2>3 DEF KeepsPicker, PickerRecord, Agreed
  <2>7. Apart(here')
    BY <1>0, <2>1, <2>2, <2>3 DEF KeepsPicker, PickerRecord, Apart
  <2>8. Fresh(here')
    BY <1>0, <2>1, <2>2, <2>3 DEF KeepsPicker, PickerRecord, Fresh
  <2>9. Took(here')
    BY <1>0, <2>1, <2>2, <2>3 DEF KeepsPicker, PickerRecord, Took
  <2>10. Pill(here')
    BY <1>0, <2>1, <2>2, <2>3 DEF KeepsPicker, PickerRecord, Pill, Took
  <2> QED BY <2>4, <2>5, <2>6, <2>7, <2>8, <2>9, <2>10 DEF KeepsPicker
<1>3. CASE Picker!SwitchFails
  <2> DEFINE known == here.known /\ here.model.at = "out"
             timer == IF here.model.consent THEN "reopen" ELSE here.timer
  <2>1. /\ known \in BOOLEAN /\ (known => here.known /\ here.model.at = "out")
        /\ here.model.at # "idle" /\ timer \in {"none", "reopen"} /\ here.confirm = "none"
    BY <1>3 DEF Picker!SwitchFails, KeepsPicker, PickerRecord, Apart
  <2>2. here' = [here EXCEPT !.known = known, !.timer = timer, !.model = none, !.toggling = FALSE]
    BY <1>0, <1>3 DEF Picker!SwitchFails, Picker!ModelFree
  <2> HIDE DEF known, timer
  <2>3. here' \in PickerRecord
    BY <1>0, <2>1, <2>2, ZenonT(60) DEF KeepsPicker, PickerRecord, Models
  <2>4. LanesKept(here')
    BY <1>0, <2>1, <2>2 DEF KeepsPicker, PickerRecord, LanesKept, Models
  <2>5. Agreed(here')
    BY <1>0, <2>1, <2>2 DEF KeepsPicker, PickerRecord, Agreed, Models
  <2>6. Apart(here')
    BY <1>0, <2>1, <2>2 DEF KeepsPicker, PickerRecord, Apart, Models
  <2>7. Fresh(here')
    BY <1>0, <2>1, <2>2 DEF KeepsPicker, PickerRecord, Fresh, Models
  <2>8. Took(here')
    BY <1>0, <2>1, <2>2 DEF KeepsPicker, PickerRecord, Took, Models
  <2>9. Pill(here')
    BY <1>0, <2>1, <2>2 DEF KeepsPicker, PickerRecord, Pill, Models
  <2> QED BY <2>3, <2>4, <2>5, <2>6, <2>7, <2>8, <2>9 DEF KeepsPicker
<1>4. CASE Picker!ControlSet
  <2> DEFINE r == here.control
             cache == IF r.key = "fast" THEN [here.cache EXCEPT !.fast = r.value]
                      ELSE [here.cache EXCEPT !.effort = r.value]
  <2>1. /\ r.at = "applied"
        /\ \/ r.key = "fast" /\ r.value \in {"normal", "fast"}
           \/ r.key = "effort" /\ r.value \in {"none", "high"}
    BY <1>4 DEF Picker!ControlSet, KeepsPicker, LanesKept
  <2>2. /\ cache \in Contexts /\ cache.model = here.cache.model
        /\ r.key = "fast" => cache.fast = r.value /\ cache.effort = here.cache.effort
        /\ r.key = "effort" => cache.effort = r.value /\ cache.fast = here.cache.fast
    BY <2>1 DEF KeepsPicker, LanesKept, Contexts
  <2>3. here' = [here EXCEPT !.control = none, !.cache = cache]
    BY <1>0, <1>4 DEF Picker!ControlSet
  <2> HIDE DEF cache
  <2>4. here' \in PickerRecord
    BY <1>0, <2>1, <2>2, <2>3, ZenonT(60) DEF KeepsPicker, PickerRecord
  <2>5. LanesKept(here')
    BY <1>0, <2>1, <2>2, <2>3 DEF KeepsPicker, PickerRecord, LanesKept
  <2>6. Agreed(here')
    BY <1>0, <2>1, <2>2, <2>3 DEF KeepsPicker, PickerRecord, Agreed
  <2>7. Apart(here')
    BY <1>0, <2>1, <2>2, <2>3 DEF KeepsPicker, PickerRecord, Apart
  <2>8. Fresh(here')
    BY <1>0, <2>1, <2>2, <2>3 DEF KeepsPicker, PickerRecord, Fresh
  <2>9. Took(here')
    BY <1>0, <2>1, <2>2, <2>3 DEF KeepsPicker, PickerRecord, Took
  <2>10. Pill(here')
    BY <1>0, <2>1, <2>2, <2>3 DEF KeepsPicker, PickerRecord, Pill, Took
  <2> QED BY <2>4, <2>5, <2>6, <2>7, <2>8, <2>9, <2>10 DEF KeepsPicker
<1>5. CASE Picker!ControlFails
  <2> DEFINE known == here.known /\ here.control.at = "out"
  <2>1. known \in BOOLEAN /\ (known => here.known /\ here.control.at = "out")
    BY DEF KeepsPicker, PickerRecord
  <2>2. here' = [here EXCEPT !.control = none, !.known = known]
    BY <1>0, <1>5 DEF Picker!ControlFails
  <2> HIDE DEF known
  <2>3. here' \in PickerRecord
    BY <1>0, <2>1, <2>2, ZenonT(60) DEF KeepsPicker, PickerRecord
  <2>4. LanesKept(here')
    BY <1>0, <2>1, <2>2 DEF KeepsPicker, PickerRecord, LanesKept
  <2>5. Agreed(here')
    BY <1>0, <2>1, <2>2 DEF KeepsPicker, PickerRecord, Agreed
  <2>6. Apart(here')
    BY <1>0, <2>1, <2>2 DEF KeepsPicker, PickerRecord, Apart
  <2>7. Fresh(here')
    BY <1>0, <2>1, <2>2 DEF KeepsPicker, PickerRecord, Fresh
  <2>8. Took(here')
    BY <1>0, <2>1, <2>2 DEF KeepsPicker, PickerRecord, Took
  <2>9. Pill(here')
    BY <1>0, <2>1, <2>2 DEF KeepsPicker, PickerRecord, Pill
  <2> QED BY <2>3, <2>4, <2>5, <2>6, <2>7, <2>8, <2>9 DEF KeepsPicker
<1> QED BY <1>1, <1>2, <1>3, <1>4, <1>5

LEMMA PickerSteps == PickerInv /\ Picker!Next => PickerInv'
<1> SUFFICES ASSUME KeepsPicker(here), Picker!Next PROVE KeepsPicker(here')
  BY DEF PickerInv
<1>1. ASSUME NEW m \in Models, Picker!Select(m) PROVE KeepsPicker(here')
  BY <1>1, PickerSelects
<1>2. ASSUME NEW effort \in Picker!Efforts, Picker!SetReasoning(effort) PROVE KeepsPicker(here')
  BY <1>2, PickerSelects
<1>3. ASSUME NEW speed \in Picker!Speeds, Picker!SetFastMode(speed) PROVE KeepsPicker(here')
  BY <1>3, PickerSelects
<1>4. ASSUME \/ Picker!ReadAnswered \/ Picker!RefreshAnswered \/ Picker!ReadApplied
             \/ Picker!RefreshApplied \/ Picker!ReadFails \/ Picker!RefreshFails
      PROVE  KeepsPicker(here')
  BY <1>4, PickerReads
<1>5. ASSUME \/ Picker!OpenPicker \/ Picker!ClosePicker \/ Picker!RefreshModels \/ Picker!TimerFires
             \/ Picker!CloseConfirmation \/ Picker!ConfirmSelection
      PROVE  KeepsPicker(here')
  BY <1>5, PickerSurfaces, PickerSelects
<1>6. ASSUME Picker!GatewaySwitches \/ Picker!GatewaySets \/ Picker!TurnMoves
      PROVE  KeepsPicker(here')
  BY <1>6, GatewayDecides
<1>7. ASSUME \/ Picker!ConsentAsked \/ Picker!Switched \/ Picker!SwitchFails
             \/ Picker!ControlSet \/ Picker!ControlFails
      PROVE  KeepsPicker(here')
  BY <1>7, PickerHears
<1> QED BY <1>1, <1>2, <1>3, <1>4, <1>5, <1>6, <1>7 DEF Picker!Next, Models, Picker!Models

----------------------------------------------------------------------------
(* The stores (DeviceStores).                                              *)

KeyReads == 1..MaxReads
KeyRead == [at : {"none", "out", "taken"}, key : BOOLEAN, enabled : BOOLEAN, failed : BOOLEAN]
StoresRecord ==
  [part : {"preference", "key"}, value : Values \cup {0}, hydrated : BOOLEAN,
   hydration : {"none", "reading", "read", "done"}, stored : Values \cup {0},
   disk : Values \cup {0}, writes : SUBSET (Nat \X Values), sets : Nat, chosen : Values \cup {0},
   uncertain : BOOLEAN, key : BOOLEAN, enabled : BOOLEAN, hasKey : BOOLEAN, realtime : BOOLEAN,
   read : [KeyReads -> KeyRead], reads : Nat, told : BOOLEAN,
   save : {"none", "checking", "storing"}, removal : {"none", "out"}]

\* The choice is in memory, and on its way to the disk or there.
Stands(s) ==
  s.chosen # 0 => /\ s.hydrated /\ s.value = s.chosen
                  /\ ~s.uncertain => /\ \A w \in s.writes : w[2] = s.chosen
                                     /\ s.writes = {} => s.disk = s.chosen

\* Who will be told is told by the one read that is out, or was told the truth.
Told(s) ==
  s.told =>
    /\ \A r \in KeyReads : s.read[r].at # "none" => r = s.reads
    /\ \A r \in KeyReads : s.read[r].at = "taken" =>
         s.read[r].key = s.key /\ s.read[r].enabled = s.enabled
    /\ (\A r \in KeyReads : s.read[r].at = "none") => s.hasKey = s.key /\ s.realtime = s.enabled

\* The reads that are still to come have a place.
ReadsToCome(s) == s.reads + (IF s.save = "none" THEN 0 ELSE 1) + (IF s.removal = "none" THEN 0 ELSE 1)
RoomToRead(s) == ReadsToCome(s) <= MaxReads

KeepsStores(s) == s \in StoresRecord /\ Stands(s) /\ Told(s) /\ RoomToRead(s)

StoresInv == KeepsStores(here)

LEMMA StoresStart == Stores!Init => StoresInv
<1> SUFFICES ASSUME Stores!Init PROVE StoresInv
  OBVIOUS
<1> DEFINE none == Stores!NoRead
<1>1. none \in KeyRead /\ none.at = "none"
  BY DEF Stores!NoRead, KeyRead
<1>2. PICK part \in {"preference", "key"}, v \in Values \cup {0}, key \in BOOLEAN :
        here = [part |-> part, value |-> 0, hydrated |-> FALSE, hydration |-> "none", stored |-> 0,
                disk |-> v, writes |-> {}, sets |-> 0, chosen |-> 0, uncertain |-> FALSE,
                key |-> key, enabled |-> TRUE, hasKey |-> FALSE, realtime |-> TRUE,
                read |-> [r \in KeyReads |-> none], reads |-> 0, told |-> FALSE,
                save |-> "none", removal |-> "none"]
  BY DEF Stores!Init, Stores!Reads, KeyReads
<1> HIDE DEF none
<1>3. here \in StoresRecord
  BY <1>1, <1>2 DEF StoresRecord
<1>4. Stands(here) /\ Told(here)
  BY <1>2 DEF Stands, Told
<1>5. RoomToRead(here)
  BY <1>2, ClientConstants DEF ClientConstants, RoomToRead, ReadsToCome
<1> QED BY <1>3, <1>4, <1>5 DEF StoresInv, KeepsStores

LEMMA StoresPromises == StoresInv => Stores!ChoiceStands /\ Stores!PresenceTold
<1> SUFFICES ASSUME StoresInv PROVE Stores!ChoiceStands /\ Stores!PresenceTold
  OBVIOUS
<1>1. Stores!ChoiceStands
  BY DEF StoresInv, KeepsStores, Stands, Stores!ChoiceStands, Stores!S
<1>2. Stores!PresenceTold
  BY DEF StoresInv, KeepsStores, Told, KeyReads, Stores!PresenceTold, Stores!S, Stores!ReadsOut,
         Stores!Reads
<1> QED BY <1>1, <1>2

LEMMA PreferenceSteps ==
  ASSUME KeepsStores(here), Stores!PreferenceNext PROVE KeepsStores(here')
<1> USE DEF Stores!S
<1>1. CASE Stores!Hydrate
  <2>1. here' = [here EXCEPT !.hydration = "reading"]
    BY <1>1 DEF Stores!Hydrate
  <2>2. here' \in StoresRecord
    BY <2>1 DEF KeepsStores, StoresRecord
  <2>3. Stands(here')
    BY <2>1 DEF KeepsStores, StoresRecord, Stands
  <2>4. Told(here')
    BY <2>1 DEF KeepsStores, StoresRecord, Told
  <2>5. RoomToRead(here')
    BY <2>1 DEF KeepsStores, StoresRecord, RoomToRead, ReadsToCome
  <2> QED BY <2>2, <2>3, <2>4, <2>5 DEF KeepsStores
<1>2. CASE Stores!RecordRead
  <2>1. PICK v \in Values \cup {0} : here' = [here EXCEPT !.hydration = "read", !.stored = v]
    BY <1>2 DEF Stores!RecordRead, KeepsStores, StoresRecord
  <2>2. here' \in StoresRecord
    BY <2>1, ZenonT(60) DEF KeepsStores, StoresRecord
  <2>3. Stands(here')
    BY <2>1 DEF KeepsStores, StoresRecord, Stands
  <2>4. Told(here')
    BY <2>1 DEF KeepsStores, StoresRecord, Told
  <2>5. RoomToRead(here')
    BY <2>1 DEF KeepsStores, StoresRecord, RoomToRead, ReadsToCome
  <2> QED BY <2>2, <2>3, <2>4, <2>5 DEF KeepsStores
<1>3. CASE Stores!Hydrated
  <2> DEFINE v == IF here.hydrated THEN here.value ELSE here.stored
  <2>1. here' = [here EXCEPT !.hydration = "done", !.hydrated = TRUE, !.value = v]
    BY <1>3 DEF Stores!Hydrated
  <2>2. v \in Values \cup {0} /\ (here.hydrated => v = here.value)
    BY DEF KeepsStores, StoresRecord
  <2> HIDE DEF v
  <2>3. here' \in StoresRecord
    BY <2>1, <2>2, ZenonT(60) DEF KeepsStores, StoresRecord
  <2>4. Stands(here')
    BY <2>1, <2>2 DEF KeepsStores, StoresRecord, Stands
  <2>5. Told(here')
    BY <2>1, <2>2 DEF KeepsStores, StoresRecord, Told
  <2>6. RoomToRead(here')
    BY <2>1, <2>2 DEF KeepsStores, StoresRecord, RoomToRead, ReadsToCome
  <2> QED BY <2>3, <2>4, <2>5, <2>6 DEF KeepsStores
<1>4. CASE Stores!Relaunch
  <2>1. here' = [here EXCEPT !.value = 0, !.hydrated = FALSE, !.hydration = "none", !.chosen = 0,
                             !.writes = {}, !.uncertain = FALSE]
    BY <1>4 DEF Stores!Relaunch
  <2>2. here' \in StoresRecord
    BY <2>1, ZenonT(60) DEF KeepsStores, StoresRecord
  <2>3. Stands(here')
    BY <2>1 DEF KeepsStores, StoresRecord, Stands
  <2>4. Told(here')
    BY <2>1 DEF KeepsStores, StoresRecord, Told
  <2>5. RoomToRead(here')
    BY <2>1 DEF KeepsStores, StoresRecord, RoomToRead, ReadsToCome
  <2> QED BY <2>2, <2>3, <2>4, <2>5 DEF KeepsStores
<1>5. ASSUME NEW v \in Values, Stores!Set(v) PROVE KeepsStores(here')
  <2> DEFINE n == here.sets + 1  w == <<here.sets, v>>  uncertain == here.writes # {}
             writes == here.writes \cup {w}
  <2>1. n \in Nat
    BY DEF KeepsStores, StoresRecord
  <2>2. writes \in SUBSET (Nat \X Values) /\ uncertain \in BOOLEAN
    BY DEF KeepsStores, StoresRecord
  <2>3. ~uncertain => writes = {w}
    OBVIOUS
  <2>4. w[2] = v /\ writes # {}
    OBVIOUS
  <2>5. here' = [here EXCEPT !.value = v, !.hydrated = TRUE, !.chosen = v, !.sets = n,
                             !.uncertain = uncertain, !.writes = writes]
    BY <1>5 DEF Stores!Set
  <2> HIDE DEF n, w, uncertain, writes
  <2>6. here' \in StoresRecord
    BY <2>1, <2>2, <2>3, <2>4, <2>5, ZenonT(60) DEF KeepsStores, StoresRecord
  <2>7. Stands(here')
    BY <2>1, <2>2, <2>3, <2>4, <2>5 DEF KeepsStores, StoresRecord, Stands
  <2>8. Told(here')
    BY <2>1, <2>2, <2>3, <2>4, <2>5 DEF KeepsStores, StoresRecord, Told
  <2>9. RoomToRead(here')
    BY <2>1, <2>2, <2>3, <2>4, <2>5 DEF KeepsStores, StoresRecord, RoomToRead, ReadsToCome
  <2> QED BY <2>6, <2>7, <2>8, <2>9 DEF KeepsStores
<1>6. ASSUME NEW w \in here.writes, Stores!Written(w) PROVE KeepsStores(here')
  <2>1. PICK ok \in BOOLEAN :
          here' = [here EXCEPT !.writes = @ \ {w}, !.disk = IF ok THEN w[2] ELSE @,
                               !.uncertain = @ \/ ~ok]
    BY <1>6 DEF Stores!Written
  <2> DEFINE writes == here.writes \ {w}  disk == IF ok THEN w[2] ELSE here.disk
             uncertain == here.uncertain \/ ~ok
  <2>2. writes \in SUBSET (Nat \X Values) /\ disk \in Values \cup {0} /\ uncertain \in BOOLEAN
    BY DEF KeepsStores, StoresRecord
  <2>3. writes \subseteq here.writes /\ (~uncertain => ~here.uncertain /\ disk = w[2])
    OBVIOUS
  <2>4. here' = [here EXCEPT !.writes = writes, !.disk = disk, !.uncertain = uncertain]
    BY <2>1
  <2> HIDE DEF writes, disk, uncertain
  <2>5. here' \in StoresRecord
    BY <2>2, <2>3, <2>4, ZenonT(60) DEF KeepsStores, StoresRecord
  <2>6. Stands(here')
    BY <2>2, <2>3, <2>4 DEF KeepsStores, StoresRecord, Stands
  <2>7. Told(here')
    BY <2>2, <2>3, <2>4 DEF KeepsStores, StoresRecord, Told
  <2>8. RoomToRead(here')
    BY <2>2, <2>3, <2>4 DEF KeepsStores, StoresRecord, RoomToRead, ReadsToCome
  <2> QED BY <2>5, <2>6, <2>7, <2>8 DEF KeepsStores
<1> QED BY <1>1, <1>2, <1>3, <1>4, <1>5, <1>6 DEF Stores!PreferenceNext

\* What is out is counted.
LEMMA ReadsOutCounted ==
  ASSUME here \in StoresRecord
  PROVE  Cardinality({m \in {"save", "removal"} : here[m] # "none"}) =
           (IF here.save = "none" THEN 0 ELSE 1) + (IF here.removal = "none" THEN 0 ELSE 1)
<1> DEFINE T == {m \in {"save", "removal"} : here[m] # "none"}
<1>1. here["save"] = here.save /\ here["removal"] = here.removal
  OBVIOUS
<1>2. T = (IF here.save = "none" THEN {} ELSE {"save"}) \cup (IF here.removal = "none" THEN {} ELSE {"removal"})
  BY <1>1
<1>3. Cardinality({}) = 0 /\ Cardinality({"save"}) = 1 /\ Cardinality({"removal"}) = 1
  BY FS_EmptySet, FS_Singleton
<1>4. Cardinality({"save", "removal"}) = 2
  <2>1. {"save", "removal"} = {"save"} \cup {"removal"} /\ "removal" \notin {"save"}
    OBVIOUS
  <2>2. IsFiniteSet({"save"})
    BY FS_Singleton
  <2>3. Cardinality({"save"} \cup {"removal"}) = Cardinality({"save"}) + 1
    BY <2>1, <2>2, FS_AddElement
  <2> QED BY <1>3, <2>1, <2>3
<1> HIDE DEF T
<1>5. T \in {{}, {"save"}, {"removal"}, {"save", "removal"}}
  BY <1>2
<1>6. Cardinality(T) = (IF here.save = "none" THEN 0 ELSE 1) + (IF here.removal = "none" THEN 0 ELSE 1)
  BY <1>2, <1>3, <1>4
<1> QED BY <1>6 DEF T

\* A read begins: whether it will be believed depends on those that are out.
LEMMA ReadStateKeeps ==
  ASSUME KeepsStores(here), NEW s \in StoresRecord, Stands(s), s.read = here.read,
         s.reads = here.reads, ReadsToCome(s) < MaxReads
  PROVE  KeepsStores(Stores!ReadState(s))
<1> DEFINE n == s.reads + 1  read == [s.read EXCEPT ![n].at = "out"]
           told == Stores!ReadsOut = {}  q == Stores!ReadState(s)
<1>1. n \in KeyReads /\ n \in Nat
  BY ClientConstants DEF ClientConstants, StoresRecord, KeyReads, ReadsToCome
<1>2. q = [s EXCEPT !.reads = n, !.read = read, !.told = told]
  BY DEF Stores!ReadState, StoresRecord
<1>3. /\ read \in [KeyReads -> KeyRead] /\ read[n].at = "out"
      /\ \A r \in KeyReads \ {n} : read[r] = s.read[r]
  BY <1>1 DEF StoresRecord, KeyRead
<1>4. told \in BOOLEAN /\ (told => \A r \in KeyReads : here.read[r].at = "none")
  BY DEF Stores!ReadsOut, Stores!S, Stores!Reads, KeyReads
<1>5. ReadsToCome(q) = ReadsToCome(s) + 1
  BY <1>1, <1>2 DEF ReadsToCome, StoresRecord
<1>6. ReadsToCome(s) \in Nat /\ MaxReads \in Nat
  BY ClientConstants DEF ClientConstants, StoresRecord, ReadsToCome
<1> HIDE DEF n, read, told, q
<1>7. q \in StoresRecord
  BY <1>1, <1>2, <1>3, <1>4, ZenonT(60) DEF StoresRecord
<1>8. Stands(q)
  BY <1>2 DEF StoresRecord, Stands
<1>9. Told(q)
  BY <1>1, <1>2, <1>3, <1>4 DEF StoresRecord, Told
<1>10. RoomToRead(q)
  BY <1>5, <1>6 DEF RoomToRead
<1>11. KeepsStores(q)
  BY <1>7, <1>8, <1>9, <1>10 DEF KeepsStores
<1> QED BY <1>11 DEF q

LEMMA KeySteps ==
  ASSUME KeepsStores(here), Stores!KeyNext PROVE KeepsStores(here')
<1> USE DEF Stores!S
<1>0. /\ here \in StoresRecord /\ Stands(here)
      /\ ReadsToCome(here) \in Nat /\ MaxReads \in Nat
      /\ Stores!CanRead => ReadsToCome(here) < MaxReads
  <2>1. here \in StoresRecord /\ Stands(here)
    BY DEF KeepsStores
  <2>2. ReadsToCome(here) \in Nat /\ MaxReads \in Nat
    BY <2>1, ClientConstants DEF ClientConstants, StoresRecord, ReadsToCome
  <2>3. Stores!CanRead => ReadsToCome(here) < MaxReads
    <3> DEFINE n == Cardinality({m \in {"save", "removal"} : here[m] # "none"})
    <3>1. n = (IF here.save = "none" THEN 0 ELSE 1) + (IF here.removal = "none" THEN 0 ELSE 1)
      BY <2>1, ReadsOutCounted
    <3>2. Stores!CanRead => here.reads + n < MaxReads
      BY DEF Stores!CanRead, Stores!Cardinality, Cardinality
    <3> HIDE DEF n
    <3>3. here.reads \in Nat
      BY <2>1 DEF StoresRecord
    <3> QED BY <3>1, <3>2, <3>3 DEF ReadsToCome
  <2> QED BY <2>1, <2>2, <2>3
<1>1. CASE Stores!HydrateKey
  BY <1>0, <1>1, ReadStateKeeps DEF Stores!HydrateKey
<1>2. ASSUME NEW r \in KeyReads, Stores!Taken(r) PROVE KeepsStores(here')
  <2>1. PICK failed \in BOOLEAN :
          here' = [here EXCEPT !.read[r] = [at |-> "taken", key |-> here.key,
                                            enabled |-> here.enabled, failed |-> failed]]
    BY <1>2 DEF Stores!Taken
  <2> DEFINE taken == [at |-> "taken", key |-> here.key, enabled |-> here.enabled, failed |-> failed]
             read == [here.read EXCEPT ![r] = taken]
  <2>2. here' = [here EXCEPT !.read = read]
    BY <2>1, <1>0 DEF StoresRecord
  <2>3. /\ taken \in KeyRead /\ taken.at = "taken" /\ taken.key = here.key
        /\ taken.enabled = here.enabled
    BY <1>0 DEF StoresRecord, KeyRead
  <2>4. here.read[r].at = "out"
    BY <1>2 DEF Stores!Taken
  <2> HIDE DEF taken
  <2>5. /\ read \in [KeyReads -> KeyRead] /\ read[r] = taken
        /\ \A x \in KeyReads \ {r} : read[x] = here.read[x]
    BY <1>0, <2>3 DEF StoresRecord
  <2> HIDE DEF read
  <2>6. here' \in StoresRecord
    BY <2>2, <2>3, <2>4, <2>5 DEF KeepsStores, StoresRecord
  <2>7. Stands(here')
    BY <2>2, <2>3, <2>4, <2>5 DEF KeepsStores, StoresRecord, Stands
  <2>8. Told(here')
    BY <2>2, <2>3, <2>4, <2>5 DEF KeepsStores, StoresRecord, Told
  <2>9. RoomToRead(here')
    BY <2>2, <2>3, <2>4, <2>5 DEF KeepsStores, StoresRecord, RoomToRead, ReadsToCome
  <2> QED BY <2>6, <2>7, <2>8, <2>9 DEF KeepsStores
<1>3. ASSUME NEW r \in KeyReads, Stores!Applied(r) PROVE KeepsStores(here')
  <2> DEFINE none == Stores!NoRead  read == [here.read EXCEPT ![r] = none]
             hasKey == here.read[r].key /\ ~here.read[r].failed
             realtime == here.read[r].enabled \/ here.read[r].failed
             told == here.told /\ ~here.read[r].failed
  <2>1. here' = [here EXCEPT !.read = read, !.hasKey = hasKey, !.realtime = realtime, !.told = told]
    BY <1>3, <1>0 DEF Stores!Applied, StoresRecord
  <2>2. none \in KeyRead /\ none.at = "none"
    BY DEF Stores!NoRead, KeyRead
  <2>3. here.read[r].at = "taken" /\ here.read[r] \in KeyRead
    BY <1>3, <1>0 DEF Stores!Applied, StoresRecord
  <2>4. /\ hasKey \in BOOLEAN /\ realtime \in BOOLEAN /\ told \in BOOLEAN
        /\ told => here.told /\ hasKey = here.read[r].key /\ realtime = here.read[r].enabled
    BY <1>0, <2>3 DEF StoresRecord, KeyRead
  <2> HIDE DEF none, hasKey, realtime, told
  <2>5. /\ read \in [KeyReads -> KeyRead] /\ read[r] = none
        /\ \A x \in KeyReads \ {r} : read[x] = here.read[x]
    BY <1>0, <2>2 DEF StoresRecord
  <2> HIDE DEF read
  <2>6. here' \in StoresRecord
    <3>1. hasKey \in BOOLEAN /\ realtime \in BOOLEAN /\ told \in BOOLEAN
      BY <2>4
    <3>2. read \in [KeyReads -> KeyRead]
      BY <2>5
    <3> QED BY <1>0, <2>1, <3>1, <3>2, ZenonT(60) DEF StoresRecord
  <2>7. Stands(here')
    BY <2>1, <2>2, <2>3, <2>4, <2>5 DEF KeepsStores, StoresRecord, Stands
  <2>8. Told(here')
    BY <2>1, <2>2, <2>3, <2>4, <2>5 DEF KeepsStores, StoresRecord, Told
  <2>9. RoomToRead(here')
    BY <2>1, <2>2, <2>3, <2>4, <2>5 DEF KeepsStores, StoresRecord, RoomToRead, ReadsToCome
  <2> QED BY <2>6, <2>7, <2>8, <2>9 DEF KeepsStores
<1>4. CASE Stores!SaveKey
  <2>1. here' = [here EXCEPT !.save = "checking"] /\ ReadsToCome(here) < MaxReads /\ here.save = "none"
    BY <1>0, <1>4 DEF Stores!SaveKey
  <2>2. here' \in StoresRecord
    BY <2>1, <1>0 DEF KeepsStores, StoresRecord
  <2>3. Stands(here')
    BY <2>1, <1>0 DEF KeepsStores, StoresRecord, Stands
  <2>4. Told(here')
    BY <2>1, <1>0 DEF KeepsStores, StoresRecord, Told
  <2>5. RoomToRead(here')
    BY <2>1, <1>0 DEF KeepsStores, StoresRecord, RoomToRead, ReadsToCome
  <2> QED BY <2>2, <2>3, <2>4, <2>5 DEF KeepsStores
<1>5. CASE Stores!KeyChecked
  <2>1. PICK next \in {"storing", "none"} : here' = [here EXCEPT !.save = next] /\ here.save = "checking"
    BY <1>5 DEF Stores!KeyChecked
  <2>2. here' \in StoresRecord
    BY <2>1, <1>0 DEF KeepsStores, StoresRecord
  <2>3. Stands(here')
    BY <2>1, <1>0 DEF KeepsStores, StoresRecord, Stands
  <2>4. Told(here')
    BY <2>1, <1>0 DEF KeepsStores, StoresRecord, Told
  <2>5. RoomToRead(here')
    BY <2>1, <1>0 DEF KeepsStores, StoresRecord, RoomToRead, ReadsToCome
  <2> QED BY <2>2, <2>3, <2>4, <2>5 DEF KeepsStores
<1>6. CASE Stores!KeyStored
  <2> DEFINE s == [here EXCEPT !.save = "none", !.key = TRUE]
  <2>1. \/ here' = Stores!ReadState(s)
        \/ here' = [here EXCEPT !.save = "none"]
    BY <1>6 DEF Stores!KeyStored
  <2>2. here.save = "storing"
    BY <1>6 DEF Stores!KeyStored
  <2>3. s = [here EXCEPT !.save = "none", !.key = TRUE]
    OBVIOUS
  <2> HIDE DEF s
  <2>4. CASE here' = Stores!ReadState(s)
    <3>1. s \in StoresRecord /\ s.read = here.read /\ s.reads = here.reads
      BY <1>0, <2>3, ZenonT(60) DEF StoresRecord
    <3>2. Stands(s)
      BY <1>0, <2>3 DEF StoresRecord, Stands
    <3>3. ReadsToCome(here) = ReadsToCome(s) + 1 /\ ReadsToCome(s) \in Nat
      BY <1>0, <2>2, <2>3 DEF StoresRecord, ReadsToCome
    <3>4. ReadsToCome(s) < MaxReads
      BY <1>0, <3>3 DEF KeepsStores, RoomToRead
    <3> QED BY <2>4, <3>1, <3>2, <3>4, ReadStateKeeps
  <2>5. CASE here' = [here EXCEPT !.save = "none"]
    <3>1. here' \in StoresRecord
      BY <2>5, <2>2, <1>0 DEF KeepsStores, StoresRecord
    <3>2. Stands(here')
      BY <2>5, <2>2, <1>0 DEF KeepsStores, StoresRecord, Stands
    <3>3. Told(here')
      BY <2>5, <2>2, <1>0 DEF KeepsStores, StoresRecord, Told
    <3>4. RoomToRead(here')
      BY <2>5, <2>2, <1>0 DEF KeepsStores, StoresRecord, RoomToRead, ReadsToCome
    <3> QED BY <3>1, <3>2, <3>3, <3>4 DEF KeepsStores
  <2> QED BY <2>1, <2>4, <2>5
<1>7. CASE Stores!RemoveKey
  <2>1. here' = [here EXCEPT !.removal = "out"] /\ ReadsToCome(here) < MaxReads /\ here.removal = "none"
    BY <1>0, <1>7 DEF Stores!RemoveKey
  <2>2. here' \in StoresRecord
    BY <2>1, <1>0 DEF KeepsStores, StoresRecord
  <2>3. Stands(here')
    BY <2>1, <1>0 DEF KeepsStores, StoresRecord, Stands
  <2>4. Told(here')
    BY <2>1, <1>0 DEF KeepsStores, StoresRecord, Told
  <2>5. RoomToRead(here')
    BY <2>1, <1>0 DEF KeepsStores, StoresRecord, RoomToRead, ReadsToCome
  <2> QED BY <2>2, <2>3, <2>4, <2>5 DEF KeepsStores
<1>8. CASE Stores!KeyRemoved
  <2> DEFINE s == [here EXCEPT !.removal = "none", !.key = FALSE]
  <2>1. \/ here' = Stores!ReadState(s)
        \/ here' = [here EXCEPT !.removal = "none"]
    BY <1>8 DEF Stores!KeyRemoved
  <2>2. here.removal = "out"
    BY <1>8 DEF Stores!KeyRemoved
  <2>3. s = [here EXCEPT !.removal = "none", !.key = FALSE]
    OBVIOUS
  <2> HIDE DEF s
  <2>4. CASE here' = Stores!ReadState(s)
    <3>1. s \in StoresRecord /\ s.read = here.read /\ s.reads = here.reads
      BY <1>0, <2>3, ZenonT(60) DEF StoresRecord
    <3>2. Stands(s)
      BY <1>0, <2>3 DEF StoresRecord, Stands
    <3>3. ReadsToCome(here) = ReadsToCome(s) + 1 /\ ReadsToCome(s) \in Nat
      BY <1>0, <2>2, <2>3 DEF StoresRecord, ReadsToCome
    <3>4. ReadsToCome(s) < MaxReads
      BY <1>0, <3>3 DEF KeepsStores, RoomToRead
    <3> QED BY <2>4, <3>1, <3>2, <3>4, ReadStateKeeps
  <2>5. CASE here' = [here EXCEPT !.removal = "none"]
    <3>1. here' \in StoresRecord
      BY <2>5, <2>2, <1>0 DEF KeepsStores, StoresRecord
    <3>2. Stands(here')
      BY <2>5, <2>2, <1>0 DEF KeepsStores, StoresRecord, Stands
    <3>3. Told(here')
      BY <2>5, <2>2, <1>0 DEF KeepsStores, StoresRecord, Told
    <3>4. RoomToRead(here')
      BY <2>5, <2>2, <1>0 DEF KeepsStores, StoresRecord, RoomToRead, ReadsToCome
    <3> QED BY <3>1, <3>2, <3>3, <3>4 DEF KeepsStores
  <2> QED BY <2>1, <2>4, <2>5
<1>9. CASE Stores!SetRealtimeEnabled
  <2>1. PICK ok \in BOOLEAN :
          here' = Stores!ReadState([here EXCEPT !.enabled = IF ok THEN ~@ ELSE @])
    BY <1>9 DEF Stores!SetRealtimeEnabled
  <2> DEFINE enabled == IF ok THEN ~here.enabled ELSE here.enabled
             s == [here EXCEPT !.enabled = enabled]
  <2>2. here' = Stores!ReadState(s)
    BY <2>1
  <2>3. enabled \in BOOLEAN
    BY <1>0 DEF StoresRecord
  <2> HIDE DEF enabled
  <2>4. s \in StoresRecord /\ s.read = here.read /\ s.reads = here.reads
    BY <1>0, <2>3 DEF StoresRecord
  <2>5. Stands(s)
    BY <1>0 DEF StoresRecord, Stands
  <2>6. ReadsToCome(s) = ReadsToCome(here)
    BY <1>0 DEF StoresRecord, ReadsToCome
  <2>7. ReadsToCome(s) < MaxReads
    BY <1>0, <1>9, <2>6 DEF Stores!SetRealtimeEnabled
  <2> HIDE DEF s
  <2> QED BY <2>2, <2>4, <2>5, <2>7, ReadStateKeeps
<1> QED BY <1>1, <1>2, <1>3, <1>4, <1>5, <1>6, <1>7, <1>8, <1>9
        DEF Stores!KeyNext, Stores!Reads, KeyReads

LEMMA StoresSteps == StoresInv /\ Stores!Next => StoresInv'
<1> SUFFICES ASSUME KeepsStores(here), Stores!Next PROVE KeepsStores(here')
  BY DEF StoresInv
<1> QED BY PreferenceSteps, KeySteps DEF Stores!Next

----------------------------------------------------------------------------
(* The updates (AppUpdates).                                               *)

Downloads == {"none", "transfer", "done", "sidecar"}
SheetPhases == {"idle", "checking", "up-to-date", "available", "downloading", "verifying",
                "ready", "error"}
Files == {"none", "good", "damaged", "short"}
Offers == [code : {0, 1, 2}, asset : {"ours", "foreign", "none"}, sidecar : {"ours", "none"}]

UpdatesRecord ==
  [phase : SheetPhases, trigger : {"auto", "manual"}, update : Offers, checks : Nat, asked : Nat,
   flow : Nat, of : Offers, orphans : Nat, at : Downloads, bytes : Files, file : Files,
   checked : BOOLEAN, auto : {"timer", "reading", "none"}, autoDone : BOOLEAN, autos : Nat,
   mounts : Nat, installer : {"none", "open"}, handed : SUBSET [bytes : Files, checked : BOOLEAN]]

\* What the installer was given so far.
HandedRight(u) == \A h \in u.handed : h.bytes = "good" \/ (h.bytes = "damaged" /\ ~h.checked)

\* A file of another size than the release said is never kept, and only the
\* released bytes are called checked.
FileIsSound(u) ==
  /\ u.file # "short" /\ (u.checked => u.file = "good")
  /\ u.at # "none" => ~u.checked
  /\ u.at = "done" => u.bytes # "none"
  /\ u.at = "sidecar" => u.file # "none"
  /\ HandedRight(u)

SheetIsTrue(u) ==
  /\ u.phase = "downloading" => u.at \in {"transfer", "done"}
  /\ u.phase = "verifying" => u.at = "sidecar"
  /\ u.phase = "ready" => u.file # "none"
  /\ u.phase = "checking" => u.checks > 0

AskedOnce(u) == u.autos = IF u.autoDone THEN 1 ELSE 0

KeepsUpdates(u) == u \in UpdatesRecord /\ FileIsSound(u) /\ SheetIsTrue(u) /\ AskedOnce(u)

UpdatesInv == KeepsUpdates(here)

LEMMA UpdateWords ==
  /\ "idle" \in SheetPhases /\ "checking" \in SheetPhases /\ "up-to-date" \in SheetPhases
  /\ "available" \in SheetPhases /\ "downloading" \in SheetPhases
  /\ "verifying" \in SheetPhases /\ "ready" \in SheetPhases /\ "error" \in SheetPhases
  /\ "none" \in Downloads /\ "transfer" \in Downloads /\ "done" \in Downloads
  /\ "sidecar" \in Downloads
  /\ "none" \in Files /\ "good" \in Files /\ "damaged" \in Files /\ "short" \in Files
  BY DEF SheetPhases, Downloads, Files

LEMMA UpdatesStart == Updates!Init => UpdatesInv
<1> SUFFICES ASSUME Updates!Init PROVE UpdatesInv
  OBVIOUS
<1>1. Updates!NoRelease \in Offers
  BY DEF Updates!NoRelease, Offers
<1>2. here = [phase |-> "idle", trigger |-> "auto", update |-> Updates!NoRelease, checks |-> 0,
              asked |-> 0, flow |-> 0, of |-> Updates!NoRelease, orphans |-> 0, at |-> "none",
              bytes |-> "none", file |-> "none", checked |-> FALSE, auto |-> "timer",
              autoDone |-> FALSE, autos |-> 0, mounts |-> 1, installer |-> "none", handed |-> {}]
  BY DEF Updates!Init, Updates!Fresh, Updates!NoFile
<1>3. here \in UpdatesRecord
  BY <1>1, <1>2, UpdateWords DEF UpdatesRecord
<1>4. FileIsSound(here) /\ SheetIsTrue(here) /\ AskedOnce(here)
  BY <1>2 DEF FileIsSound, HandedRight, SheetIsTrue, AskedOnce
<1> QED BY <1>3, <1>4 DEF UpdatesInv, KeepsUpdates

LEMMA UpdatesPromises ==
  UpdatesInv => /\ Updates!InstallerGetsTheRelease /\ Updates!SheetHasItsFlow
                /\ Updates!ChecksItselfOnce
  BY DEF UpdatesInv, KeepsUpdates, FileIsSound, HandedRight, SheetIsTrue, AskedOnce, Updates!U, Updates!NoFile,
         Updates!InstallerGetsTheRelease, Updates!SheetHasItsFlow, Updates!ChecksItselfOnce

\* A check that starts is counted, and the sheet waits for it.
LEMMA AskedKeeps ==
  ASSUME NEW u, KeepsUpdates(u), NEW trigger \in {"auto", "manual"}
  PROVE  KeepsUpdates(Updates!Asked(u, trigger)) /\ Updates!Asked(u, trigger).autos = u.autos
         /\ Updates!Asked(u, trigger).autoDone = u.autoDone
<1> DEFINE n == u.checks + 1  a == u.asked + 1  none == Updates!NoRelease
           q == Updates!Asked(u, trigger)
<1>1. n \in Nat /\ n > 0 /\ a \in Nat
  BY DEF KeepsUpdates, UpdatesRecord
<1>2. none \in Offers
  BY DEF Updates!NoRelease, Offers
<1>3. q = u \/ q = [u EXCEPT !.phase = "checking", !.trigger = trigger, !.update = none,
                             !.checks = n, !.asked = a]
  BY DEF Updates!Asked
<1> HIDE DEF n, a, none, q
<1>4. u \in UpdatesRecord
  BY DEF KeepsUpdates
<1>5. q.autos = u.autos /\ q.autoDone = u.autoDone
  BY <1>3, <1>4 DEF UpdatesRecord
<1>6. q \in UpdatesRecord
  BY <1>1, <1>2, <1>3, UpdateWords, ZenonT(60) DEF KeepsUpdates, UpdatesRecord
<1>7. FileIsSound(q)
  BY <1>1, <1>2, <1>3, ZenonT(60) DEF KeepsUpdates, UpdatesRecord, FileIsSound, HandedRight
<1>8. SheetIsTrue(q)
  BY <1>1, <1>2, <1>3, ZenonT(60) DEF KeepsUpdates, UpdatesRecord, SheetIsTrue
<1>9. AskedOnce(q)
  BY <1>1, <1>2, <1>3 DEF KeepsUpdates, UpdatesRecord, AskedOnce
<1>20. KeepsUpdates(q)
  BY <1>6, <1>7, <1>8, <1>9 DEF KeepsUpdates
<1> QED BY <1>5, <1>20 DEF q

\* A new number has no file, and what was under way is left to end by itself.
LEMMA AbandonedIs ==
  ASSUME NEW u \in UpdatesRecord, HandedRight(u), AskedOnce(u)
  PROVE  LET v == Updates!Abandoned(u)
         IN /\ v \in UpdatesRecord /\ FileIsSound(v) /\ AskedOnce(v)
            /\ v.at = "none" /\ v.phase = u.phase /\ v.checks = u.checks /\ v.orphans \in Nat
            /\ v.handed = u.handed /\ v.file = "none" /\ ~v.checked
<1> DEFINE n == u.flow + 1  m == IF u.at = "none" THEN u.orphans ELSE u.orphans + 1
           none == Updates!NoRelease  v == Updates!Abandoned(u)
<1>1. n \in Nat /\ m \in Nat
  BY DEF UpdatesRecord
<1>2. none \in Offers
  BY DEF Updates!NoRelease, Offers
<1>3. v = [u EXCEPT !.flow = n, !.orphans = m, !.at = "none", !.of = none,
                    !.bytes = "none", !.file = "none", !.checked = FALSE]
  BY DEF Updates!Abandoned, Updates!NoFile
<1> HIDE DEF n, m, none, v
<1>4. v \in UpdatesRecord
  BY <1>1, <1>2, <1>3, ZenonT(60) DEF UpdatesRecord, Downloads, Files
<1>5. /\ v.at = "none" /\ v.phase = u.phase /\ v.checks = u.checks /\ v.orphans \in Nat
      /\ v.handed = u.handed /\ v.file = "none" /\ ~v.checked
  BY <1>1, <1>3 DEF UpdatesRecord
<1>6. FileIsSound(v) /\ AskedOnce(v)
  BY <1>3 DEF UpdatesRecord, FileIsSound, HandedRight, AskedOnce
<1> QED BY <1>4, <1>5, <1>6 DEF v

\* A failure leaves no sheet that waits for a download.
LEMMA FailedKeeps ==
  ASSUME NEW u \in UpdatesRecord, FileIsSound(u), AskedOnce(u),
         u.phase = "checking" => u.checks > 0
  PROVE  KeepsUpdates(Updates!Failed(u))
<1> DEFINE none == Updates!NoRelease  q == Updates!Failed(u)
<1>2. none \in Offers
  BY DEF Updates!NoRelease, Offers
<1>3. \/ u.phase \notin {"downloading", "verifying", "ready", "available"} /\ q = u
      \/ q = [u EXCEPT !.phase = "error", !.update = none]
  BY DEF Updates!Failed
<1> HIDE DEF none, q
<1>4. q \in UpdatesRecord
  BY <1>2, <1>3, UpdateWords, ZenonT(60) DEF KeepsUpdates, UpdatesRecord
<1>5. FileIsSound(q)
  BY <1>2, <1>3, ZenonT(60) DEF KeepsUpdates, UpdatesRecord, FileIsSound, HandedRight
<1>6. SheetIsTrue(q)
  BY <1>2, <1>3, ZenonT(60) DEF KeepsUpdates, UpdatesRecord, SheetIsTrue
<1>7. AskedOnce(q)
  BY <1>2, <1>3 DEF KeepsUpdates, UpdatesRecord, AskedOnce
<1>20. KeepsUpdates(q)
  BY <1>4, <1>5, <1>6, <1>7 DEF KeepsUpdates
<1> QED BY <1>20 DEF q

\* The given-up download of a failure.
LEMMA GivenUpKeeps ==
  ASSUME NEW u \in UpdatesRecord, HandedRight(u), AskedOnce(u),
         u.phase = "checking" => u.checks > 0
  PROVE  KeepsUpdates(Updates!Failed(Updates!Abandoned(u)))
<1> DEFINE v == Updates!Abandoned(u)
<1>1. /\ v \in UpdatesRecord /\ FileIsSound(v) /\ AskedOnce(v)
      /\ v.phase = "checking" => v.checks > 0
  BY AbandonedIs
<1> HIDE DEF v
<1>2. KeepsUpdates(Updates!Failed(v))
  BY <1>1, FailedKeeps
<1> QED BY <1>2 DEF v

LEMMA UpdatesChecks ==
  ASSUME KeepsUpdates(here),
         \/ Updates!CheckNow \/ Updates!CheckFails \/ Updates!AutoTimer
         \/ \E release \in Updates!Releases : Updates!CheckCompletes(release)
         \/ \E enabled \in BOOLEAN : Updates!PreferenceRead(enabled)
  PROVE  KeepsUpdates(here')
<1> USE DEF Updates!U
<1>1. CASE Updates!CheckNow
  <2>1. here' = Updates!Asked(here, "manual")
    BY <1>1 DEF Updates!CheckNow
  <2> QED BY <2>1, AskedKeeps
<1>2. CASE Updates!CheckFails
  <2> DEFINE n == here.checks - 1  u == [here EXCEPT !.checks = n]
             next == IF u.trigger = "auto" THEN "idle" ELSE "error"
  <2>1. n \in Nat /\ next \in {"idle", "error"} /\ here.phase = u.phase
    BY <1>2 DEF Updates!CheckFails, KeepsUpdates, UpdatesRecord
  <2>2. here' = IF here.phase = "checking" THEN [here EXCEPT !.checks = n, !.phase = next]
                ELSE [here EXCEPT !.checks = n]
    BY <1>2, <2>1 DEF Updates!CheckFails, Updates!Moved
  <2> HIDE DEF n, u, next
  <2>3. here' \in UpdatesRecord
    BY <2>1, <2>2, UpdateWords, ZenonT(60) DEF KeepsUpdates, UpdatesRecord
  <2>4. FileIsSound(here')
    BY <2>1, <2>2 DEF KeepsUpdates, UpdatesRecord, FileIsSound, HandedRight
  <2>5. SheetIsTrue(here')
    BY <2>1, <2>2 DEF KeepsUpdates, UpdatesRecord, SheetIsTrue
  <2>6. AskedOnce(here')
    BY <2>1, <2>2 DEF KeepsUpdates, UpdatesRecord, AskedOnce
  <2> QED BY <2>3, <2>4, <2>5, <2>6 DEF KeepsUpdates
<1>3. CASE Updates!AutoTimer
  <2>1. here' = [here EXCEPT !.auto = "reading"]
    BY <1>3 DEF Updates!AutoTimer
  <2>3. here' \in UpdatesRecord
    BY <2>1 DEF KeepsUpdates, UpdatesRecord
  <2>4. FileIsSound(here')
    BY <2>1 DEF KeepsUpdates, UpdatesRecord, FileIsSound, HandedRight
  <2>5. SheetIsTrue(here')
    BY <2>1 DEF KeepsUpdates, UpdatesRecord, SheetIsTrue
  <2>6. AskedOnce(here')
    BY <2>1 DEF KeepsUpdates, UpdatesRecord, AskedOnce
  <2> QED BY <2>3, <2>4, <2>5, <2>6 DEF KeepsUpdates
<1>4. ASSUME NEW release \in Updates!Releases, Updates!CheckCompletes(release)
      PROVE  KeepsUpdates(here')
  <2> DEFINE n == here.checks - 1  u == [here EXCEPT !.checks = n]
             o == Updates!Outcome(release)
  <2>0. here.checks > 0
    BY <1>4 DEF Updates!CheckCompletes
  <2>00. n \in Nat
    BY <2>0 DEF KeepsUpdates, UpdatesRecord
  <2>1. here.phase = u.phase /\ release \in Offers
    BY <1>4 DEF KeepsUpdates, UpdatesRecord, Updates!Releases, Offers
  <2>2. o \in {"up-to-date", "available", "error"}
    BY DEF Updates!Outcome
  <2> DEFINE next == IF u.trigger = "auto" THEN "idle" ELSE o
  <2>3. IF u.phase # "checking" THEN here' = u
        ELSE IF o = "available" THEN here' = [u EXCEPT !.phase = "available", !.update = release]
        ELSE here' = [u EXCEPT !.phase = next]
    BY <1>4 DEF Updates!CheckCompletes
  <2>4. o = "available" \/ next \in {"idle", "up-to-date", "error"}
    BY <2>2
  <2> HIDE DEF o, next
  <2>10. \/ here.phase # "checking" /\ here' = [here EXCEPT !.checks = n]
         \/ here' = [here EXCEPT !.checks = n, !.phase = "available", !.update = release]
         \/ next \in {"idle", "up-to-date", "error"} /\ here' = [here EXCEPT !.checks = n, !.phase = next]
    BY <2>1, <2>3, <2>4
  <2> HIDE DEF n, u
  <2>11. next \in {"idle", "up-to-date", "error"} => next \in SheetPhases
    BY DEF SheetPhases
  <2>12. "available" \in SheetPhases
    BY DEF SheetPhases
  <2>13. here' \in UpdatesRecord
    <3>1. CASE here' = [here EXCEPT !.checks = n]
      BY <2>00, <3>1 DEF KeepsUpdates, UpdatesRecord
    <3>2. CASE here' = [here EXCEPT !.checks = n, !.phase = "available", !.update = release]
      BY <2>00, <2>1, <2>12, <3>2 DEF KeepsUpdates, UpdatesRecord
    <3>3. CASE next \in SheetPhases /\ here' = [here EXCEPT !.checks = n, !.phase = next]
      BY <2>00, <3>3, ZenonT(60) DEF KeepsUpdates, UpdatesRecord
    <3> QED BY <2>10, <2>11, <3>1, <3>2, <3>3
  <2>14. FileIsSound(here')
    BY <2>00, <2>1, <2>10, ZenonT(60) DEF KeepsUpdates, UpdatesRecord, FileIsSound, HandedRight
  <2>15. SheetIsTrue(here')
    BY <2>00, <2>1, <2>10, ZenonT(60) DEF KeepsUpdates, UpdatesRecord, SheetIsTrue
  <2>16. AskedOnce(here')
    BY <2>00, <2>1, <2>10 DEF KeepsUpdates, UpdatesRecord, AskedOnce
  <2> QED BY <2>13, <2>14, <2>15, <2>16 DEF KeepsUpdates
<1>5. ASSUME NEW enabled \in BOOLEAN, Updates!PreferenceRead(enabled) PROVE KeepsUpdates(here')
  <2>1. CASE here' = [here EXCEPT !.auto = "none"]
    <3>1. here' \in UpdatesRecord
      BY <2>1 DEF KeepsUpdates, UpdatesRecord
    <3>2. FileIsSound(here')
      BY <2>1 DEF KeepsUpdates, UpdatesRecord, FileIsSound, HandedRight
    <3>3. SheetIsTrue(here')
      BY <2>1 DEF KeepsUpdates, UpdatesRecord, SheetIsTrue
    <3>4. AskedOnce(here')
      BY <2>1 DEF KeepsUpdates, UpdatesRecord, AskedOnce
    <3> QED BY <3>1, <3>2, <3>3, <3>4 DEF KeepsUpdates
  <2>2. CASE ~here.autoDone /\ here' = [Updates!Asked(here, "auto") EXCEPT
                                          !.auto = "none", !.autos = @ + 1, !.autoDone = TRUE]
    <3> DEFINE q == Updates!Asked(here, "auto")  n == q.autos + 1
    <3>1. KeepsUpdates(q) /\ q.autos = here.autos /\ q.autoDone = here.autoDone
      BY AskedKeeps
    <3>2. n = 1
      BY <2>2, <3>1 DEF KeepsUpdates, AskedOnce
    <3>3. here' = [q EXCEPT !.auto = "none", !.autos = n, !.autoDone = TRUE]
      BY <2>2
    <3> HIDE DEF q, n
    <3>4. here' \in UpdatesRecord
      BY <3>1, <3>2, <3>3, ZenonT(60) DEF KeepsUpdates, UpdatesRecord
    <3>5. FileIsSound(here')
      BY <3>1, <3>2, <3>3 DEF KeepsUpdates, UpdatesRecord, FileIsSound, HandedRight
    <3>6. SheetIsTrue(here')
      BY <3>1, <3>2, <3>3 DEF KeepsUpdates, UpdatesRecord, SheetIsTrue
    <3>7. AskedOnce(here')
      BY <3>1, <3>2, <3>3 DEF KeepsUpdates, UpdatesRecord, AskedOnce
    <3> QED BY <3>4, <3>5, <3>6, <3>7 DEF KeepsUpdates
  <2> QED BY <1>5, <2>1, <2>2 DEF Updates!PreferenceRead
<1> QED BY <1>1, <1>2, <1>3, <1>4, <1>5

\* The installer is given what is there.
LEMMA HandedKeeps ==
  ASSUME NEW u, KeepsUpdates(u) PROVE KeepsUpdates(Updates!HandedOver(u))
<1> DEFINE h == [bytes |-> u.file, checked |-> u.checked]  all == u.handed \cup {h}
           q == Updates!HandedOver(u)
<1>1. u.file # "none" => h.bytes = "good" \/ (h.bytes = "damaged" /\ ~h.checked)
  BY DEF KeepsUpdates, UpdatesRecord, FileIsSound, Files
<1>2. all \in SUBSET [bytes : Files, checked : BOOLEAN]
  BY DEF KeepsUpdates, UpdatesRecord
<1>3. u.file # "none" => \A g \in all : g.bytes = "good" \/ (g.bytes = "damaged" /\ ~g.checked)
  BY <1>1 DEF KeepsUpdates, FileIsSound, HandedRight
<1>4. q = u \/ (u.file # "none" /\ q = [u EXCEPT !.installer = "open", !.handed = all])
  BY DEF Updates!HandedOver, Updates!NoFile
<1> HIDE DEF h, all, q
<1>5. q \in UpdatesRecord
  BY <1>2, <1>3, <1>4, ZenonT(60) DEF KeepsUpdates, UpdatesRecord
<1>6. FileIsSound(q)
  BY <1>2, <1>3, <1>4, ZenonT(60) DEF KeepsUpdates, UpdatesRecord, FileIsSound, HandedRight
<1>7. SheetIsTrue(q)
  BY <1>2, <1>3, <1>4, ZenonT(60) DEF KeepsUpdates, UpdatesRecord, SheetIsTrue
<1>8. AskedOnce(q)
  BY <1>2, <1>3, <1>4 DEF KeepsUpdates, UpdatesRecord, AskedOnce
<1>20. KeepsUpdates(q)
  BY <1>5, <1>6, <1>7, <1>8 DEF KeepsUpdates
<1> QED BY <1>20 DEF q

LEMMA UpdatesDownloads ==
  ASSUME KeepsUpdates(here),
         \/ Updates!Download \/ Updates!OrphanReturns \/ Updates!StreamTooLong
         \/ Updates!DownloadFails \/ Updates!Continued \/ Updates!Verified
         \/ \E bytes \in {"good", "damaged", "short"} : Updates!Transferred(bytes)
  PROVE  KeepsUpdates(here')
<1> USE DEF Updates!U, Updates!NoFile
<1>0. /\ here \in UpdatesRecord /\ FileIsSound(here) /\ HandedRight(here) /\ AskedOnce(here)
      /\ here.phase = "checking" => here.checks > 0
  BY DEF KeepsUpdates, SheetIsTrue, FileIsSound
<1>1. CASE Updates!Download
  <2> DEFINE v == Updates!Abandoned(here)
             u == [v EXCEPT !.at = "transfer", !.of = here.update]
  <2>1. v \in UpdatesRecord /\ FileIsSound(v) /\ AskedOnce(v) /\ v.phase = "available" /\ ~v.checked
        /\ here.update \in Offers
    BY <1>0, <1>1, AbandonedIs DEF Updates!Download, UpdatesRecord
  <2> HIDE DEF v
  <2>2. u.phase = "available"
    BY <2>1 DEF UpdatesRecord
  <2>3. here' = [v EXCEPT !.at = "transfer", !.of = here.update, !.phase = "downloading"]
    BY <1>1, <2>2 DEF Updates!Download, Updates!Moved, v
  <2>4. here' \in UpdatesRecord
    BY <2>1, <2>3, UpdateWords DEF KeepsUpdates, UpdatesRecord
  <2>5. FileIsSound(here')
    BY <2>1, <2>3 DEF KeepsUpdates, UpdatesRecord, FileIsSound, HandedRight
  <2>6. SheetIsTrue(here')
    BY <2>1, <2>3 DEF KeepsUpdates, UpdatesRecord, SheetIsTrue
  <2>7. AskedOnce(here')
    BY <2>1, <2>3 DEF KeepsUpdates, UpdatesRecord, AskedOnce
  <2> QED BY <2>4, <2>5, <2>6, <2>7 DEF KeepsUpdates
<1>2. CASE Updates!OrphanReturns
  <2> DEFINE n == here.orphans - 1
  <2>1. n \in Nat
    BY <1>2 DEF Updates!OrphanReturns, KeepsUpdates, UpdatesRecord
  <2>2. here' = [here EXCEPT !.orphans = n]
    BY <1>2 DEF Updates!OrphanReturns
  <2> HIDE DEF n
  <2>3. here' \in UpdatesRecord
    BY <2>1, <2>2 DEF KeepsUpdates, UpdatesRecord
  <2>4. FileIsSound(here')
    BY <2>1, <2>2 DEF KeepsUpdates, UpdatesRecord, FileIsSound, HandedRight
  <2>5. SheetIsTrue(here')
    BY <2>1, <2>2 DEF KeepsUpdates, UpdatesRecord, SheetIsTrue
  <2>6. AskedOnce(here')
    BY <2>1, <2>2 DEF KeepsUpdates, UpdatesRecord, AskedOnce
  <2> QED BY <2>3, <2>4, <2>5, <2>6 DEF KeepsUpdates
<1>3. CASE Updates!StreamTooLong \/ Updates!DownloadFails
  <2>1. here' = Updates!Failed(Updates!Abandoned(here))
    BY <1>3 DEF Updates!StreamTooLong, Updates!DownloadFails
  <2> QED BY <1>0, <2>1, GivenUpKeeps
<1>4. CASE Updates!Continued
  <2> DEFINE w == [here EXCEPT !.file = here.bytes]
             u == Updates!Moved(w, "downloading", "verifying")
  <2>1. here.at = "done" /\ here.bytes \in Files /\ here.bytes # "none"
    BY <1>4 DEF Updates!Continued, KeepsUpdates, UpdatesRecord, FileIsSound
  <2>2. u = IF here.phase = "downloading" THEN [here EXCEPT !.file = here.bytes, !.phase = "verifying"]
            ELSE [here EXCEPT !.file = here.bytes]
    BY <1>0 DEF Updates!Moved, UpdatesRecord
  <2>3. here' = IF u.bytes = "short" THEN Updates!Failed(Updates!Abandoned(u)) ELSE [u EXCEPT !.at = "sidecar"]
    BY <1>4 DEF Updates!Continued
  <2> HIDE DEF w, u
  <2>4. CASE here.bytes = "short"
    <3>1. u.bytes = "short"
      BY <2>2, <2>4, <1>0 DEF UpdatesRecord
    <3>2. u \in UpdatesRecord
      BY <2>1, <2>2, <1>0, UpdateWords, ZenonT(60) DEF UpdatesRecord
    <3>3. HandedRight(u) /\ AskedOnce(u)
      BY <2>2, <1>0 DEF UpdatesRecord, HandedRight, FileIsSound, AskedOnce
    <3>4. u.phase = "checking" => u.checks > 0
      BY <2>2, <1>0 DEF UpdatesRecord
    <3>5. here' = Updates!Failed(Updates!Abandoned(u))
      BY <2>3, <3>1
    <3> QED BY <3>2, <3>3, <3>4, <3>5, GivenUpKeeps
  <2>5. CASE here.bytes # "short"
    <3>1. u.bytes # "short"
      BY <2>2, <2>5, <1>0 DEF UpdatesRecord
    <3>2. here' = [u EXCEPT !.at = "sidecar"]
      BY <2>3, <3>1
    <3>3. here' = IF here.phase = "downloading"
                  THEN [here EXCEPT !.file = here.bytes, !.phase = "verifying", !.at = "sidecar"]
                  ELSE [here EXCEPT !.file = here.bytes, !.at = "sidecar"]
      BY <2>2, <3>2
    <3>4. here' \in UpdatesRecord
      BY <2>1, <2>5, <3>3, UpdateWords, ZenonT(60) DEF KeepsUpdates, UpdatesRecord
    <3>5. FileIsSound(here')
      BY <2>1, <2>5, <3>3 DEF KeepsUpdates, UpdatesRecord, FileIsSound, HandedRight
    <3>6. SheetIsTrue(here')
      BY <2>1, <2>5, <3>3 DEF KeepsUpdates, UpdatesRecord, SheetIsTrue
    <3>7. AskedOnce(here')
      BY <2>1, <2>5, <3>3 DEF KeepsUpdates, UpdatesRecord, AskedOnce
    <3> QED BY <3>4, <3>5, <3>6, <3>7 DEF KeepsUpdates
  <2> QED BY <2>4, <2>5
<1>5. CASE Updates!Verified
  <2> DEFINE sidecar == here.of.sidecar = "ours"
             w == [here EXCEPT !.at = "none", !.checked = sidecar]
             u == Updates!Moved(w, "verifying", "ready")
  <2>1. here.at = "sidecar" /\ here.file # "none" /\ sidecar \in BOOLEAN
    BY <1>5, <1>0 DEF Updates!Verified, FileIsSound
  <2>2. IF sidecar /\ here.file # "good" THEN here' = Updates!Failed(Updates!Abandoned(here))
        ELSE here' = Updates!HandedOver(u)
    BY <1>5 DEF Updates!Verified
  <2>3. w.phase = here.phase
    BY <1>0 DEF UpdatesRecord
  <2>4. u = IF here.phase = "verifying" THEN [here EXCEPT !.at = "none", !.checked = sidecar, !.phase = "ready"]
            ELSE [here EXCEPT !.at = "none", !.checked = sidecar]
    BY <2>3 DEF Updates!Moved
  <2> HIDE DEF sidecar, w, u
  <2>5. CASE sidecar /\ here.file # "good"
    BY <1>0, <2>2, <2>5, GivenUpKeeps
  <2>6. CASE ~(sidecar /\ here.file # "good")
    <3>1. u \in UpdatesRecord
      BY <2>1, <2>4, <2>6, UpdateWords, ZenonT(60) DEF KeepsUpdates, UpdatesRecord
    <3>2. FileIsSound(u)
      BY <2>1, <2>4, <2>6 DEF KeepsUpdates, UpdatesRecord, FileIsSound, HandedRight
    <3>3. SheetIsTrue(u)
      BY <2>1, <2>4, <2>6 DEF KeepsUpdates, UpdatesRecord, SheetIsTrue
    <3>4. AskedOnce(u)
      BY <2>1, <2>4, <2>6 DEF KeepsUpdates, UpdatesRecord, AskedOnce
    <3>20. KeepsUpdates(u)
      BY <3>1, <3>2, <3>3, <3>4 DEF KeepsUpdates
    <3>21. here' = Updates!HandedOver(u)
      BY <2>2, <2>6
    <3> QED BY <3>20, <3>21, HandedKeeps
  <2> QED BY <2>5, <2>6
<1>6. ASSUME NEW bytes \in {"good", "damaged", "short"}, Updates!Transferred(bytes)
      PROVE  KeepsUpdates(here')
  <2>1. here' = [here EXCEPT !.at = "done", !.bytes = bytes] /\ here.at = "transfer"
        /\ bytes \in Files /\ bytes # "none"
    BY <1>6 DEF Updates!Transferred, Files
  <2>3. here' \in UpdatesRecord
    BY <2>1 DEF KeepsUpdates, UpdatesRecord, Downloads
  <2>4. FileIsSound(here')
    BY <2>1 DEF KeepsUpdates, UpdatesRecord, FileIsSound, HandedRight
  <2>5. SheetIsTrue(here')
    BY <2>1 DEF KeepsUpdates, UpdatesRecord, SheetIsTrue
  <2>6. AskedOnce(here')
    BY <2>1 DEF KeepsUpdates, UpdatesRecord, AskedOnce
  <2> QED BY <2>3, <2>4, <2>5, <2>6 DEF KeepsUpdates
<1> QED BY <1>1, <1>2, <1>3, <1>4, <1>5, <1>6

LEMMA UpdatesInstalls ==
  ASSUME KeepsUpdates(here),
         \/ Updates!Install \/ Updates!InstallerCloses \/ Updates!InstallerFails
         \/ Updates!Dismiss \/ Updates!Remount
  PROVE  KeepsUpdates(here')
<1> USE DEF Updates!U
<1>0. /\ here \in UpdatesRecord /\ FileIsSound(here) /\ HandedRight(here) /\ AskedOnce(here)
      /\ here.phase = "checking" => here.checks > 0
  BY DEF KeepsUpdates, SheetIsTrue, FileIsSound
<1>1. CASE Updates!Install
  BY <1>1, HandedKeeps DEF Updates!Install
<1>2. CASE Updates!InstallerCloses
  <2>1. here' = [here EXCEPT !.installer = "none"]
    BY <1>2 DEF Updates!InstallerCloses
  <2>3. here' \in UpdatesRecord
    BY <2>1 DEF KeepsUpdates, UpdatesRecord
  <2>4. FileIsSound(here')
    BY <2>1 DEF KeepsUpdates, UpdatesRecord, FileIsSound, HandedRight
  <2>5. SheetIsTrue(here')
    BY <2>1 DEF KeepsUpdates, UpdatesRecord, SheetIsTrue
  <2>6. AskedOnce(here')
    BY <2>1 DEF KeepsUpdates, UpdatesRecord, AskedOnce
  <2> QED BY <2>3, <2>4, <2>5, <2>6 DEF KeepsUpdates
<1>3. CASE Updates!InstallerFails
  <2> DEFINE u == [here EXCEPT !.installer = "none"]
  <2>1. u \in UpdatesRecord /\ (u.phase = "checking" => u.checks > 0)
    BY <1>0 DEF UpdatesRecord
  <2>2. FileIsSound(u) /\ AskedOnce(u)
    BY <1>0 DEF UpdatesRecord, FileIsSound, HandedRight, AskedOnce
  <2>3. here' = Updates!Failed(u)
    BY <1>3 DEF Updates!InstallerFails
  <2> HIDE DEF u
  <2> QED BY <2>1, <2>2, <2>3, FailedKeeps
<1>4. CASE Updates!Dismiss
  <2> DEFINE v == Updates!Abandoned(here)  none == Updates!NoRelease
  <2>1. v \in UpdatesRecord /\ FileIsSound(v) /\ AskedOnce(v)
    BY <1>0, AbandonedIs
  <2>2. here' = [v EXCEPT !.phase = "idle", !.update = none]
    BY <1>4 DEF Updates!Dismiss
  <2>3. none \in Offers
    BY DEF Updates!NoRelease, Offers
  <2> HIDE DEF v, none
  <2>4. here' \in UpdatesRecord
    BY <2>1, <2>2, <2>3, UpdateWords DEF KeepsUpdates, UpdatesRecord
  <2>5. FileIsSound(here')
    BY <2>1, <2>2, <2>3 DEF KeepsUpdates, UpdatesRecord, FileIsSound, HandedRight
  <2>6. SheetIsTrue(here')
    BY <2>1, <2>2, <2>3 DEF KeepsUpdates, UpdatesRecord, SheetIsTrue
  <2>7. AskedOnce(here')
    BY <2>1, <2>2, <2>3 DEF KeepsUpdates, UpdatesRecord, AskedOnce
  <2> QED BY <2>4, <2>5, <2>6, <2>7 DEF KeepsUpdates
<1>5. CASE Updates!Remount
  <2> DEFINE auto == IF here.autoDone THEN "none" ELSE "timer"  flow == here.flow + 1
             orphans == Updates!Abandoned(here).orphans  mounts == here.mounts + 1
             none == Updates!NoRelease
  <2>1. flow \in Nat /\ mounts \in Nat
    BY <1>0 DEF UpdatesRecord
  <2>2. orphans \in Nat
    BY <1>0, AbandonedIs
  <2>3. none \in Offers /\ auto \in {"timer", "reading", "none"}
    BY DEF Updates!NoRelease, Offers
  <2>4. here' = [phase |-> "idle", trigger |-> "auto", update |-> none, checks |-> 0,
                 asked |-> here.asked, flow |-> flow, of |-> none, orphans |-> orphans,
                 at |-> "none", bytes |-> "none", file |-> "none", checked |-> FALSE, auto |-> auto,
                 autoDone |-> here.autoDone, autos |-> here.autos, mounts |-> mounts,
                 installer |-> "none", handed |-> here.handed]
    BY <1>5, ZenonT(60) DEF Updates!Remount, Updates!Fresh, Updates!NoFile
  <2> HIDE DEF auto, flow, orphans, mounts, none
  <2>5. here' \in UpdatesRecord
    BY <1>0, <2>1, <2>2, <2>3, <2>4, UpdateWords DEF KeepsUpdates, UpdatesRecord
  <2>6. FileIsSound(here')
    BY <1>0, <2>1, <2>2, <2>3, <2>4, UpdateWords DEF KeepsUpdates, UpdatesRecord, FileIsSound, HandedRight
  <2>7. SheetIsTrue(here')
    BY <1>0, <2>1, <2>2, <2>3, <2>4 DEF KeepsUpdates, UpdatesRecord, SheetIsTrue, SheetPhases, Downloads, Files
  <2>8. AskedOnce(here')
    BY <1>0, <2>1, <2>2, <2>3, <2>4, UpdateWords DEF KeepsUpdates, UpdatesRecord, AskedOnce
  <2> QED BY <2>5, <2>6, <2>7, <2>8 DEF KeepsUpdates
<1> QED BY <1>1, <1>2, <1>3, <1>4, <1>5

LEMMA UpdatesSteps == UpdatesInv /\ Updates!Next => UpdatesInv'
<1> SUFFICES ASSUME KeepsUpdates(here), Updates!Next PROVE KeepsUpdates(here')
  BY DEF UpdatesInv
<1> QED BY UpdatesChecks, UpdatesDownloads, UpdatesInstalls DEF Updates!Next

----------------------------------------------------------------------------
(* All of them, in the specification of the run.                           *)

CredentialsInv ==
  /\ component = "account" => AccountInv
  /\ component = "access" => AccessInv

LEMMA CredentialsHold ==
  /\ ClientInit => CredentialsInv
  /\ CredentialsInv /\ [ClientNext]_clientVars => CredentialsInv'
  /\ CredentialsInv => CredentialsKept
<1>1. ClientInit => CredentialsInv
  BY AccountStarts, AccessStarts DEF ClientInit, CredentialsInv
<1>2. CredentialsInv /\ ClientNext => CredentialsInv'
  <2> SUFFICES ASSUME CredentialsInv, ClientNext PROVE CredentialsInv'
    OBVIOUS
  <2>1. CASE Alone("account") /\ Account!Next
    BY <2>1, AccountSteps DEF Alone, CredentialsInv
  <2>2. CASE Alone("access") /\ Access!Next
    BY <2>2, AccessSteps DEF Alone, CredentialsInv
  <2>3. CASE component \notin {"account", "access"} /\ component' = component
    BY <2>3 DEF CredentialsInv
  <2>4. \/ Alone("account") /\ Account!Next
        \/ Alone("access") /\ Access!Next
        \/ component \notin {"account", "access"} /\ component' = component
    BY DEF ClientNext, Alone
  <2> QED BY <2>1, <2>2, <2>3, <2>4
<1>3. CredentialsInv /\ UNCHANGED clientVars => CredentialsInv'
  BY DEF CredentialsInv, clientVars, AccountInv, AccessInv
<1>4. CredentialsInv => CredentialsKept
  BY AccountPromises, AccessPromises DEF CredentialsInv, CredentialsKept
<1> QED BY <1>1, <1>2, <1>3, <1>4

\* For any users, operations, requests and rotations: what is shown, stored, cached
\* and used as the client is one user's; a disconnected app has forgotten; the newest
\* token pair is kept unless it was lost on its way; and no ticket is shown twice
\* (connection-provider.tsx, gateway-client.ts: harvestTokens, openSocket).
THEOREM OneUsersCredentials == ClientSpec => []CredentialsKept
<1>1. ClientInit => CredentialsInv
  BY CredentialsHold
<1>2. CredentialsInv /\ [ClientNext]_clientVars => CredentialsInv'
  BY CredentialsHold
<1>3. CredentialsInv => CredentialsKept
  BY CredentialsHold
<1> QED BY <1>1, <1>2, <1>3, PTL DEF ClientSpec

----------------------------------------------------------------------------
ChoicesInv ==
  /\ component = "stores" => StoresInv
  /\ component = "channel" => ChannelInv
  /\ component = "draft" => DraftInv
  /\ component = "picker" => PickerInv
  /\ component = "updates" => UpdatesInv

Choosing == {"stores", "channel", "draft", "picker", "updates"}

LEMMA ChoicesHold ==
  /\ ClientInit => ChoicesInv
  /\ ChoicesInv /\ [ClientNext]_clientVars => ChoicesInv'
  /\ ChoicesInv => ChoicesKept
<1>1. ClientInit => ChoicesInv
  <2> SUFFICES ASSUME ClientInit PROVE ChoicesInv
    OBVIOUS
  <2>1. component = "stores" => StoresInv
    BY StoresStart DEF ClientInit
  <2>2. component = "channel" => ChannelInv
    BY ClientConstants, ChannelStarts DEF ClientInit
  <2>3. component = "draft" => DraftInv
    BY ClientConstants, DraftStarts DEF ClientInit
  <2>4. component = "picker" => PickerInv
    BY PickerStarts DEF ClientInit
  <2>5. component = "updates" => UpdatesInv
    BY UpdatesStart DEF ClientInit
  <2> QED BY <2>1, <2>2, <2>3, <2>4, <2>5 DEF ChoicesInv
<1>2. ChoicesInv /\ ClientNext => ChoicesInv'
  <2> SUFFICES ASSUME ChoicesInv, ClientNext PROVE ChoicesInv'
    OBVIOUS
  <2>1. CASE Alone("stores") /\ Stores!Next
    BY <2>1, StoresSteps DEF Alone, ChoicesInv
  <2>2. CASE Alone("channel") /\ Channel!Next
    BY <2>2, ClientConstants, ChannelSteps DEF Alone, ChoicesInv
  <2>3. CASE Alone("draft") /\ Draft!Next
    BY <2>3, ClientConstants, DraftSteps DEF Alone, ChoicesInv
  <2>4. CASE Alone("picker") /\ Picker!Next
    BY <2>4, PickerSteps DEF Alone, ChoicesInv
  <2>5. CASE Alone("updates") /\ Updates!Next
    BY <2>5, UpdatesSteps DEF Alone, ChoicesInv
  <2>6. CASE component \notin Choosing /\ component' = component
    BY <2>6 DEF ChoicesInv, Choosing
  <2>7. \/ Alone("stores") /\ Stores!Next
        \/ Alone("channel") /\ Channel!Next
        \/ Alone("draft") /\ Draft!Next
        \/ Alone("picker") /\ Picker!Next
        \/ Alone("updates") /\ Updates!Next
        \/ component \notin Choosing /\ component' = component
    BY DEF ClientNext, Alone, Choosing
  <2> QED BY <2>1, <2>2, <2>3, <2>4, <2>5, <2>6, <2>7
<1>3. ChoicesInv /\ UNCHANGED clientVars => ChoicesInv'
  BY DEF ChoicesInv, clientVars, StoresInv, ChannelInv, DraftInv, PickerInv, UpdatesInv
<1>4. ChoicesInv => ChoicesKept
  BY StoresPromises, ChannelPromises, DraftPromises, PickerPromises, UpdatesPromises
     DEF ChoicesInv, ChoicesKept
<1> QED BY <1>1, <1>2, <1>3, <1>4

\* For any words, picks, values, sessions, operations and switches: a setting and a
\* key read what was last set and say so; a turn's corrections have the channel that
\* is open, a pick reaches the session it was made for, one draft becomes one session
\* and no running turn is deleted; no word of a draft vanishes or is sent twice; a
\* dear model has its consent and the pill tells the gateway; and the installer is
\* given the release that was offered (preference-store.ts, gateway-client.ts,
\* composer/index.tsx, use-model-picker.ts, app-update-provider.tsx).
THEOREM UsersChoicesStand == ClientSpec => []ChoicesKept
<1>1. ClientInit => ChoicesInv
  BY ChoicesHold
<1>2. ChoicesInv /\ [ClientNext]_clientVars => ChoicesInv'
  BY ChoicesHold
<1>3. ChoicesInv => ChoicesKept
  BY ChoicesHold
<1> QED BY <1>1, <1>2, <1>3, PTL DEF ClientSpec
=============================================================================
