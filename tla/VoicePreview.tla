---------------------------- MODULE VoicePreview ----------------------------
(***************************************************************************)
(* Hearing a Realtime voice before it is chosen: the hook                  *)
(* (src/features/realtime/use-voice-preview.ts), one request after the     *)
(* other, and the sampler's socket                                         *)
(* (src/services/realtime/openai-realtime-voice-sampler.ts) that collects  *)
(* a short sample.  Each request asks for one voice; samples are cached.   *)
(***************************************************************************)
EXTENDS Naturals, FiniteSets

CONSTANTS Voices, MaxRequests, MaxSample

VARIABLE preview

P == preview

NoSample == [socket |-> "none", chunks |-> 0]
NoCall == [at |-> "none", voice |-> 0, aborted |-> FALSE, sample |-> NoSample, cached |-> FALSE]

Init ==
  preview = [request |-> 0, calls |-> [r \in 1..MaxRequests |-> NoCall], cache |-> {},
             player |-> 0, sounding |-> {}, status |-> "idle", mounted |-> TRUE]

\* settle() of the sampler: timer and listeners dropped, socket closed.
Settled(p, r) == [p EXCEPT !.calls[r].sample.socket = IF @ = "none" THEN @ ELSE "closed"]

Released(p) == [p EXCEPT !.sounding = @ \ {p.player}, !.player = 0]

\* The abort reaches a sample under way at once and rejects its promise.
AbortCurrent(p) ==
  LET r == p.request
  IN IF r = 0 \/ p.calls[r].at \in {"none", "over", "playing"} THEN p
     ELSE [Settled(p, r) EXCEPT !.calls[r].aborted = TRUE,
             !.calls[r].at = IF @ = "sample" THEN "rejected" ELSE @]

\* The catch of play(): only the current request shows or releases anything.
Caught(p, r, status) ==
  IF r # p.request THEN [p EXCEPT !.calls[r].at = "over"]
  ELSE [Released(p) EXCEPT !.calls[r].at = "over", !.status = status]

Play(v) ==
  /\ P.mounted /\ P.request < MaxRequests
  /\ LET r == P.request + 1
         p == [Released(AbortCurrent(P)) EXCEPT !.request = r, !.status = "loading"]
     IN preview' = [p EXCEPT !.calls[r] = [NoCall EXCEPT
                      !.voice = v, !.cached = v \in P.cache,
                      !.at = IF v \in P.cache THEN "mode" ELSE "key"]]

Stop ==
  /\ P.mounted /\ P.request > 0 /\ P.request < MaxRequests
  /\ preview' = [Released(AbortCurrent(P)) EXCEPT !.request = @ + 1, !.status = "idle"]

Unmount ==
  /\ P.mounted /\ P.request < MaxRequests
  /\ preview' = [Released(AbortCurrent(P)) EXCEPT !.request = @ + 1, !.mounted = FALSE]

\* The key is loaded (or missing, or unreadable); a request that is still
\* current opens the sampler's socket.
KeyLoaded(r) ==
  /\ P.calls[r].at = "key"
  /\ \/ preview' = Caught(P, r, "error")
     \/ r # P.request /\ preview' = [P EXCEPT !.calls[r].at = "over"]
     \/ r = P.request /\ preview' = [P EXCEPT !.calls[r].at = "sample",
                                              !.calls[r].sample.socket = "connecting"]

\* The sampler settles first, its promise continues later: until then the
\* call is "sampled" or "rejected".
Sampling(r) == P.calls[r].at = "sample"

SocketOpens(r) ==
  /\ Sampling(r) /\ P.calls[r].sample.socket = "connecting"
  /\ preview' = [P EXCEPT !.calls[r].sample.socket = "open"]

\* Closed, failed, timed out, an invalid event, or a send that throws.
SampleFails(r) ==
  Sampling(r) /\ preview' = [Settled(P, r) EXCEPT !.calls[r].at = "rejected"]

AudioDelta(r) ==
  /\ Sampling(r) /\ P.calls[r].sample.socket = "open"
  /\ LET p == [P EXCEPT !.calls[r].sample.chunks = @ + 1]
     IN preview' = IF p.calls[r].sample.chunks > MaxSample
                     THEN [Settled(p, r) EXCEPT !.calls[r].at = "rejected"] ELSE p

\* response.done: completed with audio, or not.
ResponseDone(r) ==
  /\ Sampling(r) /\ P.calls[r].sample.socket = "open"
  /\ \/ preview' = [Settled(P, r) EXCEPT !.calls[r].at = "rejected"]
     \/ /\ P.calls[r].sample.chunks > 0
        /\ preview' = [Settled(P, r) EXCEPT !.calls[r].at = "sampled"]

Continues(r) ==
  \/ /\ P.calls[r].at = "sampled"
     /\ preview' = IF r # P.request THEN [P EXCEPT !.calls[r].at = "over"]
                   ELSE [P EXCEPT !.cache = @ \cup {P.calls[r].voice}, !.calls[r].at = "mode"]
  \/ /\ P.calls[r].at = "rejected"
     /\ preview' = Caught(P, r, IF P.calls[r].aborted THEN "idle" ELSE "error")

\* The request is looked at again after the audio mode was switched.
ModeSwitched(r) ==
  /\ P.calls[r].at = "mode"
  /\ \/ preview' = Caught(P, r, "error")
     \/ r # P.request /\ preview' = [P EXCEPT !.calls[r].at = "over"]
     \/ r = P.request /\ preview' = [P EXCEPT !.calls[r].at = "playing", !.player = r,
                                       !.sounding = @ \cup {r}, !.status = "playing"]

Finished(r) ==
  /\ r \in P.sounding
  /\ preview' = IF r = P.request /\ P.player = r
                  THEN [Released(P) EXCEPT !.status = "idle", !.calls[r].at = "over"]
                  ELSE P

Next ==
  \/ (\E v \in Voices : Play(v)) \/ Stop \/ Unmount
  \/ \E r \in 1..MaxRequests :
       \/ KeyLoaded(r) \/ SocketOpens(r) \/ SampleFails(r) \/ AudioDelta(r)
       \/ ResponseDone(r) \/ Continues(r) \/ ModeSwitched(r) \/ Finished(r)

Spec == Init /\ [][Next]_preview
----------------------------------------------------------------------------
(* One preview at a time: only the latest request sounds, and nothing      *)
(* sounds after the screen is gone.                                        *)
OnePreviewSounds ==
  P.sounding \subseteq {P.player} /\ P.player \in {0, P.request} /\ (~P.mounted => P.sounding = {})

(* A superseded request holds no provider socket: its sample is paid for   *)
(* no longer than the user waits for it.                                   *)
OneSampleAtATime ==
  \A r \in 1..MaxRequests : P.calls[r].sample.socket \in {"connecting", "open"} => r = P.request

(* The row that loads or plays is the one the latest request stands for.   *)
StatusTellsTheRequest ==
  /\ P.status = "playing" /\ P.mounted => P.player # 0
  /\ P.status = "loading" /\ P.mounted => P.calls[P.request].at \in {"key", "sample", "sampled", "rejected", "mode"}
=============================================================================
