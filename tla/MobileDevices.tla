--------------------------- MODULE MobileDevices ---------------------------
(***************************************************************************)
(* How the mobile agent finds the device it works on (discovery/ios.ts,    *)
(* discovery/android.ts, doctor.ts), says what it is capable of            *)
(* (capabilities.ts) and reads its native log (native-logs.ts): a listing, *)
(* a probe of each device, a choice, a process, a log, each a command that *)
(* takes its time while devices start and stop and Wave is installed,      *)
(* launched and killed.                                                    *)
(***************************************************************************)
EXTENDS Naturals, FiniteSets

CONSTANTS Devices, MaxInstalls, MaxProcesses

VARIABLE devices
D == devices

NoProcess == [pid |-> 0, device |-> 0, container |-> 0]
NoCall == [at |-> "none", what |-> "logs", online |-> {}, probed |-> {}, app |-> [d \in Devices |-> 0],
           running |-> {}, device |-> 0, process |-> NoProcess]

\* configured: MOBILE_AGENT_IOS_UDID or _ANDROID_SERIAL, 0 for none; on: booted or
\* online; app: the container of the installed app, 0 for none; processes: of Wave;
\* was: what has been true since a call for a device began.
Init ==
  \E platform \in {"ios", "android"}, configured \in Devices \cup {0} :
    devices = [platform |-> platform, configured |-> configured, on |-> {},
               app |-> [d \in Devices |-> 0], installs |-> 0, processes |-> {}, pids |-> 0,
               call |-> NoCall, was |-> {}]

RunningOn(w) == {p.device : p \in w.processes}
Facts(w) == {<<"on", d>> : d \in w.on} \cup {<<"running", d>> : d \in RunningOn(w)}
              \cup {<<"app", d>> : d \in {e \in Devices : w.app[e] # 0}}
Noted(w) == [w EXCEPT !.was = IF w.call.what = "logs" THEN {} ELSE @ \cup Facts(w)]
Killed(w, d) == [w EXCEPT !.processes = {p \in @ : p.device # d}]

----------------------------------------------------------------------------
(* The devices.                                                            *)
Starts(d) == d \notin D.on /\ devices' = Noted([D EXCEPT !.on = @ \cup {d}])
Stops(d) == d \in D.on /\ devices' = Killed([D EXCEPT !.on = @ \ {d}], d)

Installed(d) ==
  /\ d \in D.on /\ D.installs < MaxInstalls
  /\ devices' = Noted(Killed([D EXCEPT !.installs = @ + 1, !.app[d] = D.installs + 1], d))
Uninstalled(d) == d \in D.on /\ D.app[d] # 0 /\ devices' = Killed([D EXCEPT !.app[d] = 0], d)

Launched(d) ==
  /\ d \in D.on /\ D.app[d] # 0 /\ d \notin RunningOn(D) /\ D.pids < MaxProcesses
  /\ devices' = Noted([D EXCEPT !.pids = @ + 1,
       !.processes = @ \cup {[pid |-> D.pids + 1, device |-> d, container |-> D.app[d]]}])
Dies(d) == d \in RunningOn(D) /\ devices' = Killed(D, d)

----------------------------------------------------------------------------
(* A call of the agent.                                                    *)
Call(at) == [D EXCEPT !.call.at = at]
Refused == devices' = [D EXCEPT !.call = NoCall, !.was = {}]

\* A log is read; or the device is asked for: its capabilities, or a reload.
Begin ==
  /\ D.call.at = "none"
  /\ \E what \in {"logs", "device"} :
       devices' = Noted([D EXCEPT !.call = [NoCall EXCEPT !.at = "listing", !.what = what]])

\* simctl list, or adb devices.
Listed == D.call.at = "listing" /\ devices' = [Call("probing") EXCEPT !.call.online = D.on]

\* Every simulator is probed, but only the devices that are online; a probe that
\* fails or takes too long finds no app.
Probe(d) ==
  /\ D.call.at = "probing" /\ d \notin D.call.probed
  /\ D.platform = "android" => d \in D.call.online
  /\ \E app \in {0, IF d \in D.on THEN D.app[d] ELSE 0} :
       devices' = [D EXCEPT !.call.probed = @ \cup {d}, !.call.app[d] = app]

\* pidof, on an Android device with the app.
ProbeProcess(d) ==
  /\ D.call.at = "probing" /\ D.platform = "android"
  /\ d \in D.call.probed /\ D.call.app[d] # 0 /\ d \in RunningOn(D)
  /\ devices' = [D EXCEPT !.call.running = @ \cup {d}]

\* selectIosSimulator() and selectAndroidDevice(): the device that is configured,
\* or the only one that is online.
selectDevice(online) ==
  IF D.configured # 0 THEN {D.configured} \cap online
  ELSE IF Cardinality(online) = 1 THEN online ELSE {}

\* runDoctor(): ready, if the tools and Metro are.
Ready(d) == D.call.app[d] # 0 /\ (D.platform = "android" => d \in D.call.running)

Selected ==
  /\ D.call.at = "probing"
  /\ (IF D.platform = "ios" THEN Devices ELSE D.call.online) \subseteq D.call.probed
  /\ LET chosen == selectDevice(D.call.online)
     IN \/ /\ chosen = {} \/ (D.call.what # "logs" /\ \E d \in chosen : ~Ready(d))
           /\ Refused
        \/ \E d \in chosen :
             \/ /\ D.call.what = "logs" /\ (D.platform = "android" \/ D.call.app[d] # 0)
                /\ devices' = [Call("finding") EXCEPT !.call.device = d]
             \/ D.call.what = "logs" /\ D.platform = "ios" /\ D.call.app[d] = 0 /\ Refused
             \/ /\ D.call.what # "logs" /\ Ready(d)
                /\ devices' = [Call("answered") EXCEPT !.call.device = d]

\* The doctor finds another fault, of the toolchain or of Metro, and there is no reload.
NotReady == D.call.at = "probing" /\ D.call.what = "device" /\ Refused

\* findIosProcessId(): on the host, by the container of the app.
FoundProcesses ==
  IF D.platform = "ios" THEN {p \in D.processes : p.container = D.call.app[D.call.device]}
  ELSE {p \in D.processes : p.device = D.call.device}

FindProcess ==
  /\ D.call.at = "finding"
  /\ \/ Cardinality(FoundProcesses) # 1 /\ Refused
     \/ \E p \in FoundProcesses :
          /\ Cardinality(FoundProcesses) = 1
          /\ devices' = [Call("reading") EXCEPT !.call.process = p]

\* log show or logcat --pid, on the device; it may be gone.
ReadLog ==
  /\ D.call.at = "reading"
  /\ \/ D.call.device \in D.on /\ devices' = Call("answered")
     \/ Refused

Answered == D.call.at = "answered" /\ Refused

Next ==
  \/ \E d \in Devices :
       Starts(d) \/ Stops(d) \/ Installed(d) \/ Uninstalled(d) \/ Launched(d) \/ Dies(d)
       \/ Probe(d) \/ ProbeProcess(d)
  \/ Begin \/ Listed \/ Selected \/ NotReady \/ FindProcess \/ ReadLog \/ Answered

Spec == Init /\ [][Next]_devices
----------------------------------------------------------------------------
\* What an answer is about: without a configured device it is the one device that
\* was online, never one of several.
NeverGuesses ==
  D.call.at = "answered" /\ D.configured = 0 => D.call.online = {D.call.device}

\* A device whose capabilities are given, or that is reloaded, had Wave, and on
\* Android running Wave, at some moment of the call, whatever happened beside it.
ReadyWasTrue ==
  D.call.at = "answered" /\ D.call.what # "logs" =>
    /\ {<<"on", D.call.device>>, <<"app", D.call.device>>} \subseteq D.was
    /\ D.platform = "android" => <<"running", D.call.device>> \in D.was

\* A native log is of Wave on the device it names, not of the Wave of another one
\* that runs on the same host, though the device was chosen before the process.
LogIsOfTheDevice ==
  D.call.at = "answered" /\ D.call.what = "logs" => D.call.process.device = D.call.device
=============================================================================
