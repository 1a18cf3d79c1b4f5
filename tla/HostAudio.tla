----------------------------- MODULE HostAudio -----------------------------
(***************************************************************************)
(* The host's audio while it streams: the redirect of the default output   *)
(* to a sinkless device with its crash marker (audio/sink.rs on Windows,   *)
(* audio/sink_unix.rs on Linux and macOS), the mute that stands in for it  *)
(* (audio/mute.rs), and the loopback capture, which may pin that device    *)
(* (audio/loopback.rs, audio/process_loopback.rs).                         *)
(*                                                                         *)
(* Every call to the OS is a step of its own, so a crash, the user and the *)
(* capture thread come between any two.  One guard is held at a time; the  *)
(* app that holds it, and the audio server, are external.                  *)
(***************************************************************************)
EXTENDS Integers, FiniteSets

CONSTANTS
    Systems,      \* among "windows", "linux", "macos"
    Real,         \* the real output devices
    Virtual,      \* the sinkless one
    Roles,        \* Windows keeps a default for each role
    Console,      \* the role that is read (eConsole)
    Formats,      \* mix formats
    MAX_REINIT,   \* unproductive re-opens in a row (50)
    MaxCrashes, MaxRefused, MaxMoves   \* bounds

Devices == Real \cup {Virtual}
NoDev == "none"      \* no device known; as a marker, no file
Empty == "empty"     \* a marker that names no device
NoFmt == "any"       \* ffmpeg's format is not tracked

ASSUME HostAudioAssumption ==
    /\ Systems \subseteq {"windows", "linux", "macos"}
    /\ Virtual \notin Real /\ Real # {} /\ Console \in Roles
    /\ {NoDev, Empty} \cap Devices = {} /\ NoFmt \notin Formats
    /\ MAX_REINIT \in Nat

VARIABLES
    os, default, fmt,   \* the OS: defaults by role, mix formats by device
    loaded,             \* the null sink's module is loaded (Linux)
    marker,             \* the crash-recovery file
    up, pc, goal,       \* the process, where the guard's thread is, what for
    saved,              \* what the thread will restore
    muted, mmark,       \* the mute fallback and its marker
    cap,                \* the capture thread
    excused,            \* history: a restore was refused or impossible
    crashes, refused, moves

avars == <<os, default, fmt, loaded, marker, up, pc, goal, saved, muted,
           mmark, cap, excused, crashes, refused, moves>>
osvars == <<os, fmt>>
mutevars == <<muted, mmark>>
counters == <<crashes, moves>>

NoCapture == [pc |-> "off", mode |-> "plain", expected |-> NoFmt,
              reopen |-> FALSE, left |-> MAX_REINIT, fmt |-> NoFmt,
              retried |-> FALSE]

AudioInit ==
    /\ os \in Systems
    /\ \E d \in Real : default = [r \in Roles |-> d]
    /\ \E f \in Formats : fmt = [d \in Devices |-> f]
    /\ loaded = FALSE /\ marker = NoDev /\ muted = FALSE /\ mmark = FALSE
    /\ up = TRUE /\ pc = "idle" /\ goal = "none" /\ saved = NoDev
    /\ cap = NoCapture /\ excused = FALSE
    /\ crashes = 0 /\ refused = 0 /\ moves = 0

-----------------------------------------------------------------------------
(* The OS.                                                                 *)

(* The roles a call to set the default may fail for: any on Windows, where *)
(* the others are still set; elsewhere the one call fails or not.          *)
Failures == IF os = "windows" THEN SUBSET Roles ELSE {{}, Roles}

MayRefuse(refuses) ==
    /\ refuses => refused < MaxRefused
    /\ refused' = IF refuses THEN refused + 1 ELSE refused

(* set_default_render_device, pactl set-default-sink, SwitchAudioSource -s *)
set_default(d, failing) ==
    /\ MayRefuse(failing # {})
    /\ default' = [r \in Roles |-> IF r \in failing THEN default[r] ELSE d]

(* The user, or the OS after a hotplug, picks another output.              *)
Repick(d) ==
    /\ moves < MaxMoves /\ moves' = moves + 1
    /\ default' = [r \in Roles |-> d]
    /\ UNCHANGED <<os, fmt, loaded, marker, up, pc, goal, saved, muted,
                   mmark, cap, excused, crashes, refused>>

(* A device's mix format changes: by the user or by                        *)
(* set_render_device_format on the sink before a redirect.                 *)
SetFormat(d, f) ==
    /\ moves < MaxMoves /\ moves' = moves + 1
    /\ fmt[d] # f /\ fmt' = [fmt EXCEPT ![d] = f]
    /\ UNCHANGED <<os, default, loaded, marker, up, pc, goal, saved, muted,
                   mmark, cap, excused, crashes, refused>>

-----------------------------------------------------------------------------
(* The redirect.                                                           *)

Go(next) == pc' = next /\ UNCHANGED <<up, goal>>

(* Where recovery leads: to the mute's recovery at start, on to the save   *)
(* when a redirect begins.                                                 *)
Recovered == IF goal = "start" THEN "unmute" ELSE "save"

(* redirect_to and NullSink::create begin by clearing what a crash left;   *)
(* OutputRedirect::create does not.                                        *)
Arm ==
    /\ up /\ pc = "idle"
    /\ goal' = "arm"
    /\ pc' = CASE os = "windows" -> "consume"
               [] os = "linux" -> "unload"
               [] os = "macos" -> "save"
    /\ UNCHANGED <<osvars, default, loaded, marker, up, saved, mutevars, cap,
                   excused, counters, refused>>

(* Unloading the null sink; the server moves its default to a real device. *)
Unload(refuses) ==
    /\ pc = "unload" /\ MayRefuse(refuses)
    /\ IF refuses
       THEN excused' = TRUE /\ UNCHANGED <<loaded, default>>
       ELSE /\ loaded' = FALSE /\ UNCHANGED excused
            /\ \E d \in Real :
                  default' = [r \in Roles |-> IF default[r] = Virtual THEN d
                                              ELSE default[r]]
    /\ Go(CASE goal = "start" -> "consume" [] goal = "arm" -> "save"
            [] goal = "drop" -> "unmark")
    /\ UNCHANGED <<osvars, marker, saved, mutevars, cap, counters>>

(* restore_stale_redirect, restore_stale_host_silent: the marker is        *)
(* consumed before the restore.                                            *)
Consume ==
    /\ pc = "consume"
    /\ marker' = NoDev /\ saved' = marker
    /\ Go(IF marker \in Real \/ (marker = Virtual /\ os # "macos")
          THEN "restore" ELSE Recovered)
    /\ UNCHANGED <<osvars, default, loaded, mutevars, cap, excused, counters,
                   refused>>

Restore(failing) ==
    /\ pc = "restore" /\ set_default(saved, failing)
    /\ excused' = (excused \/ failing # {})
    /\ Go(Recovered)
    /\ UNCHANGED <<osvars, loaded, marker, saved, mutevars, cap, counters>>

(* What will be restored: the console default.  A virtual default is not   *)
(* saved on macOS, where a real output is looked for instead.  An          *)
(* unreadable default is none; on Windows the redirect may give up.        *)
Save(outcome) ==
    /\ pc = "save" /\ MayRefuse(outcome # "read")
    /\ \/ /\ outcome = "read" /\ UNCHANGED excused /\ Go("mark")
          /\ \E d \in Devices :
                /\ saved' = d
                /\ IF os = "macos" /\ default[Console] = Virtual
                   THEN d \in Real ELSE d = default[Console]
       \/ /\ outcome = "unreadable" /\ saved' = NoDev /\ Go("mark")
          /\ excused' = (excused \/ os # "linux")
       \/ /\ outcome = "error" /\ os = "windows" /\ saved' = NoDev
          /\ Go("idle") /\ UNCHANGED excused
    /\ UNCHANGED <<osvars, default, loaded, marker, mutevars, cap, counters>>

(* Mutant: the marker is written once the switch is made.                  *)
MarkLate(refuses) ==
    /\ pc = "mark" /\ MayRefuse(refuses) /\ UNCHANGED <<marker, excused>>
    /\ Go(IF os = "linux" THEN "load" ELSE "switch")
    /\ UNCHANGED <<osvars, default, loaded, saved, mutevars, cap, counters>>

(* The marker, before the switch.                                          *)
Mark(refuses) ==
    /\ pc = "mark" /\ MayRefuse(refuses)
    /\ marker' = IF refuses THEN marker
                 ELSE IF saved = NoDev THEN Empty ELSE saved
    /\ excused' = (excused \/ refuses)
    /\ Go(IF os = "linux" THEN "load" ELSE "switch")
    /\ UNCHANGED <<osvars, default, loaded, saved, mutevars, cap, counters>>

(* load-module module-null-sink: refused, or answered with no index.       *)
Load(refuses) ==
    /\ pc = "load" /\ MayRefuse(refuses)
    /\ IF refuses THEN Go("unmark") /\ loaded' \in {loaded, TRUE}
       ELSE Go("switch") /\ loaded' = TRUE
    /\ UNCHANGED <<osvars, default, marker, saved, mutevars, cap, excused,
                   counters>>

(* The switch; it fails when every role failed.                            *)
Switch(failing) ==
    /\ pc = "switch" /\ set_default(Virtual, failing)
    /\ UNCHANGED up
    /\ IF failing # Roles THEN pc' = "live" /\ goal' = "none"
       ELSE pc' = (IF os = "linux" THEN "unload" ELSE "unmark")
            /\ goal' = "drop"
    /\ UNCHANGED <<osvars, loaded, marker, saved, mutevars, cap, excused,
                   counters>>

(* Drop of the guard: put the default back, unload the sink (Linux),       *)
(* remove the marker.                                                      *)
Drop ==
    /\ pc = "live" /\ goal' = "drop" /\ UNCHANGED up
    /\ pc' = IF saved # NoDev THEN "putback"
             ELSE IF os = "linux" THEN "unload" ELSE "unmark"
    /\ UNCHANGED <<osvars, default, loaded, marker, saved, mutevars, cap,
                   excused, counters, refused>>

PutBack(failing) ==
    /\ pc = "putback" /\ set_default(saved, failing)
    /\ excused' = (excused \/ (failing # {} /\ os # "linux"))
    /\ Go(IF os = "linux" THEN "unload" ELSE "unmark")
    /\ UNCHANGED <<osvars, loaded, marker, saved, mutevars, cap, counters>>

Unmark ==
    /\ pc = "unmark" /\ marker' = NoDev /\ saved' = NoDev
    /\ pc' = "idle" /\ goal' = "none"
    /\ UNCHANGED <<osvars, default, loaded, up, mutevars, cap, excused,
                   counters, refused>>

(* set_host_muted, with the marker the app keeps beside it.                *)
MuteHost(on) ==
    /\ up /\ pc = "idle" /\ muted # on
    /\ muted' = on /\ mmark' = on
    /\ UNCHANGED <<osvars, default, loaded, marker, up, pc, goal, saved, cap,
                   excused, counters, refused>>

(* restore_stale_mute_fallback: the marker is consumed before the unmute.  *)
ConsumeMute ==
    /\ pc = "unmute" /\ saved' = NoDev
    /\ mmark' = FALSE
    /\ IF mmark THEN Go("unmuting")
       ELSE pc' = "idle" /\ goal' = "none" /\ UNCHANGED up
    /\ UNCHANGED <<osvars, default, loaded, marker, muted, cap, excused,
                   counters, refused>>

Unmute(refuses) ==
    /\ pc = "unmuting" /\ pc' = "idle" /\ goal' = "none"
    /\ MayRefuse(refuses)
    /\ muted' = (muted /\ refuses)
    /\ excused' = (excused \/ refuses)
    /\ UNCHANGED <<osvars, default, loaded, marker, up, saved, mmark, cap,
                   counters>>

(* The process dies; between a consumed marker and its restore, what there *)
(* is to restore is nowhere but in its memory.                             *)
Crash ==
    /\ up /\ crashes < MaxCrashes /\ crashes' = crashes + 1
    /\ up' = FALSE /\ pc' = "idle" /\ goal' = "none" /\ saved' = NoDev
    /\ cap' = NoCapture
    /\ excused' = (excused \/ pc \in {"restore", "unmuting"})
    /\ UNCHANGED <<osvars, default, loaded, marker, mutevars, refused, moves>>

(* The next launch runs the recovery before anything else.                 *)
Launch ==
    /\ ~up /\ up' = TRUE /\ goal' = "start"
    /\ pc' = IF os = "linux" THEN "unload" ELSE "consume"
    /\ UNCHANGED <<osvars, default, loaded, marker, saved, mutevars, cap,
                   excused, counters, refused>>

-----------------------------------------------------------------------------
(* The capture thread (Windows).                                           *)

capframe == <<osvars, loaded, marker, up, pc, goal, saved, mutevars,
              counters>>

Target == IF cap.mode = "pinned" THEN Virtual ELSE default[Console]

Free == up /\ os = "windows" /\ cap.pc \in {"off", "ended"}

(* loopback_format, then run_loopback_capture, _pinned or _tracking.  A    *)
(* capture that ended may be started again.                                *)
StartCapture(mode, tracking) ==
    /\ Free
    /\ mode = "pinned" => pc = "live"
    /\ cap' = [NoCapture EXCEPT
                  !.pc = "assert", !.mode = mode,
                  !.expected = IF ~tracking THEN NoFmt
                               ELSE IF mode = "pinned" THEN fmt[Virtual]
                               ELSE fmt[default[Console]]]
    /\ UNCHANGED <<capframe, default, excused, refused>>

(* run_process_loopback_capture: its format is fixed, every failure ends   *)
(* it.                                                                     *)
StartProcess ==
    /\ Free /\ cap' = [NoCapture EXCEPT !.pc = "start", !.mode = "process"]
    /\ UNCHANGED <<capframe, default, excused, refused>>

ProcessOpens ==
    /\ cap.pc = "start" /\ cap.mode = "process"
    /\ cap' = [cap EXCEPT !.pc = "run"]
    /\ UNCHANGED <<capframe, default, excused, refused>>

ProcessEnds ==
    /\ cap.pc \in {"start", "run"} /\ cap.mode = "process"
    /\ cap' = [cap EXCEPT !.pc = "ended"]
    /\ UNCHANGED <<capframe, default, excused, refused>>

(* reassert_pinned_default, before every open.  The guard may have gone.   *)
Reassert(failing) ==
    /\ cap.pc = "assert" /\ cap' = [cap EXCEPT !.pc = "open"]
    /\ IF cap.mode = "pinned" /\ default[Console] # Virtual
       THEN /\ set_default(Virtual, failing)
            /\ excused' = (excused \/ pc # "live")
       ELSE failing = {} /\ UNCHANGED <<default, excused, refused>>
    /\ UNCHANGED capframe

(* run's answer to a lost device.                                          *)
Invalidated(productive) ==
    IF productive
    THEN [cap EXCEPT !.pc = "assert", !.reopen = TRUE, !.left = MAX_REINIT]
    ELSE IF cap.left = 0 THEN [cap EXCEPT !.pc = "ended"]
    ELSE [cap EXCEPT !.pc = "assert", !.reopen = TRUE, !.left = @ - 1]

Ended == [cap EXCEPT !.pc = "ended"]

(* The opened endpoint's format against the one ffmpeg was spawned with.   *)
Accepted(f) == cap.expected = NoFmt \/ f = cap.expected

(* open and read_format; another format ends the capture, for the caller   *)
(* to respawn ffmpeg.                                                      *)
Open(ok) ==
    /\ cap.pc = "open"
    /\ cap' = IF ~ok THEN IF cap.reopen THEN Invalidated(FALSE) ELSE Ended
              ELSE IF ~Accepted(fmt[Target]) THEN Ended
              ELSE [cap EXCEPT !.pc = "start", !.fmt = fmt[Target],
                               !.retried = FALSE]
    /\ UNCHANGED <<capframe, default, excused, refused>>

(* Initialize, GetService and Start.  An endpoint that refuses the flags   *)
(* is opened afresh; its format is then taken as it is.                    *)
Start(outcome) ==
    /\ cap.pc = "start" /\ cap.mode # "process"
    /\ outcome = "unsupported" => ~cap.retried
    /\ cap' = CASE outcome = "ok" -> [cap EXCEPT !.pc = "run"]
                [] outcome = "unsupported" ->
                       [cap EXCEPT !.fmt = fmt[Target], !.retried = TRUE]
                [] outcome = "invalidated" -> Invalidated(FALSE)
                [] outcome = "failed" -> Ended
    /\ UNCHANGED <<capframe, default, excused, refused>>

(* capture_loop ends: the device went, or the pipe broke.                  *)
CaptureEnds(lost) ==
    /\ cap.pc = "run" /\ cap.mode # "process"
    /\ cap' = IF lost THEN Invalidated(TRUE) ELSE Ended
    /\ UNCHANGED <<capframe, default, excused, refused>>

-----------------------------------------------------------------------------
AudioNext ==
    \/ \E d \in Real : Repick(d)
    \/ \E d \in Devices, f \in Formats : SetFormat(d, f)
    \/ Arm
    \/ \E refuses \in BOOLEAN :
          Unload(refuses) \/ Mark(refuses) \/ Load(refuses) \/ Unmute(refuses)
    \/ Consume \/ ConsumeMute
    \/ \E failing \in Failures :
          \/ Restore(failing) \/ Switch(failing) \/ PutBack(failing)
          \/ Reassert(failing)
    \/ \E outcome \in {"read", "unreadable", "error"} : Save(outcome)
    \/ Drop \/ Unmark
    \/ \E on \in BOOLEAN : MuteHost(on)
    \/ Crash \/ Launch
    \/ \E mode \in {"plain", "pinned"}, tracking \in BOOLEAN :
          StartCapture(mode, tracking)
    \/ StartProcess \/ ProcessOpens \/ ProcessEnds
    \/ \E ok \in BOOLEAN : Open(ok) \/ CaptureEnds(ok)
    \/ \E outcome \in {"ok", "unsupported", "invalidated", "failed"} :
          Start(outcome)

AudioSpec == AudioInit /\ [][AudioNext]_avars

-----------------------------------------------------------------------------
(* Properties.                                                             *)

(* The host sits on the sinkless device (or is muted) and nothing will     *)
(* ever take it off again: no guard holds the original, and no marker      *)
(* keeps it for the next launch.  On Linux the next launch unloads the     *)
(* sink itself.                                                            *)
Stranded ==
    /\ pc = "idle"
    /\ \/ /\ \E r \in Roles : default[r] = Virtual
          /\ up \/ (os # "linux" /\ marker \notin Real)
       \/ muted /\ ~mmark

(* "the host is never left pointing at the sinkless virtual sink": with    *)
(* crashes at any call, a user who picks other outputs meanwhile and role  *)
(* by role failures of the switch, the host is stranded only if the OS     *)
(* refused a restore or the marker, hid the default, the process died      *)
(* between consuming a marker and applying it, or a pinned capture         *)
(* re-asserted the sink after its guard was gone.                          *)
NeverStranded == Stranded => excused

(* "returns Ok(Some(new_format)) before any mismatched bytes are written":  *)
(* over device changes, format changes and re-opens, what a tracked        *)
(* capture writes has the format its ffmpeg was spawned with.  Violated:   *)
(* the open after a refusal of the flags is not compared.                  *)
FormatKept == cap.pc = "run" /\ cap.expected # NoFmt => cap.fmt = cap.expected
=============================================================================
