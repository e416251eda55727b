------------------------------ MODULE Reload ------------------------------
(***************************************************************************)
(* The settings and the file they come from (crates/reload/src/reload.rs,  *)
(* reload/merge.rs, crates/base/src/envfile.rs, crates/sysinfo/src/        *)
(* sysinfo/inotify.rs).  The process reads $HOME/.env when it starts; a    *)
(* thread then waits for the directory to report a change, or for half a   *)
(* minute to pass, and reads it again when there was a report or its stamp *)
(* is another.  Of the settings there is one that is read where it is      *)
(* needed, one that is handed to a component, one that is fixed for the    *)
(* life of the process, and one that makes the whole file unusable.        *)
(***************************************************************************)
EXTENDS Integers

CONSTANTS
    Values,         \* of a setting
    Default,        \* its value when the file does not name it
    MaxEdits        \* bound: times the file is changed

ReloadAssumption == Default \in Values /\ MaxEdits \in Nat

\* What a file says; an empty or missing file says nothing.
Contents == [live : Values, handed : Values, fixed : Values, broken : BOOLEAN]
Empty == [live |-> Default, handed |-> Default, fixed |-> Default, broken |-> FALSE]

VARIABLES
    file, stamp,    \* what is in the file, and the time and length it shows
    writing,        \* an editor has truncated the file and not written it yet
    pending,        \* the directory has something to report
    watching,       \* "no", "inotify" or "poll"
    pc, seen, event,
    loaded,         \* envfile::LOADED
    boot,           \* Live::boot
    current,        \* Live::current: the live settings
    component,      \* what the component was handed last
    state,          \* Live::state: error and restart_required
    missed          \* ghost: a change nobody could see

vars == <<file, stamp, writing, pending, watching, pc, seen, event, loaded, boot, current, component, state, missed>>

Live(c) == [live |-> c.live, handed |-> c.handed]

Init ==
    /\ file \in {c \in Contents : ~c.broken}    \* a process does not start on a broken file
    /\ stamp = 0 /\ writing = FALSE /\ pending = FALSE /\ watching = "no"
    /\ pc = "start" /\ seen = -1 /\ event = FALSE
    /\ loaded = file /\ boot = file /\ current = Live(file) /\ component = file.handed
    /\ state = [error |-> FALSE, restart |-> FALSE]
    /\ missed = FALSE

-----------------------------------------------------------------------------
(* Whoever edits the file.                                                 *)

\* The directory reports files that are closed, created, moved and deleted, once it is watched.
\* What changes before that, and before the first stamp, is seen by nobody.
Changed(c, reports) ==
    /\ stamp < MaxEdits
    /\ file' = c /\ stamp' = stamp + 1
    /\ pending' = (pending \/ (reports /\ watching = "inotify"))
    /\ missed' = (missed \/ (seen = -1 /\ watching # "inotify"))
    /\ UNCHANGED <<watching, pc, seen, event, loaded, boot, current, component, state>>

\* The file is replaced, or deleted.
Replace == ~writing /\ \E c \in Contents : Changed(c, TRUE) /\ UNCHANGED writing
\* The file is written over: for a while it is empty, which is not reported.
Truncate == ~writing /\ stamp + 1 < MaxEdits /\ Changed(Empty, FALSE) /\ writing' = TRUE
Finish == writing /\ (\E c \in Contents : Changed(c, TRUE)) /\ writing' = FALSE

-----------------------------------------------------------------------------
(* The thread.                                                             *)

Outside == UNCHANGED <<file, stamp, writing>>

\* reload::spawn
Open ==
    /\ pc = "start" /\ pc' = "first"
    /\ watching' \in {"inotify", "poll"}
    /\ Outside /\ UNCHANGED <<pending, seen, event, loaded, boot, current, component, state, missed>>

\* watch_loop: the first stamp.
First ==
    /\ pc = "first" /\ pc' = "wait"
    /\ seen' = stamp
    /\ Outside /\ UNCHANGED <<pending, watching, event, loaded, boot, current, component, state, missed>>

\* Watch::wait, or a nap when there is nothing to watch with or it failed.
Wait ==
    /\ pc = "wait" /\ pc' = "look"
    /\ \/ pending /\ event' = TRUE /\ pending' = FALSE
       \/ event' = FALSE /\ UNCHANGED pending
    /\ Outside /\ UNCHANGED <<watching, seen, loaded, boot, current, component, state, missed>>

\* The stamp is taken first, so that what changes while the file is read is looked at again.
Look ==
    /\ pc = "look"
    /\ IF event \/ stamp # seen THEN pc' = "load" /\ seen' = stamp ELSE pc' = "wait" /\ UNCHANGED seen
    /\ Outside /\ UNCHANGED <<pending, watching, event, loaded, boot, current, component, state, missed>>

\* envfile::reload: nothing more happens when no variable has another value.
Load ==
    /\ pc = "load"
    /\ loaded' = file
    /\ pc' = IF file = loaded THEN "wait" ELSE "apply"
    /\ missed' = FALSE
    /\ Outside /\ UNCHANGED <<pending, watching, seen, event, boot, current, component, state>>

\* Variant: a setting is handed on when it differs from that of the start.
Merge_AgainstBoot(fresh) ==
    /\ current' = Live(fresh)
    /\ component' = IF fresh.handed # boot.handed THEN fresh.handed ELSE component

\* merge_live: what differs from the settings in force is taken over, and handed on.
Merge(fresh) ==
    /\ current' = Live(fresh)
    /\ component' = IF fresh.handed # current.handed THEN fresh.handed ELSE component

\* Variant: what was loaded before is compared with.
RestartRequired_Since(fresh) == state.restart \/ fresh.fixed # boot.fixed
RestartRequired(fresh) == fresh.fixed # boot.fixed

\* Variant: the error of before stays.
Accepted_KeepsError(fresh) == [state EXCEPT !.restart = RestartRequired(fresh)]
Accepted(fresh) == [error |-> FALSE, restart |-> RestartRequired(fresh)]

\* Variant: the stamp is taken again after the file has been read.
SeenAfter_Anew == stamp
SeenAfter == seen

\* Live::reload: a file that makes no settings changes nothing but the error.
Apply ==
    /\ pc = "apply" /\ pc' = "wait" /\ seen' = SeenAfter
    /\ IF loaded.broken
       THEN state' = [state EXCEPT !.error = TRUE] /\ UNCHANGED <<current, component>>
       ELSE state' = Accepted(loaded) /\ Merge(loaded)
    /\ Outside /\ UNCHANGED <<pending, watching, event, loaded, boot, missed>>

Next == Replace \/ Truncate \/ Finish \/ Open \/ First \/ Wait \/ Look \/ Load \/ Apply

Spec == Init /\ [][Next]_vars

-----------------------------------------------------------------------------
(* Properties.                                                             *)

AtRest == pc = "wait" /\ ~pending /\ ~writing /\ seen = stamp

\* README ~117, "a saved .env is noticed": when nothing is left to look at, the file in force is
\* the one on disk, the component works with it, and the operator is told of a restart exactly
\* when the fixed settings differ from those of the start; a file that makes no settings is
\* reported.  It does not hold for what changed before the thread looked for the first time.
SettingsFollowFile ==
    AtRest /\ ~missed =>
        /\ loaded = file /\ state.error = file.broken
        /\ ~file.broken => /\ current = Live(file) /\ component = file.handed
                           /\ state.restart = (file.fixed # boot.fixed)

\* reload.rs ~99, "keeping previous settings": the settings and what the component has belong
\* together, whatever was loaded, half written or refused.
HandedOn == pc # "apply" => component = current.handed

ReloadTypes ==
    /\ file \in Contents /\ loaded \in Contents /\ boot \in Contents
    /\ stamp \in Nat /\ seen \in {-1} \cup Nat /\ seen <= stamp
    /\ writing \in BOOLEAN /\ pending \in BOOLEAN /\ event \in BOOLEAN /\ missed \in BOOLEAN
    /\ watching \in {"no", "inotify", "poll"}
    /\ pc \in {"start", "first", "wait", "look", "load", "apply"}
    /\ state \in [error : BOOLEAN, restart : BOOLEAN]
    /\ seen = -1 <=> pc \in {"start", "first"}
    /\ pc = "start" => watching = "no"

\* What is in the file is loaded, or the thread will look: for a report, for the stamp, or because
\* it is on its way.
WillBeRead ==
    \/ loaded = file \/ missed \/ pending \/ writing
    \/ seen # -1 /\ seen # stamp
    \/ pc = "look" /\ event
    \/ pc = "load"

\* What is loaded is in force, but while it is being applied.
InForce ==
    /\ component = current.handed
    /\ pc # "apply" =>
          /\ state.error = loaded.broken
          /\ ~loaded.broken => /\ current = Live(loaded) /\ component = loaded.handed
                               /\ state.restart = (loaded.fixed # boot.fixed)

ReloadInv == ReloadTypes /\ WillBeRead /\ InForce
===========================================================================
