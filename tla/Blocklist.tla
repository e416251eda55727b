------------------------------ MODULE Blocklist ------------------------------
(***************************************************************************)
(* The list of blocked domains (crates/blocklist/src/blocklist/mod.rs).    *)
(* A reload of the settings says where the list comes from: a file, a URL, *)
(* or both.  One thread looks every CHECK_INTERVAL whether the settings or *)
(* the file have changed or the URL is due, builds the list anew, and      *)
(* keeps what it fetched in a file for the next start.                     *)
(*                                                                         *)
(* What a list holds is told by where it is from: the edit of the file it  *)
(* read and the URL its other part once came from.                         *)
(***************************************************************************)
EXTENDS Integers

CONSTANTS
    Urls, Refreshes,            \* what may be configured
    Retry, CheckInterval,       \* RETRY, CHECK_INTERVAL
    BeginAt, MaxNow,            \* bounds: the clock
    MaxEdits, MaxReloads, MaxRestarts,
    None

VARIABLES
    sources,    \* STATE.sources
    dirty,      \* STATE.dirty
    fetched_at, \* STATE.fetched_at
    set,        \* SET
    running,    \* RUNNING
    thread,     \* where the thread of the list is, and its variables
    file,       \* the file: its edit and the second of it
    saved,      \* the saved copy: its URL and the second of it
    now,
    tries,      \* the last two fetches of this process, with the refresh each was made with
                \* and the one by which it was due
    left        \* bounds: edits, reloads and restarts left

vars == <<sources, dirty, fetched_at, set, running, thread, file, saved, now, tries, left>>

BlocklistAssumption ==
    /\ Refreshes \subseteq Nat \ {0} /\ {Retry, CheckInterval} \subseteq Nat \ {0}
    /\ {BeginAt, MaxNow, MaxEdits, MaxReloads, MaxRestarts} \subseteq Nat
    /\ \A r \in Refreshes : r < BeginAt
    /\ None \notin Urls \cup Nat

Settings == [file : BOOLEAN, url : Urls \cup {None}, refresh : Refreshes]

IsEmpty(s) == ~s.file /\ s.url = None

Larger(a, b) == IF a < b THEN b ELSE a
Smaller(a, b) == IF a < b THEN a ELSE b

\* mtime, of a file that may not be there.
Mtime(f) == IF f = None THEN None ELSE f.mtime

Asleep == [at |-> "none", src |-> None, dirty |-> FALSE, due |-> FALSE, seen |-> None,
           savedAt |-> 0, edit |-> None, text |-> None, fetched |-> FALSE, readAt |-> 0, since |-> 0,
           refresh |-> 0, asks |-> FALSE]

\* start: the mark stays when no thread can be created.
Started == {Asleep, [Asleep EXCEPT !.at = "top"]}

\* A process that starts with the settings s: configure and then spawn.
Boots(s) ==
    /\ sources' = s /\ dirty' = ~IsEmpty(s) /\ fetched_at' = 0 /\ set' = None
    /\ running' = ~IsEmpty(s)
    /\ thread' \in IF IsEmpty(s) THEN {Asleep} ELSE Started
    /\ tries' = <<>>

Init ==
    \E s \in Settings :
        /\ sources = s /\ dirty = ~IsEmpty(s) /\ fetched_at = 0 /\ set = None
        /\ running = ~IsEmpty(s)
        /\ thread \in IF IsEmpty(s) THEN {Asleep} ELSE Started
        /\ tries = <<>>
        /\ file \in {None, [edit |-> 0, mtime |-> BeginAt - 1]}
        /\ saved = None /\ now = BeginAt
        /\ left = [edits |-> MaxEdits, reloads |-> MaxReloads, restarts |-> MaxRestarts]
-----------------------------------------------------------------------------
\* configure, and start unless the thread has been started.
Configure ==
    \E s \in Settings \ {sources} :
        /\ left.reloads > 0 /\ left' = [left EXCEPT !.reloads = @ - 1]
        /\ sources' = s /\ dirty' = TRUE
        /\ IF ~IsEmpty(s) /\ ~running
           THEN running' = TRUE /\ thread' \in Started
           ELSE UNCHANGED <<running, thread>>
        /\ UNCHANGED <<fetched_at, set, file, saved, now, tries>>

\* What the thread keeps over a wait.
Waiting(t) == [Asleep EXCEPT !.at = "wait", !.since = now, !.seen = t.seen, !.readAt = t.readAt]

\* Mutant: an empty setting clears the mark and leaves the list.
Top_KeepsList ==
    /\ thread.at = "top" /\ dirty' = FALSE
    /\ thread' = IF IsEmpty(sources) THEN Waiting(thread)
                 ELSE [thread EXCEPT !.at = "look", !.src = sources, !.dirty = dirty]
    /\ UNCHANGED <<sources, fetched_at, set, running, file, saved, now, tries, left>>

\* The thread takes the settings and the mark of their change, under one lock.
Top ==
    /\ thread.at = "top" /\ dirty' = FALSE
    /\ IF IsEmpty(sources)
       THEN /\ set' = IF dirty THEN None ELSE set
            /\ thread' = Waiting(thread)
       ELSE /\ thread' = [thread EXCEPT !.at = "look", !.src = sources, !.dirty = dirty]
            /\ UNCHANGED set
    /\ UNCHANGED <<sources, fetched_at, running, file, saved, now, tries, left>>

\* The URL is due, counted from the last try or the saved copy.
Due(s) ==
    s.url # None /\ now - Larger(fetched_at, IF saved = None THEN 0 ELSE saved.mtime) >= s.refresh

\* What has changed since the last look.
Look ==
    LET s == thread.src
        mtime == IF s.file THEN Mtime(file) ELSE None
        t == [thread EXCEPT !.seen = mtime, !.due = Due(s), !.refresh = s.refresh,
                            !.asks = (s.url # None),
                            !.savedAt = IF saved = None THEN 0 ELSE saved.mtime]
    IN  /\ thread.at = "look"
        /\ thread' = IF thread.dirty \/ mtime # thread.seen \/ Due(s)
                     THEN [t EXCEPT !.at = "rebuild"] ELSE Waiting(t)
        /\ UNCHANGED <<sources, dirty, fetched_at, set, running, file, saved, now, tries, left>>

\* rebuild takes the settings once more.
TakeSources ==
    /\ thread.at = "rebuild"
    /\ thread' = [thread EXCEPT !.at = "file", !.src = sources]
    /\ UNCHANGED <<sources, dirty, fetched_at, set, running, file, saved, now, tries, left>>

\* load_file.
LoadFile ==
    /\ thread.at = "file"
    /\ thread' = [thread EXCEPT !.at = "url", !.readAt = now,
                                !.edit = IF thread.src.file /\ file # None THEN file.edit ELSE None]
    /\ UNCHANGED <<sources, dirty, fetched_at, set, running, file, saved, now, tries, left>>

SavedText == IF saved = None THEN None ELSE saved.url

\* load_url: what is fetched is saved, if it can be; what is saved stands in.
LoadUrl ==
    LET url == thread.src.url
        fetches == thread.due /\ url # None
    IN  /\ thread.at = "url"
        /\ \/ /\ fetches                              \* the origin answers
              /\ saved' \in {saved, [url |-> url, mtime |-> now]}
              /\ thread' = [thread EXCEPT !.at = "publish", !.text = url, !.fetched = TRUE]
           \/ /\ UNCHANGED saved                      \* it does not, or is not asked
              /\ thread' = [thread EXCEPT !.at = "publish", !.fetched = FALSE,
                                          !.text = IF url = None THEN None ELSE SavedText]
        /\ tries' = IF fetches
                    THEN <<IF tries = <<>> THEN None ELSE tries[2],
                           [at |-> now, refresh |-> thread.src.refresh, due |-> thread.refresh]>>
                    ELSE tries
        /\ UNCHANGED <<sources, dirty, fetched_at, set, running, file, now, left>>

\* Mutant: an origin that failed is asked again at the next look.
NextFetchAt_Unspaced(t) == IF t.fetched THEN now ELSE fetched_at

\* record: when the URL is to be fetched next, counted back by the refresh.
NextFetchAt(t) ==
    CASE t.fetched -> now
      [] ~t.fetched /\ t.due /\ t.src.url # None -> now - t.src.refresh + Retry
      [] OTHER -> fetched_at

\* Mutant: the time of the file is taken once the list is built from it.
Publish_SeenLate ==
    /\ thread.at = "publish"
    /\ set' = [file |-> thread.edit, url |-> thread.text] /\ fetched_at' = NextFetchAt(thread)
    /\ thread' = [Waiting(thread) EXCEPT !.seen = Mtime(file)]
    /\ UNCHANGED <<sources, dirty, running, file, saved, now, tries, left>>

Publish ==
    LET at == NextFetchAt(thread)
    IN  /\ thread.at = "publish"
        /\ set' = [file |-> thread.edit, url |-> thread.text]
        /\ fetched_at' = IF ~thread.due /\ thread.asks /\ at = 0 THEN thread.savedAt ELSE at
        /\ thread' = Waiting(thread)
        /\ UNCHANGED <<sources, dirty, running, file, saved, now, tries, left>>

\* The wait ends when the settings change, after CHECK_INTERVAL, or for no reason.
Wake ==
    /\ thread.at = "wait" /\ thread' = [thread EXCEPT !.at = "top"]
    /\ UNCHANGED <<sources, dirty, fetched_at, set, running, file, saved, now, tries, left>>
-----------------------------------------------------------------------------
\* Somebody edits the file or removes it.
Edit ==
    /\ left.edits > 0 /\ left' = [left EXCEPT !.edits = @ - 1]
    /\ file' \in {None, [edit |-> left.edits, mtime |-> now]} \ {file}
    /\ UNCHANGED <<sources, dirty, fetched_at, set, running, thread, saved, now, tries>>

Restart ==
    /\ left.restarts > 0 /\ left' = [left EXCEPT !.restarts = @ - 1]
    /\ \E s \in Settings : Boots(s)
    /\ UNCHANGED <<file, saved, now>>

Elapse ==
    /\ now < MaxNow /\ now' = now + 1
    /\ thread.at = "wait" => now < thread.since + CheckInterval
    /\ UNCHANGED <<sources, dirty, fetched_at, set, running, thread, file, saved, tries, left>>

Next ==
    \/ Configure \/ Edit \/ Restart \/ Elapse
    \/ Top \/ Look \/ TakeSources \/ LoadFile \/ LoadUrl \/ Publish \/ Wake

Spec == Init /\ [][Next]_vars
-----------------------------------------------------------------------------
AtRest == thread.at = "wait" /\ ~dirty

\* mod.rs, the loop of the thread: a file that differs from what is listed will be
\* read again, as its time differs too.  Times are whole seconds, so an edit in the
\* second the file was read in is the exception.
ChangeIsNoticed ==
    AtRest /\ sources.file /\ file # None =>
        \/ set.file = file.edit
        \/ file.mtime # thread.seen
        \/ file.mtime = thread.readAt

\* mod.rs, configure: when no source is left, nothing is listed.
NothingIsLeft == AtRest /\ IsEmpty(sources) => set = None

\* mod.rs, next_fetch_at: an origin that fails is left alone for RETRY, one that
\* answered for the refresh, unless the refresh has been changed since.
FetchesAreSpaced ==
    tries # <<>> /\ tries[1] # None /\ tries[1].refresh = tries[2].due =>
        tries[2].at - tries[1].at >= Smaller(Retry, tries[1].refresh)

\* mod.rs, the module comment: everything is applied as soon as .env is read
\* again.  What is listed is from the URL that is configured.
UrlIsCurrent == AtRest /\ sources.url # None /\ set.url # None => set.url = sources.url

Places == {"none", "top", "look", "rebuild", "file", "url", "publish", "wait"}
Working == {"look", "rebuild", "file", "url", "publish"}

Threads == [at : Places, src : Settings \cup {None}, dirty : BOOLEAN, due : BOOLEAN,
            seen : Nat \cup {None}, savedAt : Nat, edit : Nat \cup {None},
            text : Urls \cup {None}, fetched : BOOLEAN, readAt : Nat, since : Nat, refresh : Nat,
            asks : BOOLEAN]

Tries == [at : Nat, refresh : Refreshes, due : Nat]

BlocklistTypes ==
    /\ sources \in Settings /\ dirty \in BOOLEAN /\ fetched_at \in Int /\ running \in BOOLEAN
    /\ thread \in Threads
    /\ thread.at \in Working => thread.src \in Settings
    /\ ~running => thread.at = "none"
    /\ file \in {None} \cup [edit : Nat, mtime : Nat]
    /\ saved \in {None} \cup [url : Urls, mtime : Nat]
    /\ now \in Nat /\ now >= BeginAt /\ thread.readAt <= now
    /\ file # None => file.mtime <= now
    /\ tries # <<>> => tries[2] \in Tries /\ tries[2].at >= BeginAt /\ tries[2].at <= now
    /\ left \in [edits : Nat, reloads : Nat, restarts : Nat]

\* The file is as it was read, or was changed at that second or later.
AsRead(edit) == edit = file.edit \/ file.mtime >= thread.readAt

\* As long as no change of the settings is marked, the thread works with them and the list
\* was built from them; the time it remembers is one the file had before it was read.
ListFollows ==
    /\ thread.at \in Working /\ ~dirty => thread.src = sources /\ ~IsEmpty(sources)
    /\ thread.at \in {"wait", "top"} /\ ~dirty /\ IsEmpty(sources) => set = None
    /\ thread.seen = None \/ thread.seen <= IF thread.at \in {"rebuild", "file"} THEN now
                                                                          ELSE thread.readAt
    /\ thread.at \in {"url", "publish"} /\ thread.src.file /\ file # None => AsRead(thread.edit)
    /\ thread.at \in {"wait", "top", "look"} /\ ~(thread.at = "look" /\ thread.dirty) /\ ~dirty
           /\ sources.file /\ file # None => AsRead(set.file)

\* The pause after a try.
Pause(t) == Smaller(Retry, t.refresh)

\* What fetched_at says keeps the pause of the last try, and who found the URL due has kept it.
TriesRecorded ==
    /\ tries # <<>> =>
          \/ fetched_at >= tries[2].at - tries[2].refresh + Pause(tries[2])
          \/ thread.at = "publish" /\ thread.due /\ thread.src.url # None
    /\ thread.at = "publish" /\ thread.due /\ thread.src.url # None =>
          tries # <<>> /\ tries[2].refresh = thread.src.refresh
    /\ /\ thread.at \in {"rebuild", "file", "url"} /\ thread.due
       /\ tries # <<>> /\ tries[2].refresh = thread.refresh
       => now - tries[2].at >= Pause(tries[2])

BlocklistInv == BlocklistTypes /\ ListFollows /\ TriesRecorded /\ FetchesAreSpaced
=============================================================================
