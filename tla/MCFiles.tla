------------------------------- MODULE MCFiles --------------------------------
(***************************************************************************)
(* What is kept on disk, side by side: a behaviour of this module is one   *)
(* of the disk tier of the cache, of the file of recent records, of the    *)
(* search for the size the disk may have, of the table of hosts and its    *)
(* file, with the crashes each of them is made for, of the settings and    *)
(* the file they come from, of the list of blocked domains and the file it *)
(* is read from, of the history of numbers and its rings on disk, or of    *)
(* the lines and snapshots of the days.  They share no state.              *)
(***************************************************************************)
EXTENDS TLC

CONSTANTS
    Keys, Writers, Users, Capacities, MaxObject, Lengths, RoomStep, EntryCaps,
    Metas, MaxStale, MaxNow, MaxStores, HostSlots, MaxCount, MaxCrashes,
    MaxFaults, Causes, Cap, MergeWindow, TickMax, SlotCount, MaxRecords,
    MaxRestarts, FirstSize, SizeStep, Floor, Confirm, Heartbeat, StallTicks,
    Relearn, Limits, LastNow, MaxStops, MaxSlack, Urls, Refreshes, Retry,
    CheckInterval, BeginAt, ListEnd, MaxEdits, MaxReloads, ListStarts, Values,
    Default, MaxSaves, Minute, Hour, Fine, Minutes, Hours, SampleCap,
    HistoryEnd, Day, FileLines, KeptDays, StartAfter, DaysEnd, MaxSets,
    MaxTroubles, None

\* part names the component of this behaviour, the rest are its variables.
VARIABLES part, v1, v2, v3, v4, v5, v6, v7, v8, v9, v10, v11, v12, v13, v14,
    v15, v16

vars == <<part, v1, v2, v3, v4, v5, v6, v7, v8, v9, v10, v11, v12, v13, v14,
          v15, v16>>

Disk == INSTANCE DiskTier WITH
    index <- v1, files <- v2, capacity <- v3, inFlight <- v4, maxEntries <- v5,
    writer <- v6, user <- v7, now <- v8, stores <- v9

Recent == INSTANCE RecentFile WITH
    MaxCrashes <- MaxRestarts, merges <- v1, recording <- v2, buf <- v3,
    total <- v4, added <- v5, written <- v6, dropped <- v7, batch <- v8, disk <- v9,
    next <- v10, seq <- v11, ids <- v12, stored <- v13, faults <- v14,
    crashes <- v15

Allocation == INSTANCE DiskProbe WITH
    Start <- FirstSize, Step <- SizeStep, MaxNow <- LastNow, host <- v1,
    probe <- v2, file <- v3, data <- v4, ballast <- v5, refused <- v6, seen <- v7,
    ticked <- v8, now <- v9, left <- v10, kills <- v11

HostFile == INSTANCE StateFile WITH
    Names <- Keys, Slots <- HostSlots, rows <- v1, slots <- v2, by_name <- v3,
    disk <- v4, writes <- v5, clears <- v6, newest <- v7, faults <- v8,
    crashes <- v9

Settings == INSTANCE Reload WITH
    MaxEdits <- MaxSaves, file <- v1, stamp <- v2, writing <- v3, pending <- v4,
    watching <- v5, pc <- v6, seen <- v7, event <- v8, loaded <- v9, boot <- v10,
    current <- v11, component <- v12, state <- v13, missed <- v14

Listed == INSTANCE Blocklist WITH
    MaxNow <- ListEnd, MaxRestarts <- ListStarts, sources <- v1, dirty <- v2,
    fetched_at <- v3, set <- v4, running <- v5, thread <- v6, file <- v7,
    saved <- v8, now <- v9, tries <- v10, left <- v11

Numbers == INSTANCE History WITH
    MaxNow <- HistoryEnd, Capacity <- SampleCap, now <- v1, ticked <- v2,
    rings <- v3, pending <- v4, magic <- v5, disk <- v6, next <- v7, pc <- v8,
    carried <- v9, taken <- v10, lost <- v11, written <- v12, ran <- v13,
    left <- v14

Daily == INSTANCE Days WITH
    MaxNow <- DaysEnd, Keep <- KeptDays, now <- v1, ticked <- v2, pc <- v3,
    daily <- v4, count <- v5, done <- v6, file <- v7, rows <- v8, snaps <- v9,
    kept <- v10, moments <- v11, taken <- v12, firsts <- v13, ends <- v14,
    made <- v15, left <- v16

Init ==
    \/ part = "disk" /\ Disk!Init /\ v10 = None /\ v11 = None /\ v12 = None /\ v13 = None
           /\ v14 = None /\ v15 = None /\ v16 = None
    \/ part = "recent" /\ Recent!Init /\ v16 = None
    \/ part = "allocation" /\ Allocation!Init /\ v12 = None /\ v13 = None /\ v14 = None
           /\ v15 = None /\ v16 = None
    \/ part = "hosts" /\ HostFile!Init /\ v10 = None /\ v11 = None /\ v12 = None
           /\ v13 = None /\ v14 = None /\ v15 = None /\ v16 = None
    \/ part = "settings" /\ Settings!Init /\ v15 = None /\ v16 = None
    \/ part = "listed" /\ Listed!Init /\ v12 = None /\ v13 = None /\ v14 = None
           /\ v15 = None /\ v16 = None
    \/ part = "numbers" /\ Numbers!Init /\ v15 = None /\ v16 = None
    \/ part = "days" /\ Daily!Init

DiskStep == part = "disk" /\ Disk!Next /\ UNCHANGED <<part, v10, v11, v12, v13, v14, v15, v16>>
RecentStep == part = "recent" /\ Recent!Next /\ UNCHANGED <<part, v16>>
AllocationStep == part = "allocation" /\ Allocation!Next /\ UNCHANGED <<part, v12, v13,
    v14, v15, v16>>
HostFileStep == part = "hosts" /\ HostFile!Next /\ UNCHANGED <<part, v10, v11, v12, v13,
    v14, v15, v16>>
SettingsStep == part = "settings" /\ Settings!Next /\ UNCHANGED <<part, v15, v16>>
ListedStep == part = "listed" /\ Listed!Next /\ UNCHANGED <<part, v12, v13, v14, v15, v16>>
NumbersStep == part = "numbers" /\ Numbers!Next /\ UNCHANGED <<part, v15, v16>>
DailyStep == part = "days" /\ Daily!Next /\ UNCHANGED <<part>>

Next == DiskStep \/ RecentStep \/ AllocationStep \/ HostFileStep \/ SettingsStep \/
    ListedStep \/ NumbersStep \/ DailyStep
Spec == Init /\ [][Next]_vars

ASSUME DiskAssumption == Disk!SizeAssumption /\ Disk!TimeAssumption /\ Disk!TierAssumption
ASSUME KeptAssumption ==
    Settings!ReloadAssumption /\ Listed!BlocklistAssumption /\ Allocation!DiskProbeAssumption
ASSUME Recent!RecentFileAssumption /\ HostFile!StateFileAssumption /\ Numbers!HistoryAssumption
ASSUME Daily!DaysAssumption

\* An entry that expires soon and can be revalidated, and one that cannot.
SoonOrLate == {[expires |-> 1, validators |-> TRUE], [expires |-> 2, validators |-> FALSE]}

Symmetric == Permutations(Keys) \cup Permutations(Writers)
-------------------------------------------------------------------------------
\* Room, index and files of the disk tier agree and keep to the bound.
DiskAccounted ==
    part = "disk" => Disk!TypeOK /\ Disk!RoomAccounted /\ Disk!FilesIndexed /\ Disk!UsedBounded

\* What the process goes by agrees with what is outside: the disk tier with its
\* files, the settings and what was handed on of them with their file, the list
\* of blocked domains with its file and the times it may trouble its URL, and the
\* size learned with what the host grants.
DiskAgrees ==
    /\ DiskAccounted
    /\ part = "settings" => Settings!SettingsFollowFile /\ Settings!HandedOn
    /\ part = "listed" => Listed!ChangeIsNoticed /\ Listed!NothingIsLeft /\
        Listed!FetchesAreSpaced
    /\ part = "allocation" => Allocation!LearnedFits

\* A crash loses no fresh entry.
FreshSurvive == [][part = "disk" => Disk!FreshSurviveStep]_vars

\* What is read from a file is true: the records are in order and the newest
\* are there, the counts of a host come back newest, the search for the size is
\* stopped no more often than it may be, the history is in order and counts what
\* happened, and a day has one line, which counts its samples once, and a
\* snapshot.
FilesTellTheTruth ==
    /\ part = "recent" => Recent!RecentFileSound
    /\ part = "hosts" => HostFile!SkippedIsOnDisk /\ HostFile!RestoredIsNewest
    /\ part = "allocation" => Allocation!KillsBounded
    /\ part = "numbers" => Numbers!InOrder /\ Numbers!AggregatesAreTrue /\
        Numbers!FileKeepsNewest /\ Numbers!NoMixture
    /\ part = "days" => Daily!OneLineADay /\ Daily!LinesAreTrue /\ Daily!WholeDay /\
        Daily!DaysAreKept

===============================================================================
