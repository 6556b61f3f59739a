------------------------------ MODULE NodeFiles ------------------------------
(***************************************************************************)
(* Reading the workspace in the Node server:                                 *)
(* server/typescript/infrastructure/node-file-system.ts.                      *)
(*                                                                         *)
(* The tree and the searches walk the disk: a directory is listed, then each of  *)
(* its entries is looked at, while the workspace goes on changing.  Names are    *)
(* searched in an index that is kept for a while after it was made.            *)
(***************************************************************************)
EXTENDS Integers, FiniteSets

CONSTANTS Names,        \* files; a listing begins with the highest
          InFolder,     \* those in the one directory, which is listed last
          HiddenFiles,       \* ignored or excluded ones: not even looked at
          Unlisted,     \* those with an extension that is not included
          Kinds,        \* what may be there, see below
          Readers,      \* requests
          FileIndexTtl, \* fileIndexTtlMs, in ticks of the clock
          Limit,        \* the most hits of a search
          MaxClock,     \* bound: ticks
          MaxChanges    \* bound: changes of the workspace

ASSUME FilesAssumption ==
    /\ Names \subseteq Nat \ {0} /\ InFolder \cup HiddenFiles \cup Unlisted \subseteq Names
    \* A hit has the text that is searched for; a large file is above maxFileSizeBytes; a dangling
    \* link is listed but cannot be looked at.
    /\ {"gone", "hit"} \subseteq Kinds /\ Kinds \subseteq {"gone", "hit", "other", "large", "binary", "dangling"}
    /\ FileIndexTtl \in Nat /\ Limit \in Nat \ {0} /\ MaxClock \in Nat /\ MaxChanges \in Nat

VARIABLES
    disk,               \* each name: gone, or what is there
    since,              \* when it last changed
    now, changes,
    fileIndexCache,     \* the index, when it was begun, and whether there is one
    reads               \* each request: its kind and step, the entries it still looks at, what it found, its answer

filesVars == <<disk, since, now, changes, fileIndexCache, reads>>

Folder == 0
OpenFolder == -1
IdleRead == [kind |-> "none", step |-> "idle", todo |-> {}, found |-> {}, startedAt |-> 0, still |-> {},
             answered |-> FALSE, failed |-> FALSE]
Answered(read) == read.answered /\ ~read.failed

FilesTypeOK ==
    /\ disk \in [Names -> Kinds] /\ \A n \in Names : since[n] <= now
    /\ fileIndexCache.files \subseteq Names \ (HiddenFiles \cup Unlisted)
    /\ \A r \in Readers : /\ reads[r].step \in {"idle", "walk", "read"} /\ reads[r].found \subseteq Names \ (HiddenFiles \cup Unlisted)
                          /\ reads[r].kind \in {"text", "list"} => Cardinality(reads[r].found) <= Limit

FilesInit ==
    /\ disk \in [Names -> {"gone", "hit"}] /\ since = [n \in Names |-> 0] /\ now = 0 /\ changes = 0
    /\ fileIndexCache = [made |-> FALSE, files |-> {}, createdAt |-> 0]
    /\ reads = [r \in Readers |-> IdleRead]

\* isHiddenPath
Seen(names) == {n \in names \ HiddenFiles : disk[n] # "gone"}

FolderExists == \E n \in InFolder : disk[n] # "gone"

\* readdir of the root, and of the directory in it.
Readdir == Seen(Names \ InFolder) \cup (IF FolderExists THEN {Folder} ELSE {})

Walk(kind) == [IdleRead EXCEPT !.kind = kind, !.step = "walk", !.todo = Readdir, !.startedAt = now, !.still = Names]

\* readTree, searchText, and searchFiles without a query.
StartWalk(r, kind) ==
    /\ reads[r].step = "idle" /\ kind \in {"tree", "text", "list"}
    /\ reads' = [reads EXCEPT ![r] = Walk(kind)]
    /\ UNCHANGED <<disk, since, now, changes, fileIndexCache>>

IsFresh == fileIndexCache.made /\ now - fileIndexCache.createdAt <= FileIndexTtl

\* searchFiles: an index that is young enough is used as it is.
ReadFileIndex(r) ==
    /\ reads[r].step = "idle"
    /\ reads' = [reads EXCEPT ![r] =
          IF IsFresh THEN [IdleRead EXCEPT !.kind = "names", !.found = fileIndexCache.files, !.startedAt = now,
                                           !.still = Names, !.answered = TRUE]
                     ELSE Walk("names")]
    /\ UNCHANGED <<disk, since, now, changes, fileIndexCache>>

\* The error of one entry ends the whole read: only the listing of a directory below the root is
\* guarded, and only in a search.
Fails(r) == [IdleRead EXCEPT !.kind = reads[r].kind, !.still = reads[r].still, !.startedAt = reads[r].startedAt,
                             !.answered = TRUE, !.failed = TRUE]

\* (The fault of a search without a limit.)
NeverFull(r) == FALSE

Full(r) == reads[r].kind \in {"text", "list"} /\ Cardinality(reads[r].found) >= Limit

\* (The fault of a text search that takes a name for a hit.)
VisitedAll(r, n) == [reads[r] EXCEPT !.todo = @ \ {n}, !.found = @ \cup {n}]

\* What becomes of an entry that was looked at: a text search reads it, unless its kind or size
\* speaks against that; anything else lists it.
Visited(r, n) ==
    IF n \in Unlisted THEN [reads[r] EXCEPT !.todo = @ \ {n}]
    ELSE IF reads[r].kind # "text" THEN [reads[r] EXCEPT !.todo = @ \ {n}, !.found = @ \cup {n}]
    ELSE IF disk[n] \in {"large", "binary"} THEN [reads[r] EXCEPT !.todo = @ \ {n}]
    ELSE [reads[r] EXCEPT !.step = "read"]

\* The next entry, in the order of the listing: the directory is the last one there is.
IsNext(r, n) == n \in reads[r].todo /\ \A m \in reads[r].todo : m <= n

\* The directory is looked at, then listed.
OpensFolder(r) == IF FolderExists THEN [reads[r] EXCEPT !.todo = {OpenFolder}] ELSE Fails(r)

ListsFolder(r) ==
    IF reads[r].kind = "tree" /\ ~FolderExists THEN Fails(r) ELSE [reads[r] EXCEPT !.todo = Seen(InFolder)]

\* realPathIsInsideRoot takes what is missing for inside; stat then fails.
Look(r) ==
    /\ reads[r].step = "walk" /\ ~Full(r)
    /\ \E n \in reads[r].todo :
          /\ IsNext(r, n)
          /\ reads' = [reads EXCEPT ![r] = IF n = Folder THEN OpensFolder(r)
                                          ELSE IF n = OpenFolder THEN ListsFolder(r)
                                          ELSE IF disk[n] \in {"gone", "dangling"} THEN Fails(r)
                                          ELSE Visited(r, n)]
    /\ UNCHANGED <<disk, since, now, changes, fileIndexCache>>

\* The file is read after it was looked at; here an error only skips it.
ReadText(r) ==
    /\ reads[r].step = "read"
    /\ \E n \in reads[r].todo :
          /\ IsNext(r, n)
          /\ reads' = [reads EXCEPT ![r].step = "walk", ![r].todo = @ \ {n},
                                   ![r].found = IF disk[n] \in {"hit", "large"} THEN @ \cup {n} ELSE @]
    /\ UNCHANGED <<disk, since, now, changes, fileIndexCache>>

\* (The fault of an index that counts as young as its end.)
IndexOfNow(r) == [made |-> TRUE, files |-> reads[r].found, createdAt |-> now]

IndexOf(r) == [made |-> TRUE, files |-> reads[r].found, createdAt |-> reads[r].startedAt]

Finish(r) ==
    /\ reads[r].step = "walk" /\ (reads[r].todo = {} \/ Full(r))
    /\ reads' = [reads EXCEPT ![r].step = "idle", ![r].todo = {}, ![r].answered = TRUE]
    /\ fileIndexCache' = IF reads[r].kind = "names" THEN IndexOf(r) ELSE fileIndexCache
    /\ UNCHANGED <<disk, since, now, changes>>

DiskChanges(n, kind) ==
    /\ disk[n] # kind /\ changes < MaxChanges /\ changes' = changes + 1 /\ disk' = [disk EXCEPT ![n] = kind] /\ since' = [since EXCEPT ![n] = now]
    /\ reads' = [r \in Readers |-> [reads[r] EXCEPT !.still = @ \ {n}]]
    /\ UNCHANGED <<now, fileIndexCache>>

TimePasses == now < MaxClock /\ now' = now + 1 /\ UNCHANGED <<disk, since, changes, fileIndexCache, reads>>

FilesNext ==
    \/ \E r \in Readers :
          \/ \E kind \in {"tree", "text", "list"} : StartWalk(r, kind)
          \/ ReadFileIndex(r) \/ Look(r) \/ ReadText(r) \/ Finish(r)
    \/ \E n \in Names, kind \in Kinds : DiskChanges(n, kind)
    \/ TimePasses

-----------------------------------------------------------------------------
(* Properties *)

Listed == Names \ (HiddenFiles \cup Unlisted)
Wanted(read, n) == disk[n] # "gone" /\ (read.kind = "text" => disk[n] = "hit")

\* A walk tells the truth about every file that stayed the same while it lasted, however the rest
\* of the workspace changed: what is wanted is found, up to the limit, and nothing else is.
AnswersFitWhatStayed ==
    \A r \in Readers : LET read == reads[r] IN
        Answered(read) /\ read.kind # "names" => \A n \in Listed \cap read.still :
            /\ n \in read.found => Wanted(read, n)
            /\ Wanted(read, n) /\ n \notin read.found => Full(r)

\* A search for names may use an old index, but never knows less than the workspace as it was
\* FileIndexTtl before the question.
IndexIsRecent ==
    \A r \in Readers : LET read == reads[r] IN
        Answered(read) /\ read.kind = "names" => \A n \in Listed :
            since[n] < read.startedAt - FileIndexTtl => (n \in read.found <=> disk[n] # "gone")

\* A read fails only when the workspace changed under it, or has an entry nobody can look at.
FailuresHaveACause ==
    \A r \in Readers : reads[r].failed => (reads[r].still = Names => \E n \in Names \ HiddenFiles : disk[n] = "dangling")

\* What viewer-service.ts says of a search: "Search is best-effort because files may change
\* between tree scan and read."
SearchSurvivesRemovals == \A r \in Readers : reads[r].kind \in {"names", "text"} => ~reads[r].failed
=============================================================================
