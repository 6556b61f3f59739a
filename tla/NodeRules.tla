----------------------------- MODULE NodeRules ------------------------------
(***************************************************************************)
(* What the Node server makes of the paths, globs, Git listings, files and *)
(* search words it is given (domain/path-policy.ts, domain/change-         *)
(* review.ts, domain/search.ts, infrastructure/git-change-review.ts and    *)
(* infrastructure/node-file-system.ts), with small inputs of these rules   *)
(* and what must hold of their answers.                                    *)
(*                                                                         *)
(* A path is a sequence of segments, a word a sequence of letters, a file  *)
(* a sequence of kinds of byte.                                            *)
(***************************************************************************)
EXTENDS ViviApi

CONSTANTS
    Rejected,     \* what is not accepted, or not found
    MaxExcerpt    \* the longest piece of a line that is shown (220)

Up == ".."
Here == "."

-----------------------------------------------------------------------------
(* Paths *)

Step(path, segment) ==
    CASE path = Rejected -> Rejected
      [] segment = Here -> path
      [] segment = Up -> IF path = <<>> THEN Rejected ELSE Front(path)
      [] OTHER -> Append(path, segment)

\* The fault of staying at the root instead.
StepToRoot(path, segment) ==
    IF segment = Up THEN IF path = <<>> THEN path ELSE Front(path)
    ELSE IF segment = Here THEN path ELSE Append(path, segment)

Enter(path, segment) == Step(path, segment)

NormalizeRelativePath(raw) ==
    IF raw.absolute THEN Rejected ELSE FoldLeft(Enter, <<>>, raw.segments)

IsIgnoredPath(path, ignored) == ToSet(path) \cap ignored # {}

\* A glob of one segment: a name, or any name.
AnyName == "*"
AnyPath == "**"
TestSegment(glob, segment) == glob = AnyName \/ glob = segment

\* Only what has a slash inside is tied to the root; a slash at the end takes
\* what is below with it.
CompileExcludePattern(glob) ==
    (IF Len(glob.segments) = 1 THEN <<AnyPath>> ELSE <<>>) \o glob.segments \o
    (IF glob.directory THEN <<AnyPath>> ELSE <<>>)

\* The fault of ** taking one segment and no more.
TakesOne(pattern, target, i, j) == FALSE
TakesMore(pattern, target, i, j) == pattern[i] = AnyPath

GoesOn(pattern, target, i, j) == TakesMore(pattern, target, i, j)

MatchExcludeSegments(pattern, target) ==
    LET match[i \in 1 .. Len(pattern) + 1, j \in 1 .. Len(target) + 1] ==
            IF i > Len(pattern) THEN j > Len(target)
            ELSE IF pattern[i] = AnyPath
            THEN match[i + 1, j] \/
                 (j <= Len(target) /\ IF GoesOn(pattern, target, i, j) THEN match[i, j + 1]
                                      ELSE match[i + 1, j + 1])
            ELSE /\ j <= Len(target)
                 /\ TestSegment(pattern[i], target[j])
                 /\ match[i + 1, j + 1]
    IN  match[1, 1]

IsExcluded(globs, path) ==
    path # <<>> /\ \E glob \in globs : MatchExcludeSegments(CompileExcludePattern(glob), path)

IsHiddenPath(globs, ignored, path) == IsExcluded(globs, path) \/ IsIgnoredPath(path, ignored)

\* A pattern matches if the path can be cut into one piece for each of its parts.
IsCutOf(cut, pattern, target) ==
    /\ cut[0] = 0 /\ cut[Len(pattern)] = Len(target)
    /\ \A i \in 1 .. Len(pattern) :
          IF pattern[i] = AnyPath THEN cut[i - 1] <= cut[i]
          ELSE cut[i] = cut[i - 1] + 1 /\ TestSegment(pattern[i], target[cut[i]])

Means(pattern, target) ==
    \E cut \in [0 .. Len(pattern) -> 0 .. Len(target)] : IsCutOf(cut, pattern, target)

-----------------------------------------------------------------------------
(* What Git lists *)

\* The letters of an entry's code, in the order of importance.
StatusFromCode(code) ==
    CASE "R" \in code -> "renamed"
      [] code = {"?"} \/ "A" \in code -> "added"
      [] "D" \in code -> "deleted"
      [] code \cap {"M", "T"} # {} -> "modified"
      [] OTHER -> Rejected

\* Of a rename, the path it had follows as an entry of its own, which has no code but
\* may begin like one.
Entries(listed) ==
    FlattenSeq([i \in DOMAIN listed |->
        <<[code |-> listed[i].code, path |-> listed[i].path]>> \o
        (IF "R" \in listed[i].code
         THEN <<[code |-> {"M"}, path |-> listed[i].original]>> ELSE <<>>)])

\* The list is sorted by path in the end: a set.
ParseGitPorcelainStatus(entries) ==
    LET from[i \in 1 .. Len(entries) + 2] ==
            IF i > Len(entries) THEN {}
            ELSE LET status == StatusFromCode(entries[i].code)
                 IN  IF status = Rejected THEN from[i + 1]
                     ELSE {[path |-> entries[i].path, status |-> status,
                            original |-> IF status = "renamed" THEN entries[i + 1].path
                                         ELSE Rejected]} \cup from[i + IF status = "renamed" THEN 2 ELSE 1]
    IN  from[1]

GitPathToWorkspacePath(path, prefix) ==
    IF IsStrictPrefix(prefix, path) THEN SubSeq(path, Len(prefix) + 1, Len(path)) ELSE Rejected

\* The fault of losing what is renamed out of the workspace.
RenamedAway(change, path, original) ==
    IF path = Rejected THEN Rejected
    ELSE [path |-> path, original |-> original,
          status |-> IF original = Rejected THEN "added" ELSE "renamed"]

RenamedHere(change, path, original) ==
    CASE path # Rejected /\ original # Rejected ->
            [path |-> path, original |-> original, status |-> "renamed"]
      [] path # Rejected -> [path |-> path, original |-> Rejected, status |-> "added"]
      [] original # Rejected -> [path |-> original, original |-> Rejected, status |-> "deleted"]
      [] OTHER -> Rejected

Renamed(change, path, original) == RenamedHere(change, path, original)

GitChangeToWorkspaceChange(change, prefix) ==
    LET path == GitPathToWorkspacePath(change.path, prefix)
        original == IF change.original = Rejected THEN Rejected
                    ELSE GitPathToWorkspacePath(change.original, prefix)
    IN  CASE change.status = "renamed" -> Renamed(change, path, original)
          [] path = Rejected -> Rejected
          [] OTHER -> [path |-> path, original |-> Rejected, status |-> change.status]

WorkspaceChanges(listed, prefix) ==
    {GitChangeToWorkspaceChange(change, prefix) :
        change \in ParseGitPorcelainStatus(Entries(listed))} \ {Rejected}

\* What a list of changes says of the files: which are gone, new and different.
Effect(changes) ==
    [gone |-> {c.path : c \in {d \in changes : d.status = "deleted"}} \cup
              {c.original : c \in {d \in changes : d.status = "renamed"}},
     new |-> {c.path : c \in {d \in changes : d.status \in {"added", "renamed"}}},
     different |-> {c.path : c \in {d \in changes : d.status = "modified"}}]

-----------------------------------------------------------------------------
(* Files *)

\* Kinds of byte: one letter, a control character, a zero, the first and the
\* second byte of a letter of two, and what is in no letter.
Bytes == {"letter", "control", "zero", "lead", "rest", "wrong"}

Decodes(bytes) ==
    \A i \in DOMAIN bytes :
        /\ bytes[i] # "wrong"
        /\ bytes[i] = "lead" => i < Len(bytes) /\ bytes[i + 1] = "rest"
        /\ bytes[i] = "rest" => i > 1 /\ bytes[i - 1] = "lead"

Tally(bytes, kinds) == Cardinality({i \in DOMAIN bytes : bytes[i] \in kinds})

\* The fault of not trying again with less.
NoCuts(bytes) == {Len(bytes)}
AllCuts(bytes) == 0 .. Len(bytes)
Cuts(bytes) == AllCuts(bytes)

SafeUtf8Text(bytes, partial) ==
    LET cuts == {n \in IF partial THEN Cuts(bytes) ELSE {Len(bytes)} : Decodes(SubSeq(bytes, 1, n))}
        longest == CHOOSE n \in cuts : \A m \in cuts : m <= n
        text == SubSeq(bytes, 1, longest)
    IN  IF \/ "zero" \in ToSet(bytes) \/ cuts = {}
           \/ Tally(text, {"control"}) * 100 > 2 * Tally(text, Bytes \ {"rest"})
        THEN Rejected ELSE text

TextKinds == {"markdown", "html", "code", "text", "json", "mermaid"}
SupportsPartialTextPreview(kind) == kind \in TextKinds \ {"html"}

SniffFallbackViewerKind(kind, bytes) ==
    IF kind # "unsupported" THEN kind
    ELSE IF SafeUtf8Text(bytes, TRUE) = Rejected THEN "binary" ELSE "text"

Payload(kind, encoding, content, truncated) ==
    [kind |-> kind, encoding |-> encoding, content |-> content, truncated |-> truncated]

PreviewPayload(kind, bytes) ==
    LET text == SafeUtf8Text(bytes, TRUE)
    IN  CASE ~SupportsPartialTextPreview(kind) -> Payload(kind, "none", <<>>, TRUE)
          [] text = Rejected -> Payload("binary", "none", <<>>, TRUE)
          [] OTHER -> Payload(kind, "utf8", text, TRUE)

WholePayload(kind, bytes) ==
    LET text == SafeUtf8Text(bytes, FALSE)
    IN  CASE kind = "image" -> Payload(kind, "base64", bytes, FALSE)
          [] kind = "binary" \/ text = Rejected -> Payload("binary", "none", <<>>, FALSE)
          [] OTHER -> Payload(kind, "utf8", text, FALSE)

ReadFilePayload(kind, bytes, limit) ==
    IF Len(bytes) > limit
    THEN LET leading == SubSeq(bytes, 1, IF limit < 1 THEN 1 ELSE limit)
         IN  PreviewPayload(SniffFallbackViewerKind(kind, leading), leading)
    ELSE WholePayload(SniffFallbackViewerKind(kind, bytes), bytes)

-----------------------------------------------------------------------------
(* Searching *)

\* Where a word starts in a name, from 0; -1 when it does not.
IndexOfWord(word, name) ==
    LET at == {i \in 0 .. Len(name) - Len(word) :
                  SubSeq(name, i + 1, i + Len(word)) = word}
    IN  IF at = {} THEN -1 ELSE CHOOSE i \in at : \A j \in at : i <= j

IsSubsequence(needle, haystack) ==
    FoldLeft(LAMBDA cursor, letter :
                 IF cursor < Len(needle) /\ needle[cursor + 1] = letter THEN cursor + 1 ELSE cursor,
             0, haystack) = Len(needle)

TermScore(term, name) ==
    LET contiguous == IndexOfWord(term, name)
    IN  IF contiguous >= 0 THEN 100 - contiguous ELSE 10

\* Every word has to be found.
FileSearchScore(name, terms) ==
    IF \E i \in DOMAIN terms : ~IsSubsequence(terms[i], name) THEN 0
    ELSE FoldLeft(LAMBDA sum, term : sum + TermScore(term, name), 0, terms)

\* The fault of leaving equals in the order in which they were found.
ByScore(a, b) == a.score > b.score
ByScoreAndPath(a, b) == a.score > b.score \/ (a.score = b.score /\ a.id < b.id)
Precedes(a, b) == ByScoreAndPath(a, b)

\* Sorting is stable: an item stays behind those it does not precede.
InsertRanked(items, item, limit) ==
    LET behind == {i \in DOMAIN items : ~Precedes(item, items[i])}
        sorted == InsertAt(items, Cardinality(behind) + 1, item)
    IN  SubSeq(sorted, 1, IF Len(sorted) < limit THEN Len(sorted) ELSE limit)

\* Without a word, the first files of the walk are what is asked for.
SearchFiles(files, terms, limit) ==
    FoldLeft(LAMBDA results, file :
                 LET score == IF terms = <<>> THEN 1 ELSE FileSearchScore(file.name, terms)
                 IN  IF score <= 0 \/ (terms = <<>> /\ Len(results) >= limit) THEN results
                     ELSE InsertRanked(results, [id |-> file.id, score |-> score], limit),
             <<>>, files)

Smaller(a, b) == IF a < b THEN a ELSE b
Greater(a, b) == IF a > b THEN a ELSE b

\* The fault of counting from the cut, but not what is put before it.
ShiftPlain(start, prefix) == -start
ShiftAll(start, prefix) == prefix - start
Shift(start, prefix) == ShiftAll(start, prefix)

ExcerptLine(length, matchStart, matchLength) ==
    IF length <= MaxExcerpt
    THEN [start |-> 0, end |-> length, prefix |-> 0, matchStart |-> matchStart]
    ELSE LET context == (MaxExcerpt - matchLength) \div 2
             start == Smaller(Greater(0, matchStart - context), Greater(0, length - MaxExcerpt))
             prefix == IF start > 0 THEN 3 ELSE 0
         IN  [start |-> start, end |-> Smaller(length, start + MaxExcerpt), prefix |-> prefix,
              matchStart |-> matchStart + Shift(start, prefix)]

-----------------------------------------------------------------------------
(* Small inputs of the rules *)

VARIABLES input, done, answer

Of(what) == done /\ input.what = what

-----------------------------------------------------------------------------
(* Inputs *)

RawPaths == [what : {"path"}, absolute : BOOLEAN, segments : BoundedSeq({"a", Up, Here}, 4)]

Globs == [segments : BoundedSeq({"a", AnyName, AnyPath}, 2) \ {<<>>}, directory : BOOLEAN]
Exclusions == [what : {"exclude"}, glob : Globs, path : BoundedSeq({"a", "b"}, 3) \ {<<>>}]

\* Git lists paths of the repository; the workspace is all of it or a directory.
GitPaths == {<<"x">>, <<"w", "y">>, <<"w", "z">>, <<"w", "w", "y">>}
Letters == {{"M"}, {"T"}, {"A"}, {"A", "M"}, {"D"}, {"?"}, {}}
Plainly == [code : Letters, path : GitPaths, original : {Rejected}]
Renames == {r \in [code : {{"R"}, {"R", "M"}}, path : GitPaths, original : GitPaths] :
               r.path # r.original}
Listings == [what : {"git"}, listed : BoundedSeq(Plainly \cup Renames, 2),
             prefix : {<<>>, <<"w">>}]

Files == [what : {"file"}, bytes : BoundedSeq(Bytes, 4), limit : 0 .. 3,
          kind : {"text", "html", "image", "binary", "unsupported"}]

\* Paths differ in what no word contains; an index keeps them in any order.
Names == {<<"a">>, <<"a", "b">>, <<"b", "a">>, <<"a", "b", "a">>}
Indexes == {[i \in 1 .. 3 |-> [id |-> order[i], name |-> names[order[i]]]] :
               order \in {<<1, 2, 3>>, <<3, 2, 1>>, <<2, 3, 1>>}, names \in [1 .. 3 -> Names]}
Searches == [what : {"search"}, files : Indexes, limit : 1 .. 3,
             terms : BoundedSeq({<<"a">>, <<"b">>, <<"a", "b">>, <<"a", "a">>}, 2)]

Hits == {hit \in [what : {"hit"}, length : 1 .. 3 * MaxExcerpt, matchStart : 0 .. 3 * MaxExcerpt,
                  matchLength : 1 .. MaxExcerpt] : hit.matchStart + hit.matchLength <= hit.length}

Arguments == [path : BOOLEAN, depth : BOOLEAN, comments : BOOLEAN, diff : BOOLEAN]
ApiCalls == [what : {"api"}, method : Methods, arguments : Arguments, outcome : Outcomes]

Queries == [what : {"query"}, name : ToSet(Named), named : BOOLEAN]

NodeInputs == RawPaths \cup Exclusions \cup Listings \cup Files \cup Searches \cup Hits \cup
              ApiCalls \cup Queries

Calls(client) == CallsOf(client, input.method, input.arguments)

NodeAnswer ==
    CASE input.what = "path" -> NormalizeRelativePath(input)
      [] input.what = "exclude" -> IsExcluded({input.glob}, input.path)
      [] input.what = "git" -> WorkspaceChanges(input.listed, input.prefix)
      [] input.what = "file" -> ReadFilePayload(input.kind, input.bytes, input.limit)
      [] input.what = "search" -> SearchFiles(input.files, input.terms, input.limit)
      [] input.what = "hit" -> ExcerptLine(input.length, input.matchStart, input.matchLength)
      [] input.what = "query" ->
            GraphqlOperation(IF input.named THEN input.name ELSE Unnamed, input.name)
      [] input.what = "api" ->
            [client \in {"graphql", "rest"} |->
                Seen(client, input.method, input.arguments, input.outcome)]

-----------------------------------------------------------------------------
(* Properties *)

\* A path is accepted exactly if no beginning of it leads out of the root; what is
\* accepted has only names, and is accepted again as it is.
PathsStayInside ==
    Of("path") =>
        LET Count(n, segment) == Cardinality({i \in 1 .. n : input.segments[i] = segment})
            leaves == \E n \in 0 .. Len(input.segments) : Count(n, Up) > Count(n, "a")
        IN  /\ answer = Rejected <=> (input.absolute \/ leaves)
            /\ answer # Rejected =>
                  /\ ToSet(answer) \subseteq {"a"}
                  /\ NormalizeRelativePath([absolute |-> FALSE, segments |-> answer]) = answer

\* A glob hides the paths that can be cut into its parts, and a directory's glob
\* everything below the directory.
ExcludesMeanTheirGlob ==
    Of("exclude") =>
        /\ answer <=> Means(CompileExcludePattern(input.glob), input.path)
        /\ answer /\ input.glob.directory => IsExcluded({input.glob}, Append(input.path, "b"))

\* A change as Git means it.
Meant(entry) ==
    CASE entry.original # Rejected ->
            [gone |-> {entry.original}, new |-> {entry.path}, different |-> {}]
      [] entry.code \in {{"A"}, {"A", "M"}, {"?"}} ->
            [gone |-> {}, new |-> {entry.path}, different |-> {}]
      [] entry.code = {"D"} -> [gone |-> {entry.path}, new |-> {}, different |-> {}]
      [] entry.code = {} -> [gone |-> {}, new |-> {}, different |-> {}]
      [] OTHER -> [gone |-> {}, new |-> {}, different |-> {entry.path}]

Within(paths) ==
    {SubSeq(p, Len(input.prefix) + 1, Len(p)) : p \in {q \in paths : IsPrefix(input.prefix, q)}}

\* The workspace's list says of its files what Git says of them, whatever is renamed
\* across the workspace's border.
GitListIsKept ==
    Of("git") => \A kind \in {"gone", "new", "different"} :
        Effect(answer)[kind] =
            Within(UNION {Meant(entry)[kind] : entry \in ToSet(input.listed)})

\* A file is shown whole or marked as cut, a text up to its last whole letter; what
\* is not text is never shown as text.
PayloadsAreWhatTheFileIs ==
    Of("file") =>
        LET bytes == input.bytes
            readable == Decodes(bytes) /\ ToSet(bytes) \cap {"zero", "control"} = {}
        IN  /\ answer.truncated <=> Len(bytes) > input.limit
            /\ answer.kind # "unsupported"
            /\ answer.encoding = "utf8" =>
                  /\ IsPrefix(answer.content, bytes) /\ Decodes(answer.content)
                  /\ "zero" \notin ToSet(answer.content)
                  /\ answer.truncated \/ answer.content = bytes
            /\ readable /\ input.kind \in {"text", "unsupported"} =>
                  /\ answer.encoding = "utf8"
                  /\ answer.truncated => Len(answer.content) >= input.limit - 1

\* The best matches are found, in their order, however the index is ordered.
BestMatchesAreKept ==
    Of("search") /\ input.terms # <<>> =>
        LET score == [file \in ToSet(input.files) |-> FileSearchScore(file.name, input.terms)]
            found == {file \in DOMAIN score : score[file] > 0}
            Better(f, g) == score[f] > score[g] \/ (score[f] = score[g] /\ f.id < g.id)
        IN  /\ Len(answer) = Smaller(input.limit, Cardinality(found))
            /\ \A i \in DOMAIN answer : \E f \in found :
                  /\ f.id = answer[i].id
                  /\ Cardinality({g \in found : Better(g, f)}) = i - 1

\* The letters that are marked in an excerpt are the match.
MatchIsMarked ==
    Of("hit") =>
        /\ answer.matchStart - answer.prefix + answer.start = input.matchStart
        /\ answer.start <= input.matchStart
        /\ input.matchStart + input.matchLength <= answer.end
        /\ answer.end - answer.start <= MaxExcerpt

\* An operation is found in the text of its query, unless it is the file search,
\* whose text contains the name of another.
OperationsAreFoundByName ==
    Of("query") => answer = input.name \/ (~input.named /\ input.name = <<"Vivi", "File", "Search">>)

\* Both clients ask the service the same, but REST leaves it to the browser to make
\* the threads of the comments.
ClientsAskTheSame ==
    Of("api") /\ Calls("rest") # {} =>
        IF input.method = "getCommentThreads" THEN Calls("rest") = {"listComments"}
        ELSE Calls("rest") = Calls("graphql") \ {"listCommentThreads"}

\* A file is said to be missing only when it is, by either client, and a file that
\* may not be read is told from one that is gone.
MissingMeansMissing ==
    Of("api") => \A client \in {"graphql", "rest"} :
        LET fails == Calls(client) # {} /\ ~(client = "rest" /\ input.method = "exportComments")
        IN  /\ answer[client] = "not_found" =>
                  input.outcome \in {"ENOENT", "ENOTDIR"} \cup PublicNotFound
            /\ fails /\ input.outcome = "ENOENT" => answer[client] = "not_found"
            /\ fails /\ input.outcome = "EACCES" => answer[client] = "forbidden"

=============================================================================
