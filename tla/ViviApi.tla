------------------------------ MODULE ViviApi ------------------------------
(***************************************************************************)
(* How the browser's clients ask the Node server, and what they make of its *)
(* answers (infrastructure/vivi-api/*ViviClient.ts, client-errors.ts and    *)
(* http/http-server.ts).  A method of the port ViviClient becomes a GraphQL *)
(* operation or a few REST routes; each leads to calls of the service, and   *)
(* one of those may fail.                                                   *)
(***************************************************************************)
EXTENDS Integers, Sequences, FiniteSets, SequencesExt

\* What a call of the service comes to: an answer, an error of the file system
\* by its code, or an error of the service by its message.
FileSystemCodes == {"ENOENT", "ENOTDIR", "EISDIR", "EACCES", "EPERM", "EIO"}
PublicNotFound == {"path is not a file", "path is not an HTML file"}
PublicRequest == {"path is excluded", "path escapes root", "thread id is required",
                  "comment write APIs require application/json"}
InternalErrors == {"thread not found", "unsupported GraphQL operation", "path is not a directory"}
Outcomes == {"ok", "file is too large to preview"} \cup FileSystemCodes \cup
            PublicNotFound \cup PublicRequest \cup InternalErrors

-----------------------------------------------------------------------------
(* The server: GraphQL *)

\* The operations that can be found in the text of a query, in the order in which
\* they are looked for; a name is made of words.
Named == << <<"Vivi", "Workspace">>, <<"Vivi", "Tree">>, <<"Vivi", "Config">>,
            <<"Vivi", "File", "Context">>, <<"Vivi", "File">>, <<"Vivi", "Comments">>,
            <<"Vivi", "Comment", "Threads">>, <<"Vivi", "Comment", "Thread", "Activities">>,
            <<"Vivi", "Draft", "Review", "Comments">>, <<"Vivi", "Comment", "Export">>,
            <<"Vivi", "Review", "Queue">>, <<"Vivi", "Diff", "Bases">>, <<"Vivi", "Diff">>,
            <<"Vivi", "File", "Search">>, <<"Vivi", "Text", "Search">>, <<"Vivi", "Meta">>,
            <<"Vivi", "Preview">>, <<"Create", "Comment">>,
            <<"Create", "Draft", "Review", "Comment">>, <<"Update", "Draft", "Review", "Comment">>,
            <<"Delete", "Draft", "Review", "Comment">>, <<"Publish", "Draft", "Review", "Comments">>,
            <<"Create", "Thread">>, <<"Add", "Comment">>, <<"Update", "Comment">> >>

Unnamed == <<>>

\* The fault of looking for the shorter of two names first.
Sorted(names) == Reverse(names)
Listed(names) == names
Candidates(names) == Listed(names)

\* An operation is named by the request, or found in the text of its query.
GraphqlOperation(operationName, query) ==
    IF operationName # Unnamed THEN operationName
    ELSE LET found == {i \in DOMAIN Named : IsPrefix(Candidates(Named)[i], query)}
         IN  IF found = {} THEN Unnamed
             ELSE Candidates(Named)[CHOOSE i \in found : \A j \in found : i <= j]

\* What an operation asks of the service.
ResolverCalls(operation, input) ==
    CASE operation = "ViviWorkspace" -> {"readDirectory", "getConfig"}
      [] operation = "ViviTree" ->
            IF input.path \/ input.depth THEN {"readDirectory"} ELSE {"readTree"}
      [] operation = "ViviConfig" -> {"getConfig"}
      [] operation = "ViviFileContext" ->
            {"readFile"} \cup
            (IF input.comments THEN {"listComments", "listCommentThreads"} ELSE {}) \cup
            (IF input.diff THEN {"readDiff"} ELSE {})
      [] operation = "ViviComments" -> {"listComments", "listCommentThreads"}
      [] operation = "ViviCommentThreads" -> {"listCommentThreads"}
      [] operation = "ViviCommentThreadActivities" -> {"listCommentThreadActivities"}
      [] operation = "ViviDraftReviewComments" -> {"listDraftReviewComments"}
      [] operation = "ViviCommentExport" -> {"exportCommentsAsJsonl"}
      [] operation = "ViviReviewQueue" -> {"readChanges"}
      [] operation = "ViviDiff" -> {"readDiff"}
      [] operation = "ViviFileSearch" -> {"searchFiles"}
      [] operation = "ViviTextSearch" -> {"searchText"}
      [] operation = "CreateComment" -> {"createComment"}
      [] operation = "CreateDraftReviewComment" -> {"createDraftReviewComment"}
      [] operation = "UpdateDraftReviewComment" -> {"updateDraftReviewComment"}
      [] operation = "DeleteDraftReviewComment" -> {"deleteDraftReviewComment"}
      [] operation = "PublishDraftReviewComments" -> {"publishDraftReviewComments"}
      [] OTHER -> {}     \* no case: the operation is not supported

\* GraphQL answers every failure with the message of the error.
GraphqlError(outcome) == [status |-> 200, error |-> outcome]

-----------------------------------------------------------------------------
(* The server: REST *)

RouteCalls(route, input) ==
    CASE route = "GET /api/tree" -> {"readDirectory"}     \* the clients always give a depth
      [] route = "GET /api/config" -> {"getConfig"}
      [] route = "GET /api/file" -> {"readFile"}
      [] route = "GET /api/v1/comments" -> {"listComments"}
      [] route = "GET /api/v1/comments/export" -> {"exportCommentsAsJsonl"}
      [] route = "GET /api/changes" -> {"readChanges"}
      [] route = "GET /api/diff" -> {"readDiff"}
      [] route = "GET /api/files" -> {"searchFiles"}
      [] route = "GET /api/search" -> {"searchText"}
      [] route = "GET /api/v1/review-ledger" -> {"readReviewLedger"}
      [] route = "PUT /api/v1/review-ledger" -> {"saveReviewLedger"}
      [] route = "POST /api/v1/comments" -> {"createComment"}

StatusForPublicError(message) ==
    CASE message = "file is too large to preview" -> 413
      [] message \in PublicNotFound -> 404
      [] message \in PublicRequest -> 400
      [] OTHER -> 500

StatusForFileSystemCode(code) ==
    CASE code \in {"ENOENT", "ENOTDIR"} -> 404
      [] code = "EISDIR" -> 400
      [] code \in {"EACCES", "EPERM"} -> 403
      [] OTHER -> 500

\* The fault of looking at the message only.
NormalizeByMessage(outcome) == [status |-> StatusForPublicError(outcome), error |-> outcome]

NormalizeHttpError(outcome) ==
    [status |-> IF outcome \in FileSystemCodes THEN StatusForFileSystemCode(outcome)
                ELSE StatusForPublicError(outcome),
     error |-> outcome]

HttpError(outcome) == NormalizeHttpError(outcome)

-----------------------------------------------------------------------------
(* The clients *)

\* The operation that both GraphQL clients send for a method.
QueryOf ==
    [getWorkspace |-> "ViviWorkspace", getTree |-> "ViviTree", getConfig |-> "ViviConfig",
     getFileContext |-> "ViviFileContext", getComments |-> "ViviComments",
     getCommentThreads |-> "ViviCommentThreads", exportComments |-> "ViviCommentExport",
     getDraftReviewComments |-> "ViviDraftReviewComments", getReviewQueue |-> "ViviReviewQueue",
     getDiff |-> "ViviDiff", searchFiles |-> "ViviFileSearch", searchText |-> "ViviTextSearch",
     getCommentThreadActivities |-> "ViviCommentThreadActivities",
     getDocumentAttention |-> "DocumentAttention"]

MutationOf ==
    [createComment |-> "CreateComment", createDraftReviewComment |-> "CreateDraftReviewComment",
     updateDraftReviewComment |-> "UpdateDraftReviewComment",
     deleteDraftReviewComment |-> "DeleteDraftReviewComment",
     deletePublishedComment |-> "DeletePublishedComment",
     publishDraftReviewComments |-> "PublishDraftReviewComments"]

OperationOf == QueryOf @@ MutationOf

Ledger == [getReviewLedger |-> "GET /api/v1/review-ledger",
           saveReviewLedger |-> "PUT /api/v1/review-ledger"]

\* The fault of leaving what is only asked for at times out of the other routes.
FileOnly(method, input) == {"GET /api/file"}
FileRoutes(method, input) ==
    {"GET /api/file"} \cup
    (IF input.comments THEN {"GET /api/v1/comments"} ELSE {}) \cup
    (IF input.diff THEN {"GET /api/diff"} ELSE {})
FileContextRoutes(method, input) == FileRoutes(method, input)

\* The routes of the REST client; it has none for drafts, deletion and activities.
RoutesOf(method, input) ==
    CASE method = "getWorkspace" -> {"GET /api/tree", "GET /api/config"}
      [] method = "getTree" -> {"GET /api/tree"}
      [] method = "getConfig" -> {"GET /api/config"}
      [] method = "getFileContext" -> FileContextRoutes(method, input)
      [] method \in {"getComments", "getCommentThreads"} -> {"GET /api/v1/comments"}
      [] method = "exportComments" -> {"GET /api/v1/comments/export"}
      [] method = "getReviewQueue" -> {"GET /api/changes"}
      [] method = "getDiff" -> {"GET /api/diff"}
      [] method = "createComment" -> {"POST /api/v1/comments"}
      [] method = "searchFiles" -> {"GET /api/files"}
      [] method = "searchText" -> {"GET /api/search"}
      [] method \in DOMAIN Ledger -> {Ledger[method]}
      [] OTHER -> {}

Methods == DOMAIN OperationOf \cup DOMAIN Ledger

\* The clients ask for a tree of depth 1 unless they are told another; the GraphQL
\* clients ask for the ledger by its routes.
CallsOf(client, method, input) ==
    IF client = "graphql" /\ method \in DOMAIN OperationOf
    THEN ResolverCalls(OperationOf[method], [input EXCEPT !.depth = TRUE])
    ELSE UNION {RouteCalls(route, input) : route \in
                    IF client = "rest" THEN RoutesOf(method, input) ELSE {Ledger[method]}}

\* viviClientHttpError.
ViviClientHttpError(answer) ==
    CASE answer.status = 404 -> "not_found"
      [] answer.status = 403 -> "forbidden"
      [] OTHER -> "transport"

\* viviClientGraphqlError: the words of Node's errors that tell the code.
SaysMissing(error) == error = "ENOENT"     \* "no such file or directory"
SaysForbidden(error) == error = "EACCES"   \* "permission denied"

ViviClientGraphqlError(answer) ==
    CASE SaysMissing(answer.error) -> "not_found"
      [] SaysForbidden(answer.error) -> "forbidden"
      [] OTHER -> "transport"

\* What the caller of a method sees when one of its calls comes to outcome.  Without
\* attention on the server the page keeps its own; REST has no drafts to list.
Seen(client, method, input, outcome) ==
    LET unsupported == CallsOf(client, method, input) = {}
    IN  CASE unsupported /\ method \in {"getDocumentAttention", "getDraftReviewComments"} -> "ok"
          [] unsupported -> "transport"
          [] outcome = "ok" -> "ok"
          [] client = "graphql" /\ method \in DOMAIN OperationOf ->
                ViviClientGraphqlError(GraphqlError(outcome))
          [] client = "rest" /\ method = "exportComments" -> "transport"
          [] OTHER -> ViviClientHttpError(HttpError(outcome))

=============================================================================
