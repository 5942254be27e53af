-------------------------- MODULE MCWorkspaceTools --------------------------
(***************************************************************************)
(* The tools for Google's services: those of ReadBeforeWrite, whose        *)
(* parameters the .cfg gives values small enough for TLC, and the others.  *)
(* Each works on a service of its own and shares no state with the others, *)
(* so a behavior is about one of them, the one in focus, and one run       *)
(* explores what each can do.                                              *)
(***************************************************************************)
EXTENDS ReadBeforeWrite, Sequences

CONSTANTS Gradient, Root, Anyone, Nobody, None, Newline, Tab

VARIABLES
    rulesRules, rulesCall, rulesReported,
    driveItem, driveCall,
    mailThread, mailApart, mailCall,
    docsBody, docsWrites, docsCall,
    headersStyle, headersSegs, headersEdits, headersCall,
    batchDoc, batchWrites, batchCall,
    chatPosts, chatCache, chatCall,
    inboxBox, inboxCall, inboxSeen,
    commentsThreads, commentsClient, commentsReading

\* Two words and a table for them, and the texts documents and headers are given.
Cells == <<<<<<"a", "b">>, <<"b">>>>>>
Run(word, bold) == [word |-> word, bold |-> bold]
Paragraph == <<[list |-> FALSE, items |-> <<<<Run(<<"a">>, FALSE), Run(<<"b">>, TRUE)>>>>]>>
Bullets == <<[list |-> TRUE, items |-> <<<<Run(<<"a">>, FALSE)>>, <<Run(<<"b">>, FALSE)>>>>]>>

\* The operations batches are made of: each kind, at an edge or across one, with the
\* fields whose handling differs.
Letters == INSTANCE BatchOperations WITH
    doc <- batchDoc, writes <- batchWrites, call <- batchCall, Menu <- {}, Other <- "o",
    MaxOps <- 0, MaxLength <- 0, MaxWrites <- 0
Operation(type, start, end, fields, levels, text) ==
    Letters!Op(type, start, end, fields, levels, text)
Operations ==
    {Operation("insert_text", 0, 0, {}, {}, <<"a", "b">>),
     Operation("insert_text", 1, 0, {}, {}, <<"b">>),
     Operation("delete_text", 1, 2, {}, {}, <<>>),
     Operation("replace_text", 2, 3, {}, {}, <<"a">>),
     Operation("format_text", 1, 3, {"bold", "family"}, {}, <<>>),
     Operation("format_text", 1, 2, {"clear", "bold"}, {}, <<>>),
     Operation("format_text", 1, 2, {"weight"}, {}, <<>>),
     Operation("format_text", 1, 2, {"clear"}, {}, <<>>),
     Operation("update_paragraph_style", 0, 2, {"heading", "above"}, {}, <<>>),
     Operation("update_document_style", 0, 0, {"width"}, {}, <<>>),
     Operation("update_section_style", 1, 2, {"count"}, {}, <<>>),
     Operation("update_table_cell_style", 1, 0, {"row", "column", "color"}, {}, <<>>),
     Operation("create_header_footer", 0, 0, {}, {}, <<>>),
     Operation("find_replace", 0, 0, {}, {}, <<"o", "a">>),
     Operation("create_bullet_list", 0, 3, {"nested"}, {1, 2}, <<>>),
     Operation("create_bullet_list", 1, 3, {}, {}, <<>>),
     Operation("remove_bullets", 1, 2, {}, {}, <<>>)}

\* The files of a script and the process of its calls, for the .cfg.
MCProcessOf == [c \in {"c1", "c2"} |-> "p1"]
MCFiles == {<<"f1", "JS">>, <<"f1", "HTML">>, <<"f2", "JS">>}

\* Who calls what in each service, here and in the .cfg. Where calls of one tool disturb
\* one another there are two; where the hazard is within a call there is one.
RulesCalls == {"c1", "c2"}
RulesRanges == {"a1", "a2"}
RulesConditions == {"k"}
RulesFormats == {"f1"}
DriveCalls == {"c1"}
DriveFileIds == {"f1"}
DriveFolderIds == {"d"}
DriveShortcutIds == {"s1", "s2"}
DriveWatched == {"f1", "s1"}
DriveUser == "user"
DriveOthers == {"p", "q"}
MailCalls == {"c1"}
MailUser == "me"
MailOthers == {"you"}
DocsCalls == {"c1"}
DocsWords == {<<"a", "b">>}
DocsTables == {Cells}
DocsTexts == {Paragraph, Bullets}
HeadersCalls == {"c1"}
HeadersTexts == {<<"a">>, <<"a", Newline, "b">>}
BatchTab == "tab"
BatchOther == "o"
ChatCalls == {"c1"}
ChatSenders == {"u", "v", "w"}
ChatSpaces == <<"s1", "s2", "s3">>
InboxIds == {"x", "y"}
InboxRequests == {<<"x", "y", "x">>, <<"x", "x", "y">>}

-----------------------------------------------------------------------------
Rules == INSTANCE SheetRules WITH
    rules <- rulesRules, call <- rulesCall, reported <- rulesReported,
    Calls <- RulesCalls, Ranges <- RulesRanges, Conditions <- RulesConditions,
    Formats <- RulesFormats, MaxRules <- 2
rulesVars == <<rulesRules, rulesCall, rulesReported>>

Drive == INSTANCE DriveSharing WITH
    item <- driveItem, call <- driveCall, Calls <- DriveCalls,
    FileIds <- DriveFileIds, FolderIds <- DriveFolderIds,
    ShortcutIds <- DriveShortcutIds, Watched <- DriveWatched, User <- DriveUser,
    Others <- DriveOthers, MaxDepth <- 1
driveVars == <<driveItem, driveCall>>

Mail == INSTANCE MailThread WITH
    thread <- mailThread, apart <- mailApart, call <- mailCall, Calls <- MailCalls,
    User <- MailUser, Others <- MailOthers, MaxMessages <- 3, MaxFiles <- 1,
    GOOGLE_API_WRITE_RETRIES <- 1
mailVars == <<mailThread, mailApart, mailCall>>

Docs == INSTANCE DocEdits WITH
    body <- docsBody, writes <- docsWrites, call <- docsCall,
    Calls <- DocsCalls, Words <- DocsWords, Tables <- DocsTables,
    Texts <- DocsTexts, MaxLevel <- 1, MaxDistance <- 2, MaxLength <- 11,
    MaxWrites <- 3
docsVars == <<docsBody, docsWrites, docsCall>>

Headers == INSTANCE HeaderFooters WITH
    style <- headersStyle, segs <- headersSegs, edits <- headersEdits,
    call <- headersCall, Calls <- HeadersCalls, Texts <- HeadersTexts,
    Tabbed <- FALSE, MaxIds <- 2, MaxLength <- 5, MaxEdits <- 2
headersVars == <<headersStyle, headersSegs, headersEdits, headersCall>>

Batch == INSTANCE BatchOperations WITH
    doc <- batchDoc, writes <- batchWrites, call <- batchCall,
    Menu <- Operations, Tab <- BatchTab, Other <- BatchOther, MaxOps <- 2,
    MaxLength <- 4, MaxWrites <- 2
batchVars == <<batchDoc, batchWrites, batchCall>>

Chat == INSTANCE ChatMessages WITH
    posts <- chatPosts, cache <- chatCache, call <- chatCall,
    Calls <- ChatCalls, Senders <- ChatSenders, Spaces <- ChatSpaces, MaxSpaces <- 2,
    Retries <- 2, CacheMax <- 2, MaxPosts <- 1
chatVars == <<chatPosts, chatCache, chatCall>>

Inbox == INSTANCE MailBatches WITH
    box <- inboxBox, call <- inboxCall, seen <- inboxSeen, Ids <- InboxIds,
    Requests <- InboxRequests, ChunkSize <- 2, Retries <- 2, MaxVersion <- 2
inboxVars == <<inboxBox, inboxCall, inboxSeen>>

CommentTools == INSTANCE CommentThreads WITH
    threads <- commentsThreads, client <- commentsClient, reading <- commentsReading,
    Default <- 2, PageMax <- 1, MaxThreads <- 3, MaxCopies <- 2
commentsVars == <<commentsThreads, commentsClient, commentsReading>>

others ==
    <<rulesVars, driveVars, mailVars, docsVars, headersVars, batchVars, chatVars, inboxVars,
      commentsVars>>

-----------------------------------------------------------------------------
Components ==
    {"calendar", "contacts", "rows", "rules", "drive", "tasks", "scripts",
     "mail", "docs", "headers", "batch", "chat",
     "inbox", "comments"}

SystemInit ==
    /\ focus \in Components
    /\ EditsInit
    /\ IF focus = "rules" THEN Rules!Init
       ELSE /\ rulesRules = Away /\ rulesCall = Away /\ rulesReported = Away
    /\ IF focus = "drive" THEN Drive!Init
       ELSE /\ driveItem = Away /\ driveCall = Away
    /\ IF focus = "mail" THEN Mail!Init
       ELSE /\ mailThread = Away /\ mailApart = Away /\ mailCall = Away
    /\ IF focus = "docs" THEN Docs!Init
       ELSE /\ docsBody = Away /\ docsWrites = Away /\ docsCall = Away
    /\ IF focus = "headers" THEN Headers!Init
       ELSE /\ headersStyle = Away /\ headersSegs = Away /\ headersEdits = Away
            /\ headersCall = Away
    /\ IF focus = "batch" THEN Batch!Init
       ELSE /\ batchDoc = Away /\ batchWrites = Away /\ batchCall = Away
    /\ IF focus = "chat" THEN Chat!Init
       ELSE /\ chatPosts = Away /\ chatCache = Away /\ chatCall = Away
    /\ IF focus = "inbox" THEN Inbox!Init
       ELSE /\ inboxBox = Away /\ inboxCall = Away /\ inboxSeen = Away
    /\ IF focus = "comments" THEN CommentTools!Init
       ELSE /\ commentsThreads = Away /\ commentsClient = Away /\ commentsReading = Away

\* A step of one component leaves what the others keep alone.
Others(component) ==
    /\ UNCHANGED edits
    /\ IF component = "rules" THEN TRUE ELSE UNCHANGED rulesVars
    /\ IF component = "drive" THEN TRUE ELSE UNCHANGED driveVars
    /\ IF component = "mail" THEN TRUE ELSE UNCHANGED mailVars
    /\ IF component = "docs" THEN TRUE ELSE UNCHANGED docsVars
    /\ IF component = "headers" THEN TRUE ELSE UNCHANGED headersVars
    /\ IF component = "batch" THEN TRUE ELSE UNCHANGED batchVars
    /\ IF component = "chat" THEN TRUE ELSE UNCHANGED chatVars
    /\ IF component = "inbox" THEN TRUE ELSE UNCHANGED inboxVars
    /\ IF component = "comments" THEN TRUE ELSE UNCHANGED commentsVars

SystemNext ==
    \/ EditsNext /\ UNCHANGED others
    \/ focus = "rules" /\ Rules!Next /\ Others("rules")
    \/ focus = "drive" /\ Drive!Next /\ Others("drive")
    \/ focus = "mail" /\ Mail!Next /\ Others("mail")
    \/ focus = "docs" /\ Docs!Next /\ Others("docs")
    \/ focus = "headers" /\ Headers!Next /\ Others("headers")
    \/ focus = "batch" /\ Batch!Next /\ Others("batch")
    \/ focus = "chat" /\ Chat!Next /\ Others("chat")
    \/ focus = "inbox" /\ Inbox!Next /\ Others("inbox")
    \/ focus = "comments" /\ CommentTools!Next /\ Others("comments")

everything == <<edits, others>>

System == SystemInit /\ [][SystemNext]_everything

-----------------------------------------------------------------------------
\* The state of the component in focus is of its type.
ToolsTypeOK ==
    /\ focus = "calendar" => Calendar!TypeOK
    /\ focus = "contacts" => Contacts!TypeOK
    /\ focus = "rows" => Rows!TypeOK
    /\ focus = "rules" => Rules!TypeOK
    /\ focus = "drive" => Drive!TypeOK
    /\ focus = "tasks" => Tasks!TypeOK
    /\ focus = "scripts" => Scripts!TypeOK
    /\ focus = "mail" => Mail!TypeOK
    /\ focus = "docs" => Docs!TypeOK
    /\ focus = "headers" => Headers!TypeOK
    /\ focus = "batch" => Batch!TypeOK
    /\ focus = "chat" => Chat!TypeOK
    /\ focus = "inbox" => Inbox!TypeOK
    /\ focus = "comments" => CommentTools!TypeOK


\* What a call changes is what it names: what a chain of shortcuts ends in, the rows as they
\* were numbered when it was made, and a header once.
RequestsReachWhatTheyName ==
    /\ focus = "drive" => Drive!ShortcutsAreFollowed
    /\ focus = "rows" => Rows!DeletesWhatItNames
    /\ focus = "headers" => Headers!UpdatesLandOnce

\* Requests computed from one reading of a document, and the batches of operations that
\* shift one another's places, do to it what they are for. A message leaves as it was
\* composed, where it belongs, and the ball is with whoever did not send the last one.
WritesLandAsMeant ==
    [][/\ focus = "docs" => Docs!TablesAreWritten /\ Docs!EditsAreExact
       /\ focus = "batch" => Batch!BatchIsItsOperations
       /\ focus = "mail" => Mail!LandsAsComposed /\ Mail!HandsOverTheBall]_everything
=============================================================================
