--------------------------------- MODULE Chat ---------------------------------
(***************************************************************************)
(* The bridge chat: chats, messages, one-level threads and Xora's answers  *)
(* (packages/core/src/chat.ts over packages/sqlite/src/chat.ts, and        *)
(* postToChat and BridgeReader of packages/app/src/server/chat.ts).        *)
(*                                                                         *)
(* Every write of the store is one BEGIN IMMEDIATE ... COMMIT and so one   *)
(* action.  What ChatService reads BEFORE its write (is the channel        *)
(* archived, which replies does the thread have) is a step of its own, and *)
(* between the captain's message and Xora's answer to it lies a call of a  *)
(* model, up to 30 seconds: other requests run between any two steps, and  *)
(* the app can be stopped there.                                           *)
(*                                                                         *)
(* A message's id is its sequence.  Texts, names of authors, links and     *)
(* times are abstracted; a text that is refused (empty, too long, an       *)
(* unknown reference) changes nothing and is left out.                     *)
(***************************************************************************)
EXTENDS Naturals, Sequences, FiniteSetsExt

CONSTANTS
  Captains,       (* requests of reviewers that the app serves at once      *)
  Standing,       (* of "ship", "project", "direct": the chats without row  *)
  Topics,         (* ids of task channels                                   *)
  Names,          (* names of task channels                                 *)
  MaxMessages,    (* bound on the rows of chat_messages                     *)
  MaxAborts       (* bound on the requests that are lost                    *)

ASSUME ChatConstants ==
  /\ Standing \subseteq {"ship", "project", "direct"}
  /\ Topics \cap {"ship", "project", "direct", "xora"} = {}
  /\ "xora" \notin Captains
  /\ MaxMessages \in Nat /\ MaxAborts \in Nat

VARIABLES
  chats,          (* the rows of chats, by address                          *)
  messages,       (* the rows of chat_messages                              *)
  call,           (* the request each captain has under way                 *)
  aborts          (* how many requests were lost                            *)

vars == << chats, messages, call, aborts >>

-----------------------------------------------------------------------------
(* Chats and messages.                                                     *)

Addresses == Standing \union Topics
Kind(c) == IF c \in Topics THEN "topic" ELSE c

NoRow == [stored |-> FALSE, name |-> "", archivedBy |-> "nobody"]
Row(name) == [stored |-> TRUE, name |-> name, archivedBy |-> "nobody"]
IsArchived(c) == chats[c].archivedBy # "nobody"

(* getChat finds a chat: a stored one, or one that needs no row.            *)
Exists(c) == chats[c].stored \/ c \in Standing

TopLevel == [kind |-> "none", id |-> 0]
OnMessage(m) == [kind |-> "message", id |-> m]
OnMission == [kind |-> "mission", id |-> 0]
Roots == [kind : {"none", "message", "mission"}, id : Nat]

Authors == Captains \union {"xora"}
Message == [chat : Addresses, author : Authors, root : Roots,
            deletedBy : Captains \union {"nobody"}]
Ids == 1 .. Len(messages)
IsDeleted(m) == messages[m].deletedBy # "nobody"

(* Where a reply to m goes: its thread, or the thread it starts.            *)
ThreadOf(m) == IF messages[m].root = TopLevel THEN OnMessage(m) ELSE messages[m].root

(* Mutant of ThreadRoot: a reply to a reply hangs on the reply.             *)
NestedThreadRoot(c, root) ==
  CASE root = TopLevel -> {TopLevel}
    [] root = OnMission -> IF Kind(c) = "project" THEN {root} ELSE {}
    [] OTHER ->
        LET parent == messages[root.id] IN
        IF parent.chat # c THEN {}
        ELSE IF Kind(c) \in {"direct", "topic"} THEN {root} ELSE {}

(* threadRoot: the root a message gets, or none when the request is         *)
(* refused.  A row's chat and root never change, so this read of the parent *)
(* cannot go stale; whether the parent is deleted is not asked.             *)
ThreadRoot(c, root) ==
  CASE root = TopLevel -> {TopLevel}
    [] root = OnMission -> IF Kind(c) = "project" THEN {root} ELSE {}
    [] OTHER ->
        LET parent == messages[root.id] IN
        IF parent.chat # c THEN {}
        ELSE IF parent.root # TopLevel THEN {parent.root}
        ELSE IF Kind(c) \in {"direct", "topic"} THEN {root} ELSE {}

-----------------------------------------------------------------------------
(* The views of BridgeReader.                                              *)

(* listMessages: the messages of a chat outside threads.                    *)
TopLevelMessages(c) == {m \in Ids : messages[m].chat = c /\ messages[m].root = TopLevel}

(* listThread.                                                              *)
Replies(root) == {m \in Ids : messages[m].root = root}

(* The thread a page asks for: a link to a reply opens the thread it        *)
(* belongs to, and only the replies in this chat are shown.                 *)
ThreadView(c, requested) ==
  LET root == IF requested.kind = "message" /\ messages[requested.id].root # TopLevel
              THEN messages[requested.id].root ELSE requested
  IN {m \in Replies(root) : messages[m].chat = c}

(* The threads a chat offers: its Mission cards in a project channel, the   *)
(* messages outside threads in a direct chat and in a task channel.         *)
OfferedThreads(c) ==
  CASE Kind(c) = "project" -> {OnMission}
    [] Kind(c) \in {"direct", "topic"} -> {OnMessage(m) : m \in TopLevelMessages(c)}
    [] OTHER -> {}

-----------------------------------------------------------------------------
Idle == [at |-> "idle"]
Stages == {"idle", "post", "respond", "rename", "archive", "delete"}

Init ==
  /\ chats = [c \in Addresses |-> NoRow]
  /\ messages = << >>
  /\ call = [k \in Captains |-> Idle]
  /\ aborts = 0

Goto(k, next) == call' = [call EXCEPT ![k] = next]

(* The messages a request under way may still add, for the bound.           *)
StillToAdd(j) ==
  CASE j.at = "post" -> IF j.author # "xora" /\ j.addressed THEN 2 ELSE 1
    [] j.at = "respond" -> 1
    [] OTHER -> 0
Room == MaxMessages - Len(messages) - MapThenSumSet(LAMBDA k : StillToAdd(call[k]), Captains)

(* In the direct chat every message is for Xora, elsewhere one with @Xora.  *)
IsAddressed(c, mention) == Kind(c) = "direct" \/ mention

-----------------------------------------------------------------------------
(* Posting.                                                                *)

(* postMessage up to its write, for the captain: the chat exists and is not *)
(* archived, and the thread is one of this chat.                            *)
CheckPost(k, c, requested, mention) ==
  /\ call[k] = Idle
  /\ Room >= IF IsAddressed(c, mention) THEN 2 ELSE 1
  /\ Exists(c) /\ ~ IsArchived(c)
  /\ \E root \in ThreadRoot(c, requested) :
       Goto(k, [at |-> "post", chat |-> c, author |-> k, root |-> root,
                addressed |-> IsAddressed(c, mention), new |-> ~ chats[c].stored,
                question |-> 0])
  /\ UNCHANGED << chats, messages, aborts >>

(* Mutant of TakesMessages: the check before the transaction is trusted.    *)
TakesAnyMessage(c) == TRUE

(* The check repeated inside the transaction.                               *)
TakesMessages(c) == ~ IsArchived(c)

(* The row of a chat that had none; a racing first message wrote the same.  *)
EnsureChat(c, new) ==
  chats' = IF new /\ ~ chats[c].stored THEN [chats EXCEPT ![c] = Row("")] ELSE chats

(* insertChatMessage.  After the captain's message to Xora the request goes *)
(* on to ask the model; after any other it is answered.                     *)
InsertMessage(k) ==
  LET j == call[k] IN
  /\ j.at = "post"
  /\ IF TakesMessages(j.chat)
     THEN /\ EnsureChat(j.chat, j.new)
          /\ messages' = Append(messages, [chat |-> j.chat, author |-> j.author,
                                           root |-> j.root, deletedBy |-> "nobody"])
          /\ Goto(k, IF j.author = k /\ j.addressed
                     THEN [at |-> "respond", question |-> Len(messages) + 1] ELSE Idle)
     ELSE Goto(k, Idle) /\ UNCHANGED << chats, messages >>
  /\ UNCHANGED aborts

(* Mutant of ReplyRoot: the answer opens no thread of its own.              *)
ReplyTopLevel(m) == messages[m].root

(* The thread of the answer: the question's, or in the direct chat the      *)
(* thread the question starts.                                              *)
ReplyRoot(m) ==
  IF messages[m].root # TopLevel THEN messages[m].root
  ELSE IF Kind(messages[m].chat) = "direct" THEN OnMessage(m) ELSE TopLevel

(* Mutant of AnswerGoesTo: an answer in a deleted thread is refused.        *)
AnswerUnlessDeleted(m) ==
  {root \in ThreadRoot(messages[m].chat, ReplyRoot(m)) : root.kind = "message" => ~ IsDeleted(root.id)}

(* The root the second postMessage gives the answer, or none.               *)
AnswerGoesTo(m) == ThreadRoot(messages[m].chat, ReplyRoot(m))

(* The assistant has answered (the model's text, or after its time limit or *)
(* a failure the fixed one), and postMessage checks Xora's message as any   *)
(* other: when the channel was archived meanwhile the request ends with an  *)
(* error although the question is stored.                                   *)
CheckAnswer(k) ==
  LET m == call[k].question  c == messages[m].chat IN
  /\ call[k].at = "respond"
  /\ \/ /\ ~ IsArchived(c)
        /\ \E root \in AnswerGoesTo(m) :
             Goto(k, [at |-> "post", chat |-> c, author |-> "xora", root |-> root,
                      addressed |-> FALSE, new |-> FALSE, question |-> m])
     \/ /\ IsArchived(c) \/ AnswerGoesTo(m) = {}
        /\ Goto(k, Idle)
  /\ UNCHANGED << chats, messages, aborts >>

-----------------------------------------------------------------------------
(* Task channels.                                                          *)

(* createChannel, with a new id.                                            *)
CreateChannel(k, c, name) ==
  /\ call[k] = Idle
  /\ c \in Topics /\ ~ chats[c].stored
  /\ chats' = [chats EXCEPT ![c] = Row(name)]
  /\ UNCHANGED << messages, call, aborts >>

(* openChannel of renameChannel and archiveChannel, read on its own.        *)
OpenChannel(k, c, next) ==
  /\ call[k] = Idle
  /\ c \in Topics /\ chats[c].stored /\ ~ IsArchived(c)
  /\ Goto(k, next)
  /\ UNCHANGED << chats, messages, aborts >>

CheckRename(k, c, name) == OpenChannel(k, c, [at |-> "rename", chat |-> c, name |-> name])
CheckArchive(k, c) == OpenChannel(k, c, [at |-> "archive", chat |-> c])

(* The trigger chats_identity_immutable: an archived channel is frozen, and *)
(* an update of it aborts.                                                  *)
KeepsIdentity(c) == ~ IsArchived(c)

(* updateChat.                                                              *)
RenameChannel(k) ==
  LET j == call[k] IN
  /\ j.at = "rename"
  /\ Goto(k, Idle)
  /\ chats' = IF KeepsIdentity(j.chat) THEN [chats EXCEPT ![j.chat].name = j.name] ELSE chats
  /\ UNCHANGED << messages, aborts >>

ArchiveChannel(k) ==
  LET j == call[k] IN
  /\ j.at = "archive"
  /\ Goto(k, Idle)
  /\ chats' = IF KeepsIdentity(j.chat) THEN [chats EXCEPT ![j.chat].archivedBy = k] ELSE chats
  /\ UNCHANGED << messages, aborts >>

-----------------------------------------------------------------------------
(* Deletion.                                                               *)

(* What a request has listed for deletion, if it is anything.               *)
ReadyToDelete(k, listed) ==
  /\ call[k] = Idle
  /\ listed # {}
  /\ Goto(k, [at |-> "delete", listed |-> listed])
  /\ UNCHANGED << chats, messages, aborts >>

(* deleteMessage; `thread` deletes a message that starts a thread with the  *)
(* replies it has at this moment.                                           *)
ListMessage(k, m) == ~ IsDeleted(m) /\ ReadyToDelete(k, {m})
ListThread(k, m) ==
  /\ messages[m].root = TopLevel
  /\ ReadyToDelete(k, {r \in {m} \union Replies(OnMessage(m)) : ~ IsDeleted(r)})

(* clearDirectChat.                                                         *)
ListDirect(k) ==
  ReadyToDelete(k, {m \in Ids : messages[m].chat = "direct" /\ ~ IsDeleted(m)})

(* Mutant of MarkDeleted: without AND deleted_at IS NULL.                   *)
MarkDeletedAgain(k, m) == [messages[m] EXCEPT !.deletedBy = k]

(* UPDATE ... WHERE deleted_at IS NULL: the first to delete is kept.        *)
MarkDeleted(k, m) ==
  IF IsDeleted(m) THEN messages[m] ELSE [messages[m] EXCEPT !.deletedBy = k]

DeleteMessages(k) ==
  /\ call[k].at = "delete"
  /\ Goto(k, Idle)
  /\ messages' = [m \in Ids |-> IF m \in call[k].listed THEN MarkDeleted(k, m) ELSE messages[m]]
  /\ UNCHANGED << chats, aborts >>

-----------------------------------------------------------------------------
(* The app is stopped, or SQLite refuses the write: the request is lost     *)
(* where it stands.                                                         *)
Abort(k) ==
  /\ call[k] # Idle
  /\ aborts < MaxAborts
  /\ aborts' = aborts + 1
  /\ Goto(k, Idle)
  /\ UNCHANGED << chats, messages >>

Requested == {TopLevel, OnMission} \union {OnMessage(m) : m \in Ids}

Request(k) ==
  \/ \E c \in Addresses, root \in Requested, mention \in BOOLEAN : CheckPost(k, c, root, mention)
  \/ \E c \in Topics, name \in Names : CreateChannel(k, c, name)
  \/ \E c \in Topics, name \in Names : CheckRename(k, c, name)
  \/ \E c \in Topics : CheckArchive(k, c)
  \/ \E m \in Ids : ListMessage(k, m)
  \/ \E m \in Ids : ListThread(k, m)
  \/ ListDirect(k)

(* What a request does by itself once it is under way.                      *)
Continue(k) ==
  \/ InsertMessage(k)
  \/ CheckAnswer(k)
  \/ RenameChannel(k)
  \/ ArchiveChannel(k)
  \/ DeleteMessages(k)

Next == \E k \in Captains : Request(k) \/ Continue(k) \/ Abort(k)

Spec == Init /\ [][Next]_vars

(* A request that has begun goes on: its steps are awaited in turn, and the *)
(* model's answer is awaited for a limited time (ANSWER_TIMEOUT_MS).        *)
FairSpec == Spec /\ \A k \in Captains : WF_vars(Continue(k))
-----------------------------------------------------------------------------
(* Properties.                                                             *)

(* Rows and requests have their shapes; only task channels are archived or  *)
(* named, and a stored message has a stored chat (the foreign key).         *)
TypeOK ==
  /\ messages \in Seq(Message)
  /\ \A c \in Addresses :
       /\ chats[c] = NoRow \/ chats[c].stored
       /\ chats[c].name # "" \/ IsArchived(c) => c \in Topics
  /\ \A m \in Ids : chats[messages[m].chat].stored
  /\ \A k \in Captains : call[k].at \in Stages
  /\ aborts \in 0 .. MaxAborts

(* No stored message is out of reach: every message is shown outside        *)
(* threads, or in exactly one thread, which its own chat offers (ADR-007:   *)
(* threads have one level).                                                 *)
EveryMessageIsShown ==
  /\ TypeOK
  /\ \A m \in Ids :
       LET c == messages[m].chat
           shownIn == {root \in OfferedThreads(c) : m \in ThreadView(c, root)}
       IN IF m \in TopLevelMessages(c) THEN shownIn = {}
          ELSE /\ Cardinality(shownIn) = 1
               /\ ThreadView(c, OnMessage(m)) = ThreadView(c, ThreadOf(m))

(* A message is never edited, moved or brought back; it is deleted once,    *)
(* and who deleted it stays recorded.                                       *)
DeletedForGood ==
  [][\A m \in Ids :
       /\ m \in DOMAIN messages'
       /\ \/ messages'[m] = messages[m]
          \/ /\ ~ IsDeleted(m)
             /\ \E k \in Captains : messages'[m] = [messages[m] EXCEPT !.deletedBy = k]]_vars

(* An archived channel is read-only, whatever was under way when it was     *)
(* archived: it takes no message and keeps its name and who archived it;    *)
(* in any chat, a message is at most deleted.                               *)
ArchivedIsFrozen ==
  /\ DeletedForGood
  /\ [][\A c \in Topics : IsArchived(c) =>
          /\ chats'[c] = chats[c]
          /\ \A m \in DOMAIN messages' : messages'[m].chat = c => m \in Ids]_vars

(* The answer of Xora stands where the question was asked, in its thread,   *)
(* or in the direct chat in the thread the question opens.                  *)
AnswerStaysInThread ==
  [][\A k \in Captains :
       LET answered == call[k].at = "post" /\ call[k].author = "xora"
                         /\ call'[k] = Idle /\ Len(messages') > Len(messages)
       IN answered =>
         LET q == messages[call[k].question]  a == messages'[Len(messages')] IN
           /\ a.author = "xora" /\ a.chat = q.chat
           /\ IF Kind(q.chat) = "direct" THEN a.root = ThreadOf(call[k].question)
              ELSE a.root = q.root]_vars

(* Every message in the direct chat is answered in its thread, also when it *)
(* or its thread is deleted while Xora writes, unless a request was lost.   *)
IsAnswered(m) ==
  \E a \in Ids : a > m /\ messages[a].author = "xora" /\ messages[a].root = ThreadOf(m)

DirectIsAnswered ==
  \A m \in 1 .. MaxMessages :
    (m \in Ids /\ messages[m].chat = "direct" /\ messages[m].author # "xora")
      ~> (aborts > 0 \/ IsAnswered(m))
=============================================================================
