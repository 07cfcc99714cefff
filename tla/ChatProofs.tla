------------------------------ MODULE ChatProofs ------------------------------
(***************************************************************************)
(* Safety of the bridge chat on the server, and of the page that shows it, *)
(* for any captains, chats and bounds.  That a message is answered         *)
(* (DirectIsAnswered) and that the page catches up (CatchesUp) rest on     *)
(* fairness and stay with TLC.                                             *)
(***************************************************************************)
EXTENDS Chat, BridgePage, FiniteSetTheorems, SequenceTheorems, TLAPS

Chats == [stored : BOOLEAN, name : Names \union {""}, archivedBy : Captains \union {"nobody"}]

(* Threads have one level: a root is a Mission of the project, or a message *)
(* of the same chat that is in no thread itself.                            *)
RootHolds(c, root) ==
  \/ root = TopLevel
  \/ root = OnMission /\ Kind(c) = "project"
  \/ \E p \in Ids : /\ root = OnMessage(p) /\ Kind(c) \in {"direct", "topic"}
                    /\ messages[p].chat = c /\ messages[p].root = TopLevel

(* The thread a question is answered in.                                    *)
AnswerRoot(m) ==
  IF Kind(messages[m].chat) = "direct" THEN ThreadOf(m) ELSE messages[m].root

(* A chat with a row; only a task channel has a name or is archived.        *)
HasRow(c) == chats[c].stored
NamedIsTopic(c) ==
  /\ chats[c] = NoRow \/ HasRow(c)
  /\ chats[c].name # "" \/ IsArchived(c) => c \in Topics

Tables ==
  /\ messages \in Seq(Message) /\ chats \in [Addresses -> Chats]
  /\ \A c \in Addresses : NamedIsTopic(c)
  /\ \A m \in Ids : HasRow(messages[m].chat) /\ RootHolds(messages[m].chat, messages[m].root)

(* What a request under way may rely on.                                    *)
Posts(j) ==
  /\ j.chat \in Addresses /\ j.author \in Authors /\ j.root \in Roots
  /\ RootHolds(j.chat, j.root)
  /\ j.new \/ HasRow(j.chat)
  /\ j.author = "xora" => /\ j.question \in Ids /\ messages[j.question].chat = j.chat
                          /\ j.root = AnswerRoot(j.question)

KnownCall(j) ==
  /\ j.at \in Stages
  /\ j.at = "post" => Posts(j)
  /\ j.at = "respond" => j.question \in Ids
  /\ j.at \in {"rename", "archive"} => j.chat \in Topics /\ HasRow(j.chat)
  /\ j.at = "rename" => j.name \in Names

ChatInv ==
  /\ Tables /\ aborts \in 0 .. MaxAborts
  /\ call = [k \in Captains |-> call[k]]
  /\ \A k \in Captains : KnownCall(call[k])

(* What every step does: nothing that was stored moves.                     *)
Grows ==
  /\ \A m \in Ids : /\ m \in Ids' /\ messages'[m].chat = messages[m].chat
                    /\ messages'[m].root = messages[m].root
  /\ \A c \in Addresses : HasRow(c) => HasRow(c)'

-----------------------------------------------------------------------------
LEMMA RootStillHolds ==
  ASSUME Grows, NEW c, NEW root, RootHolds(c, root)
  PROVE  RootHolds(c, root)'
BY DEF RootHolds, Grows

LEMMA MessagesAre ==
  ASSUME Tables, NEW m \in Ids
  PROVE  /\ messages[m] \in Message /\ messages[m].chat \in Addresses
         /\ messages[m].root \in Roots /\ m \in Nat /\ Len(messages) \in Nat
         /\ DOMAIN messages = Ids
<1>0. messages \in Seq(Message)
  BY DEF Tables
<1>1. Len(messages) \in Nat /\ DOMAIN messages = Ids /\ m \in Nat
  BY <1>0, LenProperties DEF Ids
<1>2. messages[m] \in Message
  BY <1>0, ElementOfSeq DEF Ids
<1> QED BY <1>1, <1>2 DEF Message

LEMMA StillKnown ==
  ASSUME Tables, Grows, NEW j, KnownCall(j)
  PROVE  KnownCall(j)'
<1>1. CASE j.at = "post"
  <2>1. Posts(j)
    BY <1>1 DEF KnownCall
  <2>2. RootHolds(j.chat, j.root)'
    BY <2>1, RootStillHolds DEF Posts
  <2>3. ASSUME j.author = "xora" PROVE AnswerRoot(j.question)' = AnswerRoot(j.question)
    <3> PICK q \in Ids : q = j.question
      BY <2>1, <2>3 DEF Posts
    <3>1. messages'[q].chat = messages[q].chat /\ messages'[q].root = messages[q].root
      BY DEF Grows
    <3> QED BY <3>1 DEF AnswerRoot, ThreadOf
  <2>4. Posts(j)'
    BY <2>1, <2>2, <2>3 DEF Posts, Grows
  <2> QED BY <1>1, <2>4 DEF KnownCall
<1>2. CASE j.at # "post"
  <2>1. j.at \in {"rename", "archive"} => j.chat \in Addresses
    BY DEF KnownCall, Addresses
  <2> QED BY <1>2, <2>1 DEF KnownCall, Grows
<1> QED BY <1>1, <1>2

(* A request goes on, with what its next stage needs.                       *)
LEMMA CallMoves ==
  ASSUME ChatInv, Tables', Grows, aborts' \in 0 .. MaxAborts, NEW k \in Captains, NEW j,
         call' = [call EXCEPT ![k] = j], KnownCall(j)'
  PROVE  ChatInv'
<1>1. call' = [x \in Captains |-> call'[x]]
  BY DEF ChatInv
<1>2. ASSUME NEW x \in Captains PROVE KnownCall(call[x])'
  <2>1. CASE x = k
    <3>1. call'[x] = j
      BY <2>1 DEF ChatInv
    <3> QED BY <3>1 DEF KnownCall, Posts
  <2>2. CASE x # k
    <3>1. call'[x] = call[x] /\ KnownCall(call[x])
      BY <2>2 DEF ChatInv
    <3> PICK d : d = call[x]
      OBVIOUS
    <3>2. KnownCall(d)'
      BY <3>1, StillKnown DEF ChatInv
    <3> QED BY <3>1, <3>2 DEF KnownCall, Posts
  <2> QED BY <2>1, <2>2
<1> QED BY <1>1, <1>2 DEF ChatInv

LEMMA IdleIsKnown == KnownCall(Idle)
BY DEF KnownCall, Idle, Stages

(* A step that stores nothing.                                              *)
LEMMA ReadsKeep ==
  ASSUME ChatInv, UNCHANGED << chats, messages >>, aborts' \in 0 .. MaxAborts,
         NEW k \in Captains, NEW j, call' = [call EXCEPT ![k] = j], KnownCall(j)
  PROVE  ChatInv'
<1>1. Tables' /\ Grows
  BY DEF ChatInv, Tables, Grows, Ids, RootHolds, IsArchived, HasRow, NamedIsTopic
<1>2. KnownCall(j)'
  BY <1>1, StillKnown DEF ChatInv
<1> QED BY <1>1, <1>2, CallMoves

-----------------------------------------------------------------------------
(* What threadRoot returns is a root that holds, in one level.              *)
LEMMA ThreadRootHolds ==
  ASSUME Tables, NEW c \in Addresses, NEW requested \in Requested,
         NEW root \in ThreadRoot(c, requested)
  PROVE  RootHolds(c, root) /\ root \in Roots
<1>1. TopLevel \in Roots /\ OnMission \in Roots /\ \A m \in Ids : OnMessage(m) \in Roots
  BY DEF Roots, TopLevel, OnMission, OnMessage, Ids
<1>2. CASE requested = TopLevel
  BY <1>1, <1>2 DEF ThreadRoot, RootHolds
<1>3. CASE requested = OnMission
  BY <1>1, <1>3 DEF ThreadRoot, RootHolds, TopLevel, OnMission
<1>4. CASE \E m \in Ids : requested = OnMessage(m)
  <2> PICK m \in Ids : requested = OnMessage(m)
    BY <1>4
  <2>1. requested # TopLevel /\ requested # OnMission /\ requested.id = m
    BY DEF OnMessage, TopLevel, OnMission
  <2>2. /\ messages[m].chat = c
        /\ root = IF messages[m].root # TopLevel THEN messages[m].root ELSE requested
        /\ messages[m].root # TopLevel \/ Kind(c) \in {"direct", "topic"}
    BY <2>1 DEF ThreadRoot
  <2>3. RootHolds(messages[m].chat, messages[m].root) /\ messages[m].root \in Roots
    BY MessagesAre DEF Tables
  <2>4. CASE messages[m].root # TopLevel
    BY <2>2, <2>3, <2>4
  <2>5. CASE messages[m].root = TopLevel
    BY <1>1, <2>2, <2>5 DEF RootHolds
  <2> QED BY <2>4, <2>5
<1> QED BY <1>2, <1>3, <1>4 DEF Requested

(* The answer goes where the question is answered, whatever happened to the *)
(* thread meanwhile.                                                        *)
LEMMA AnswersGoToTheirThread ==
  ASSUME Tables, NEW q \in Ids, NEW root \in AnswerGoesTo(q)
  PROVE  root = AnswerRoot(q) /\ RootHolds(messages[q].chat, root) /\ root \in Roots
<1> PICK c : c = messages[q].chat
  OBVIOUS
<1>0. /\ c \in Addresses /\ messages[q].root \in Roots
      /\ RootHolds(c, messages[q].root)
  BY MessagesAre DEF Tables
<1>1. ReplyRoot(q) \in Requested
  BY <1>0 DEF ReplyRoot, Requested, RootHolds
<1>2. root \in ThreadRoot(c, ReplyRoot(q))
  BY DEF AnswerGoesTo
<1>3. RootHolds(c, root) /\ root \in Roots
  BY <1>0, <1>1, <1>2, ThreadRootHolds
<1>4. CASE messages[q].root = TopLevel /\ Kind(c) # "direct"
  BY <1>2, <1>3, <1>4 DEF ReplyRoot, ThreadRoot, AnswerRoot
<1>5. CASE messages[q].root = TopLevel /\ Kind(c) = "direct"
  <2>1. /\ ReplyRoot(q) = OnMessage(q) /\ OnMessage(q) # TopLevel /\ OnMessage(q) # OnMission
        /\ OnMessage(q).id = q
    BY <1>5 DEF ReplyRoot, OnMessage, TopLevel, OnMission
  <2>2. root = OnMessage(q)
    BY <1>2, <1>5, <2>1 DEF ThreadRoot
  <2> QED BY <1>3, <1>5, <2>2 DEF AnswerRoot, ThreadOf
<1>6. CASE messages[q].root # TopLevel
  <2>1. ReplyRoot(q) = messages[q].root /\ AnswerRoot(q) = messages[q].root
    BY <1>6 DEF ReplyRoot, AnswerRoot, ThreadOf
  <2>2. CASE messages[q].root = OnMission
    <3>1. root = OnMission
      BY <1>2, <1>6, <2>1, <2>2 DEF ThreadRoot
    <3> QED BY <1>3, <2>1, <2>2, <3>1
  <2>3. CASE messages[q].root # OnMission
    <3> PICK p \in Ids : /\ messages[q].root = OnMessage(p) /\ messages[p].root = TopLevel
      BY <1>0, <1>6, <2>3 DEF RootHolds
    <3>1. OnMessage(p) # TopLevel /\ OnMessage(p) # OnMission /\ OnMessage(p).id = p
      BY DEF OnMessage, TopLevel, OnMission
    <3>2. root = OnMessage(p)
      BY <1>2, <2>1, <3>1 DEF ThreadRoot
    <3> QED BY <1>3, <2>1, <3>2
  <2> QED BY <2>2, <2>3
<1> QED BY <1>3, <1>4, <1>5, <1>6

-----------------------------------------------------------------------------
(* A row of a chat is written: a new one, a new name, or its archiving.     *)
LEMMA ChatsChange ==
  ASSUME Tables, NEW c \in Addresses, NEW row \in Chats, row.stored,
         row.name # "" \/ row.archivedBy # "nobody" => c \in Topics,
         chats' = [chats EXCEPT ![c] = row], messages' = messages
  PROVE  Tables' /\ Grows
<1>1. chats' \in [Addresses -> Chats]
  BY DEF Tables
<1>2. ASSUME NEW x \in Addresses
      PROVE  /\ chats'[x] = IF x = c THEN row ELSE chats[x]
             /\ HasRow(x) => HasRow(x)'
  BY DEF Tables, HasRow
<1>3. Grows
  BY <1>2 DEF Grows, Ids
<1>4. ASSUME NEW x \in Addresses
      PROVE  NamedIsTopic(x)'
  BY <1>2 DEF Tables, IsArchived, HasRow, NamedIsTopic
<1>5. ASSUME NEW m \in Ids
      PROVE  HasRow(messages[m].chat)' /\ RootHolds(messages[m].chat, messages[m].root)'
  <2> PICK x : x = messages[m]
    OBVIOUS
  <2>1. x.chat \in Addresses /\ HasRow(x.chat) /\ RootHolds(x.chat, x.root)
    BY MessagesAre DEF Tables
  <2>2. HasRow(x.chat)' /\ RootHolds(x.chat, x.root)'
    BY <1>2, <1>3, <2>1, RootStillHolds
  <2>3. messages'[m] = x
    OBVIOUS
  <2> QED BY <2>2, <2>3 DEF HasRow, RootHolds
<1> QED BY <1>1, <1>3, <1>4, <1>5 DEF Tables, Ids

(* A message more, in a chat that has a row or gets one.                    *)
LEMMA MessagesAppend ==
  ASSUME Tables, NEW m \in Message, RootHolds(m.chat, m.root),
         NEW new, new \/ HasRow(m.chat), EnsureChat(m.chat, new),
         messages' = Append(messages, m)
  PROVE  Tables' /\ Grows
<1>0. messages \in Seq(Message) /\ Len(messages) \in Nat /\ m.chat \in Addresses
  BY LenProperties DEF Tables, Message
<1>1. /\ messages' \in Seq(Message) /\ Len(messages') = Len(messages) + 1
      /\ \A i \in 1 .. Len(messages) : messages'[i] = messages[i]
      /\ messages'[Len(messages) + 1] = m
  BY <1>0, AppendProperties
<1> PICK n : n = Len(messages) + 1
  OBVIOUS
<1>2. Ids' = Ids \union {n}
  BY <1>0, <1>1 DEF Ids
<1>3. \A i \in Ids : messages'[i] = messages[i]
  BY <1>1 DEF Ids
<1>4. /\ chats' \in [Addresses -> Chats]
      /\ \A c \in Addresses : NamedIsTopic(c)'
      /\ \A c \in Addresses : HasRow(c) => HasRow(c)'
      /\ HasRow(m.chat)'
  <2>1. CASE chats' = chats /\ HasRow(m.chat)
    BY <2>1 DEF Tables, HasRow, NamedIsTopic, IsArchived
  <2>2. CASE chats' = [chats EXCEPT ![m.chat] = Row("")]
    <3> PICK row : row = Row("")
      OBVIOUS
    <3>1. row.name = "" /\ row.archivedBy = "nobody" /\ row.stored = TRUE /\ row \in Chats
      BY DEF Row, Chats
    <3>2. chats' \in [Addresses -> Chats]
          /\ \A c \in Addresses : chats'[c] = IF c = m.chat THEN row ELSE chats[c]
      BY <1>0, <2>2, <3>1 DEF Tables
    <3> QED BY <1>0, <3>1, <3>2 DEF Tables, IsArchived, HasRow, NamedIsTopic
  <2> QED BY <2>1, <2>2 DEF EnsureChat, HasRow
<1>5. Grows
  <2>1. \A i \in Ids : i \in Ids'
    BY <1>2
  <2>2. \A i \in Ids : messages'[i].chat = messages[i].chat /\ messages'[i].root = messages[i].root
    BY <1>3
  <2>3. \A c \in Addresses : HasRow(c) => HasRow(c)'
    BY <1>4
  <2> QED BY <2>1, <2>2, <2>3, Zenon DEF Grows
<1>6. ASSUME NEW i \in Ids'
      PROVE  HasRow(messages[i].chat)' /\ RootHolds(messages[i].chat, messages[i].root)'
  <2> PICK x : x = messages'[i]
    OBVIOUS
  <2>1. HasRow(x.chat)' /\ RootHolds(x.chat, x.root)
    <3>1. CASE i \in Ids
      <4>1. x = messages[i]
        BY <1>3, <3>1
      <4>2. x.chat \in Addresses
        BY <3>1, <4>1, MessagesAre
      <4>3. HasRow(x.chat) /\ RootHolds(x.chat, x.root)
        BY <3>1, <4>1, Zenon DEF Tables
      <4> QED BY <1>4, <4>2, <4>3, Zenon
    <3>2. CASE i = n
      <4>1. x = m
        BY <1>1, <3>2
      <4> QED BY <1>4, <4>1, Zenon
    <3> QED BY <1>2, <3>1, <3>2
  <2>2. RootHolds(x.chat, x.root)'
    BY <1>5, <2>1, RootStillHolds
  <2> QED BY <2>1, <2>2 DEF RootHolds, HasRow
<1> QED BY <1>1, <1>4, <1>5, <1>6 DEF Tables, IsArchived

-----------------------------------------------------------------------------
(* Requests, and what they do by themselves.                                *)

LEMMA RequestKeeps ==
  ASSUME ChatInv, NEW k \in Captains, Request(k)
  PROVE  ChatInv'
<1>0. Tables /\ aborts \in 0 .. MaxAborts /\ call = [x \in Captains |-> call[x]]
  BY DEF ChatInv
<1>1. CASE \E c \in Addresses, root \in Requested, mention \in BOOLEAN :
             CheckPost(k, c, root, mention)
  <2> PICK c \in Addresses, requested \in Requested, mention \in BOOLEAN :
             CheckPost(k, c, requested, mention)
    BY <1>1
  <2> PICK root \in ThreadRoot(c, requested) :
             Goto(k, [at |-> "post", chat |-> c, author |-> k, root |-> root,
                      addressed |-> IsAddressed(c, mention), new |-> ~ chats[c].stored,
                      question |-> 0])
    BY DEF CheckPost
  <2> PICK j : j = [at |-> "post", chat |-> c, author |-> k, root |-> root,
                    addressed |-> IsAddressed(c, mention), new |-> ~ chats[c].stored,
                    question |-> 0]
    OBVIOUS
  <2>1. j.at = "post" /\ j.chat = c /\ j.author = k /\ j.root = root
    OBVIOUS
  <2>2. j.new \/ HasRow(c)
    BY Zenon DEF HasRow
  <2>3. RootHolds(c, root) /\ root \in Roots
    BY <1>0, ThreadRootHolds
  <2>4. k # "xora" /\ k \in Authors
    BY ChatConstants DEF Authors
  <2>5. KnownCall(j)
    BY <2>1, <2>2, <2>3, <2>4 DEF KnownCall, Posts, Stages
  <2>6. call' = [call EXCEPT ![k] = j] /\ UNCHANGED << chats, messages, aborts >>
    BY DEF CheckPost, Goto
  <2> QED BY <1>0, <2>5, <2>6, ReadsKeep
<1>2. CASE \E c \in Topics, name \in Names : CreateChannel(k, c, name)
  <2> PICK c \in Topics, name \in Names : CreateChannel(k, c, name)
    BY <1>2
  <2> PICK row : row = Row(name)
    OBVIOUS
  <2>1. /\ row \in Chats /\ row.stored /\ c \in Addresses
        /\ chats' = [chats EXCEPT ![c] = row] /\ UNCHANGED << messages, call, aborts >>
    BY DEF CreateChannel, Row, Chats, Addresses
  <2>2. Tables' /\ Grows
    BY <1>0, <2>1, ChatsChange
  <2> PICK j : j = call[k]
    OBVIOUS
  <2>3. KnownCall(j)'
    BY <1>0, <2>2, StillKnown DEF ChatInv
  <2>4. call' = [call EXCEPT ![k] = j]
    BY <1>0, <2>1
  <2> QED BY <1>0, <2>1, <2>2, <2>3, <2>4, CallMoves
<1>3. ASSUME NEW c \in Topics, NEW j, j.chat = c, j.at = "archive" \/ (j.at = "rename" /\ j.name \in Names),
             OpenChannel(k, c, j)
      PROVE  ChatInv'
  <2>1. c \in Topics /\ HasRow(c)
    BY <1>3 DEF OpenChannel, HasRow
  <2>2. j.at \in Stages /\ j.at # "post" /\ j.at # "respond"
    BY <1>3 DEF Stages
  <2>3. j.at = "rename" => j.name \in Names
    BY <1>3
  <2>4. HasRow(j.chat) /\ j.chat \in Topics
    BY <1>3, <2>1, Zenon
  <2>5. KnownCall(j)
    BY <2>2, <2>3, <2>4, Zenon DEF KnownCall
  <2> QED BY <1>0, <1>3, <2>5, ReadsKeep DEF OpenChannel, Goto
<1>4. ASSUME NEW c \in Topics, NEW name \in Names, CheckRename(k, c, name) PROVE ChatInv'
  <2> PICK j : j = [at |-> "rename", chat |-> c, name |-> name]
    OBVIOUS
  <2>1. j.chat = c /\ j.at = "rename" /\ j.name \in Names /\ OpenChannel(k, c, j)
    BY <1>4 DEF CheckRename
  <2> QED BY <1>3, <2>1
<1>5. ASSUME NEW c \in Topics, CheckArchive(k, c) PROVE ChatInv'
  <2> PICK j : j = [at |-> "archive", chat |-> c]
    OBVIOUS
  <2>1. j.chat = c /\ j.at = "archive" /\ OpenChannel(k, c, j)
    BY <1>5 DEF CheckArchive
  <2>2. j.at = "archive" \/ (j.at = "rename" /\ j.name \in Names)
    BY <2>1
  <2> QED BY <1>3, <2>1, <2>2
<1>6. ASSUME NEW listed, ReadyToDelete(k, listed) PROVE ChatInv'
  <2> PICK j : j = [at |-> "delete", listed |-> listed]
    OBVIOUS
  <2>1. KnownCall(j)
    BY DEF KnownCall, Stages
  <2> QED BY <1>0, <1>6, <2>1, ReadsKeep DEF ReadyToDelete, Goto
<1> QED BY <1>1, <1>2, <1>4, <1>5, <1>6 DEF Request, ListMessage, ListThread, ListDirect

-----------------------------------------------------------------------------
(* The steps of a request under way.                                        *)

LEMMA InsertKeeps ==
  ASSUME ChatInv, NEW k \in Captains, InsertMessage(k)
  PROVE  ChatInv' /\ Grows
<1>0. Tables /\ aborts \in 0 .. MaxAborts /\ aborts' = aborts /\ KnownCall(call[k])
  BY DEF ChatInv, InsertMessage
<1> PICK j : j = call[k]
  OBVIOUS
<1>1. j.at = "post" /\ Posts(j)
  BY <1>0 DEF InsertMessage, KnownCall
<1>2. CASE TakesMessages(j.chat)
  <2> PICK m : m = [chat |-> j.chat, author |-> j.author, root |-> j.root, deletedBy |-> "nobody"]
    OBVIOUS
  <2>1. m \in Message /\ m.chat = j.chat /\ m.root = j.root
    BY <1>1 DEF Posts, Message
  <2>2. EnsureChat(m.chat, j.new) /\ messages' = Append(messages, m)
    BY <1>2, <2>1 DEF InsertMessage
  <2>3. RootHolds(m.chat, m.root) /\ (j.new \/ HasRow(m.chat))
    BY <1>1, <2>1, Zenon DEF Posts
  <2>4. Tables' /\ Grows
    BY <1>0, <2>1, <2>2, <2>3, MessagesAppend
  <2> PICK n : n = Len(messages) + 1
    OBVIOUS
  <2> PICK d : d = IF j.author = k /\ j.addressed THEN [at |-> "respond", question |-> n] ELSE Idle
    OBVIOUS
  <2>5. call' = [call EXCEPT ![k] = d]
    BY <1>2 DEF InsertMessage, Goto
  <2>6. messages \in Seq(Message) /\ n \in Ids'
    <3>1. messages \in Seq(Message)
      BY <1>0 DEF Tables
    <3>2. Len(messages') = n /\ n \in Nat /\ n >= 1
      BY <2>1, <2>2, <3>1, AppendProperties, LenProperties
    <3> QED BY <3>1, <3>2 DEF Ids
  <2>7. KnownCall(d)'
    <3>1. CASE d = Idle
      BY <3>1 DEF KnownCall, Idle, Stages
    <3>2. CASE d = [at |-> "respond", question |-> n]
      BY <2>6, <3>2 DEF KnownCall, Stages
    <3> QED BY <3>1, <3>2
  <2>8. aborts' \in 0 .. MaxAborts
    BY <1>0
  <2> QED BY <2>4, <2>5, <2>7, <2>8, CallMoves
<1>3. CASE ~ TakesMessages(j.chat)
  <2>1. call' = [call EXCEPT ![k] = Idle] /\ UNCHANGED << chats, messages >>
    BY <1>3 DEF InsertMessage, Goto
  <2>2. Grows
    BY <2>1 DEF Grows, HasRow, Ids
  <2> QED BY <1>0, <2>1, <2>2, IdleIsKnown, ReadsKeep
<1> QED BY <1>2, <1>3

LEMMA AnswerKeeps ==
  ASSUME ChatInv, NEW k \in Captains, CheckAnswer(k)
  PROVE  ChatInv'
<1>0. Tables /\ aborts \in 0 .. MaxAborts /\ KnownCall(call[k])
      /\ UNCHANGED << chats, messages, aborts >>
  BY DEF ChatInv, CheckAnswer
<1> PICK q : q = call[k].question
  OBVIOUS
<1>1. q \in Ids
  BY <1>0 DEF CheckAnswer, KnownCall
<1> PICK c : c = messages[q].chat
  OBVIOUS
<1>2. c \in Addresses /\ HasRow(c)
  BY <1>0, <1>1, MessagesAre DEF Tables
<1>3. ASSUME NEW root \in AnswerGoesTo(q),
             Goto(k, [at |-> "post", chat |-> c, author |-> "xora", root |-> root,
                      addressed |-> FALSE, new |-> FALSE, question |-> q])
      PROVE  ChatInv'
  <2> PICK j : j = [at |-> "post", chat |-> c, author |-> "xora", root |-> root,
                    addressed |-> FALSE, new |-> FALSE, question |-> q]
    OBVIOUS
  <2>1. j.at = "post" /\ j.chat = c /\ j.author = "xora" /\ j.root = root /\ j.question = q
    OBVIOUS
  <2>2. root = AnswerRoot(q) /\ RootHolds(c, root) /\ root \in Roots
    BY <1>0, <1>1, AnswersGoToTheirThread
  <2>3. Posts(j)
    BY <1>1, <1>2, <2>1, <2>2 DEF Posts, Authors
  <2>4. KnownCall(j)
    BY <2>1, <2>3 DEF KnownCall, Stages
  <2>5. call' = [call EXCEPT ![k] = j]
    BY <1>3 DEF Goto
  <2> QED BY <1>0, <2>4, <2>5, ReadsKeep
<1>4. ASSUME Goto(k, Idle) PROVE ChatInv'
  BY <1>0, <1>4, IdleIsKnown, ReadsKeep DEF Goto
<1> QED BY <1>3, <1>4 DEF CheckAnswer

LEMMA ChannelKeeps ==
  ASSUME ChatInv, NEW k \in Captains, RenameChannel(k) \/ ArchiveChannel(k)
  PROVE  ChatInv' /\ Grows
<1>0. Tables /\ aborts \in 0 .. MaxAborts /\ aborts' = aborts /\ messages' = messages
      /\ KnownCall(call[k]) /\ call[k].at \in {"rename", "archive"}
      /\ call' = [call EXCEPT ![k] = Idle]
  BY DEF ChatInv, RenameChannel, ArchiveChannel, Goto
<1> PICK c \in Topics : c = call[k].chat
  BY <1>0 DEF KnownCall
<1>1. c \in Addresses /\ HasRow(c) /\ chats \in [Addresses -> Chats]
  BY <1>0 DEF KnownCall, Addresses, Tables
<1>2. CASE chats' = chats
  <2>1. Grows
    BY <1>0, <1>2 DEF Grows, HasRow, Ids
  <2> QED BY <1>0, <1>2, <2>1, IdleIsKnown, ReadsKeep
<1>3. ASSUME NEW row \in Chats, row.stored, chats' = [chats EXCEPT ![c] = row]
      PROVE  ChatInv' /\ Grows
  <2>1. Tables' /\ Grows
    BY <1>0, <1>1, <1>3, ChatsChange
  <2>2. KnownCall(Idle)'
    BY DEF KnownCall, Idle, Stages
  <2> QED BY <1>0, <2>1, <2>2, CallMoves
<1>4. CASE call[k].at = "rename" /\ chats' = [chats EXCEPT ![c].name = call[k].name]
  <2> PICK name \in Names : name = call[k].name
    BY <1>0, <1>4 DEF KnownCall
  <2> PICK old \in Chats : old = chats[c]
    BY <1>1
  <2> PICK row : row = [old EXCEPT !.name = name]
    OBVIOUS
  <2>1. row \in Chats /\ row.stored = old.stored
    BY DEF Chats
  <2>2. row.stored
    BY <1>1, <2>1 DEF HasRow
  <2>3. chats' = [chats EXCEPT ![c] = row]
    BY <1>1, <1>4
  <2> QED BY <1>3, <2>1, <2>2, <2>3
<1>5. CASE chats' = [chats EXCEPT ![c].archivedBy = k]
  <2> PICK old \in Chats : old = chats[c]
    BY <1>1
  <2> PICK row : row = [old EXCEPT !.archivedBy = k]
    OBVIOUS
  <2>1. row \in Chats /\ row.stored = old.stored
    BY DEF Chats
  <2>2. row.stored
    BY <1>1, <2>1 DEF HasRow
  <2>3. chats' = [chats EXCEPT ![c] = row]
    BY <1>1, <1>5
  <2> QED BY <1>3, <2>1, <2>2, <2>3
<1> QED BY <1>2, <1>4, <1>5 DEF RenameChannel, ArchiveChannel

(* What was listed is marked, all else stays.                               *)
LEMMA MarksOnly ==
  ASSUME Tables, NEW k \in Captains, DeleteMessages(k)
  PROVE  /\ messages' \in Seq(Message) /\ Len(messages') = Len(messages)
         /\ \A m \in Ids :
              \/ messages'[m] = messages[m]
              \/ ~ IsDeleted(m) /\ messages'[m] = [messages[m] EXCEPT !.deletedBy = k]
<1>0. messages \in Seq(Message) /\ Len(messages) \in Nat
  BY LenProperties DEF Tables
<1>1. messages' = [m \in 1 .. Len(messages) |-> IF m \in call[k].listed THEN MarkDeleted(k, m) ELSE messages[m]]
  BY DEF DeleteMessages, Ids
<1>2. ASSUME NEW m \in Ids
      PROVE  /\ \/ messages'[m] = messages[m]
                \/ ~ IsDeleted(m) /\ messages'[m] = [messages[m] EXCEPT !.deletedBy = k]
             /\ messages'[m] \in Message
  <2> PICK old \in Message : old = messages[m]
    BY MessagesAre
  <2>1. [old EXCEPT !.deletedBy = k] \in Message
    BY DEF Message
  <2>2. messages'[m] = IF m \in call[k].listed THEN MarkDeleted(k, m) ELSE old
    BY <1>1 DEF Ids
  <2>3. CASE messages'[m] = old
    BY <2>3
  <2>4. CASE ~ IsDeleted(m) /\ messages'[m] = [old EXCEPT !.deletedBy = k]
    BY <2>1, <2>4
  <2> QED BY <2>2, <2>3, <2>4 DEF MarkDeleted
<1>3. messages' \in [1 .. Len(messages) -> Message]
  BY <1>1, <1>2 DEF Ids
<1>4. messages' \in Seq(Message) /\ Len(messages') = Len(messages)
  BY <1>0, <1>3, SeqDef, LenProperties
<1> QED BY <1>2, <1>4

LEMMA DeleteKeeps ==
  ASSUME ChatInv, NEW k \in Captains, DeleteMessages(k)
  PROVE  ChatInv' /\ Grows
<1>0. Tables /\ aborts \in 0 .. MaxAborts /\ aborts' = aborts /\ chats' = chats
      /\ call' = [call EXCEPT ![k] = Idle]
  BY DEF ChatInv, DeleteMessages, Goto
<1>1. /\ messages' \in Seq(Message) /\ Len(messages') = Len(messages)
      /\ Ids' = Ids
  BY <1>0, MarksOnly DEF Ids
<1>2. ASSUME NEW m \in Ids
      PROVE  messages'[m].chat = messages[m].chat /\ messages'[m].root = messages[m].root
  <2> PICK old \in Message : old = messages[m]
    BY <1>0, MessagesAre
  <2>1. messages'[m] = old \/ messages'[m] = [old EXCEPT !.deletedBy = k]
    BY <1>0, MarksOnly
  <2> QED BY <2>1 DEF Message
<1>3. Grows
  BY <1>0, <1>1, <1>2 DEF Grows, HasRow
<1>4. ASSUME NEW m \in Ids
      PROVE  HasRow(messages[m].chat)' /\ RootHolds(messages[m].chat, messages[m].root)'
  <2> PICK c, root : c = messages[m].chat /\ root = messages[m].root
    OBVIOUS
  <2>1. c \in Addresses /\ HasRow(c) /\ RootHolds(c, root)
    BY <1>0, MessagesAre DEF Tables
  <2>2. HasRow(c)' /\ RootHolds(c, root)'
    BY <1>3, <2>1, RootStillHolds DEF Grows
  <2> QED BY <1>2, <2>2 DEF HasRow, RootHolds
<1>5. chats' \in [Addresses -> Chats] /\ \A c \in Addresses : NamedIsTopic(c)'
  BY <1>0 DEF Tables, NamedIsTopic, HasRow, IsArchived
<1>6. Tables'
  BY <1>1, <1>4, <1>5 DEF Tables
<1>7. KnownCall(Idle)'
  BY DEF KnownCall, Idle, Stages
<1> QED BY <1>0, <1>3, <1>6, <1>7, CallMoves

LEMMA AbortKeeps ==
  ASSUME ChatInv, NEW k \in Captains, Abort(k)
  PROVE  ChatInv'
<1>1. aborts' \in 0 .. MaxAborts
  BY ChatConstants DEF ChatInv, Abort
<1>2. call' = [call EXCEPT ![k] = Idle] /\ UNCHANGED << chats, messages >>
  BY DEF Abort, Goto
<1> QED BY <1>1, <1>2, IdleIsKnown, ReadsKeep

LEMMA InitHolds == Init => ChatInv
<1> SUFFICES ASSUME Init PROVE ChatInv
  OBVIOUS
<1>1. Ids = {} /\ messages \in Seq(Message)
  BY EmptySeq DEF Init, Ids
<1>2. chats \in [Addresses -> Chats] /\ \A c \in Addresses : NamedIsTopic(c)
  BY DEF Init, NoRow, Chats, NamedIsTopic, IsArchived
<1>3. Tables
  BY <1>1, <1>2 DEF Tables
<1>4. aborts \in 0 .. MaxAborts
  BY ChatConstants DEF Init
<1>5. call = [k \in Captains |-> call[k]] /\ \A k \in Captains : call[k] = Idle
  BY DEF Init
<1> QED BY <1>3, <1>4, <1>5, IdleIsKnown DEF ChatInv

LEMMA StepHolds == ChatInv /\ [Next]_vars => ChatInv'
<1> SUFFICES ASSUME ChatInv, [Next]_vars PROVE ChatInv'
  OBVIOUS
<1>1. CASE UNCHANGED vars
  <2>1. Tables' /\ Grows /\ call' = call /\ aborts' = aborts
    BY <1>1 DEF vars, ChatInv, Tables, Grows, Ids, RootHolds, IsArchived, HasRow, NamedIsTopic
  <2>2. ASSUME NEW x \in Captains PROVE KnownCall(call[x])'
    <3> PICK d : d = call[x]
      OBVIOUS
    <3>1. KnownCall(d)'
      BY <2>1, StillKnown DEF ChatInv
    <3> QED BY <2>1, <3>1
  <2> QED BY <2>1, <2>2 DEF ChatInv
<1>2. CASE Next
  <2> PICK k \in Captains : Request(k) \/ Continue(k) \/ Abort(k)
    BY <1>2 DEF Next
  <2> QED BY RequestKeeps, InsertKeeps, AnswerKeeps, ChannelKeeps, DeleteKeeps, AbortKeeps DEF Continue
<1> QED BY <1>1, <1>2

-----------------------------------------------------------------------------
(* What the invariant and the steps mean.                                   *)

LEMMA ShapesHold == ChatInv => TypeOK
BY DEF ChatInv, Tables, KnownCall, TypeOK, NamedIsTopic, HasRow

LEMMA RootsDiffer ==
  /\ TopLevel # OnMission
  /\ \A m : OnMessage(m) # TopLevel /\ OnMessage(m) # OnMission
           /\ OnMessage(m).id = m /\ OnMessage(m).kind = "message"
  /\ OnMission.kind = "mission"
BY DEF TopLevel, OnMission, OnMessage

(* What a chat shows of a thread it offers.                                 *)
LEMMA OfferedView ==
  ASSUME Tables, NEW c \in Addresses, NEW root \in OfferedThreads(c)
  PROVE  /\ root # TopLevel
         /\ ThreadView(c, root) = {m \in Ids : messages[m].root = root /\ messages[m].chat = c}
<1>1. CASE Kind(c) = "project"
  <2>1. root = OnMission
    BY <1>1 DEF OfferedThreads
  <2> QED BY <2>1, RootsDiffer DEF ThreadView, Replies
<1>2. CASE Kind(c) \in {"direct", "topic"}
  <2>1. PICK p \in TopLevelMessages(c) : root = OnMessage(p)
    BY <1>2 DEF OfferedThreads
  <2>2. messages[p].root = TopLevel
    BY DEF TopLevelMessages
  <2> QED BY <2>1, <2>2, RootsDiffer DEF ThreadView, Replies
<1>3. CASE Kind(c) # "project" /\ Kind(c) \notin {"direct", "topic"}
  BY <1>3 DEF OfferedThreads
<1> QED BY <1>1, <1>2, <1>3

LEMMA ShownOnce == ChatInv => EveryMessageIsShown
<1> SUFFICES ASSUME ChatInv, NEW m \in Ids, NEW c, c = messages[m].chat, NEW shownIn,
                    shownIn = {root \in OfferedThreads(c) : m \in ThreadView(c, root)}
             PROVE  IF m \in TopLevelMessages(c) THEN shownIn = {}
                    ELSE /\ Cardinality(shownIn) = 1
                         /\ ThreadView(c, OnMessage(m)) = ThreadView(c, ThreadOf(m))
  BY ShapesHold DEF EveryMessageIsShown
<1>0. Tables /\ c \in Addresses /\ RootHolds(c, messages[m].root)
  BY MessagesAre DEF ChatInv, Tables
<1>1. shownIn = {root \in OfferedThreads(c) : messages[m].root = root}
  BY <1>0, OfferedView
<1>2. CASE messages[m].root = TopLevel
  <2>1. shownIn = {}
    BY <1>0, <1>1, <1>2, OfferedView
  <2> QED BY <1>2, <2>1 DEF TopLevelMessages
<1>3. CASE messages[m].root # TopLevel
  <2> PICK r : r = messages[m].root
    OBVIOUS
  <2>1. r \in OfferedThreads(c)
    <3>1. CASE r = OnMission /\ Kind(c) = "project"
      BY <3>1 DEF OfferedThreads
    <3>2. ASSUME NEW p \in Ids, r = OnMessage(p), Kind(c) \in {"direct", "topic"},
                 messages[p].chat = c, messages[p].root = TopLevel
          PROVE  r \in OfferedThreads(c)
      BY <3>2 DEF OfferedThreads, TopLevelMessages
    <3> QED BY <1>0, <1>3, <3>1, <3>2 DEF RootHolds
  <2>2. shownIn = {r}
    BY <1>1, <2>1
  <2>3. Cardinality(shownIn) = 1
    BY <2>2, FS_Singleton
  <2>4. ThreadView(c, OnMessage(m)) = {x \in Ids : messages[x].root = r /\ messages[x].chat = c}
    BY <1>3, RootsDiffer DEF ThreadView, Replies
  <2>5. ThreadOf(m) = r
    BY <1>3 DEF ThreadOf
  <2>6. ThreadView(c, r) = {x \in Ids : messages[x].root = r /\ messages[x].chat = c}
    BY <1>0, <2>1, OfferedView
  <2>7. m \notin TopLevelMessages(c)
    BY <1>3 DEF TopLevelMessages
  <2> QED BY <2>3, <2>4, <2>5, <2>6, <2>7
<1> QED BY <1>2, <1>3

(* What a message may become in one step.                                   *)
OnlyDeleted(m) ==
  /\ m \in DOMAIN messages'
  /\ \/ messages'[m] = messages[m]
     \/ ~ IsDeleted(m) /\ \E k \in Captains : messages'[m] = [messages[m] EXCEPT !.deletedBy = k]

(* A channel that is archived stays as it is, and takes no message.         *)
Frozen(c) ==
  /\ chats'[c] = chats[c]
  /\ \A m \in DOMAIN messages' : messages'[m].chat = c => m \in Ids

(* The three ways a step treats the messages.                               *)
LEMMA InsertDoes ==
  ASSUME ChatInv, NEW k \in Captains, InsertMessage(k)
  PROVE  \/ UNCHANGED << chats, messages >>
         \/ \E m \in Message :
              /\ m.chat = call[k].chat /\ m.author = call[k].author /\ m.root = call[k].root
              /\ ~ IsArchived(m.chat) /\ \A c \in Addresses : c # m.chat => chats'[c] = chats[c]
              /\ messages' \in Seq(Message) /\ DOMAIN messages' = Ids \union {Len(messages) + 1}
              /\ Len(messages') = Len(messages) + 1
              /\ messages'[Len(messages) + 1] = m
              /\ \A i \in Ids : messages'[i] = messages[i]
<1>0. Tables /\ messages \in Seq(Message) /\ KnownCall(call[k])
  BY DEF ChatInv, Tables
<1> PICK j : j = call[k]
  OBVIOUS
<1>1. j.at = "post" /\ Posts(j)
  BY <1>0 DEF InsertMessage, KnownCall
<1>2. CASE TakesMessages(j.chat)
  <2> PICK m : m = [chat |-> j.chat, author |-> j.author, root |-> j.root, deletedBy |-> "nobody"]
    OBVIOUS
  <2>1. m \in Message /\ m.chat = j.chat /\ m.root = j.root /\ m.author = j.author
    BY <1>1 DEF Posts, Message
  <2>2. EnsureChat(j.chat, j.new) /\ messages' = Append(messages, m)
    BY <1>2 DEF InsertMessage
  <2>3. ~ IsArchived(m.chat)
    BY <1>2, <2>1 DEF TakesMessages
  <2>4. \A c \in Addresses : c # m.chat => chats'[c] = chats[c]
    BY <1>0, <2>1, <2>2 DEF EnsureChat, Tables
  <2>5. /\ messages' \in Seq(Message) /\ Len(messages') = Len(messages) + 1
        /\ messages'[Len(messages) + 1] = m
        /\ \A i \in 1 .. Len(messages) : messages'[i] = messages[i]
    BY <1>0, <2>1, <2>2, AppendProperties
  <2>6. DOMAIN messages' = Ids \union {Len(messages) + 1}
    <3>1. DOMAIN messages' = 1 .. Len(messages') /\ Len(messages) \in Nat
      BY <1>0, <2>5, LenProperties
    <3> QED BY <2>5, <3>1 DEF Ids
  <2> QED BY <2>1, <2>3, <2>4, <2>5, <2>6 DEF Ids
<1>3. CASE ~ TakesMessages(j.chat)
  BY <1>3 DEF InsertMessage
<1> QED BY <1>2, <1>3

LEMMA DeletionIsFinal ==
  ASSUME ChatInv, [Next]_vars, NEW m \in Ids
  PROVE  OnlyDeleted(m)
<1>0. Tables /\ m \in DOMAIN messages /\ DOMAIN messages = Ids
  BY MessagesAre DEF ChatInv
<1>1. CASE messages' = messages
  BY <1>0, <1>1 DEF OnlyDeleted
<1>2. ASSUME NEW k \in Captains, InsertMessage(k) PROVE OnlyDeleted(m)
  BY <1>1, <1>2, InsertDoes DEF OnlyDeleted
<1>3. ASSUME NEW k \in Captains, DeleteMessages(k) PROVE OnlyDeleted(m)
  <2>1. /\ messages' \in Seq(Message) /\ Len(messages') = Len(messages)
        /\ \/ messages'[m] = messages[m]
           \/ ~ IsDeleted(m) /\ messages'[m] = [messages[m] EXCEPT !.deletedBy = k]
    BY <1>0, <1>3, MarksOnly
  <2>2. m \in DOMAIN messages'
    BY <2>1, LenProperties DEF Ids
  <2> QED BY <2>1, <2>2 DEF OnlyDeleted
<1> QED BY <1>1, <1>2, <1>3 DEF Next, vars, Request, Continue, Abort, CheckPost, CreateChannel,
      CheckRename, CheckArchive, OpenChannel, ListMessage, ListThread, ListDirect, ReadyToDelete,
      CheckAnswer, RenameChannel, ArchiveChannel

LEMMA ArchivingIsFinal ==
  ASSUME ChatInv, [Next]_vars, NEW c \in Topics, IsArchived(c)
  PROVE  Frozen(c)
<1>0. Tables /\ c \in Addresses /\ chats \in [Addresses -> Chats]
  BY DEF ChatInv, Addresses, Tables
<1>1. messages \in Seq(Message) /\ DOMAIN messages = Ids
  BY <1>0, LenProperties DEF Tables, Ids
<1>2. CASE messages' = messages /\ chats'[c] = chats[c]
  BY <1>1, <1>2 DEF Frozen
<1>3. ASSUME NEW k \in Captains, InsertMessage(k) PROVE Frozen(c)
  <2>1. CASE UNCHANGED << chats, messages >>
    BY <1>2, <2>1
  <2>2. ASSUME NEW m \in Message, ~ IsArchived(m.chat),
               \A x \in Addresses : x # m.chat => chats'[x] = chats[x],
               DOMAIN messages' = Ids \union {Len(messages) + 1},
               messages'[Len(messages) + 1] = m
        PROVE  Frozen(c)
    <3>1. m.chat # c
      BY <2>2
    <3>2. chats'[c] = chats[c]
      BY <1>0, <2>2, <3>1
    <3> QED BY <2>2, <3>1, <3>2 DEF Frozen
  <2> QED BY <1>3, <2>1, <2>2, InsertDoes
<1>4. ASSUME NEW k \in Captains, DeleteMessages(k) PROVE Frozen(c)
  <2>1. messages' \in Seq(Message) /\ Len(messages') = Len(messages) /\ chats' = chats
    BY <1>0, <1>4, MarksOnly DEF DeleteMessages
  <2>2. DOMAIN messages' = Ids
    BY <2>1, LenProperties DEF Ids
  <2> QED BY <2>1, <2>2 DEF Frozen
<1>5. ASSUME NEW k \in Captains, NEW x \in Topics, NEW name \in Names, CreateChannel(k, x, name)
      PROVE  Frozen(c)
  <2>1. x # c
    <3>1. chats[c] # NoRow
      <4>1. NoRow.archivedBy = "nobody"
        BY DEF NoRow
      <4> QED BY <4>1 DEF IsArchived
    <3>2. HasRow(c)
      BY <1>0, <3>1, Zenon DEF Tables, NamedIsTopic
    <3>3. ~ HasRow(x)
      BY <1>5, Zenon DEF CreateChannel, HasRow
    <3> QED BY <3>2, <3>3
  <2> QED BY <1>0, <1>2, <1>5, <2>1 DEF CreateChannel
<1>6. ASSUME NEW k \in Captains, RenameChannel(k) \/ ArchiveChannel(k) PROVE Frozen(c)
  <2>1. messages' = messages
    BY <1>6 DEF RenameChannel, ArchiveChannel
  <2>2. CASE call[k].chat = c
    <3>1. chats' = chats
      BY <1>6, <2>2 DEF RenameChannel, ArchiveChannel, KeepsIdentity
    <3> QED BY <1>2, <2>1, <3>1
  <2>3. CASE call[k].chat # c
    <3>1. chats'[c] = chats[c]
      BY <1>0, <1>6, <2>3 DEF RenameChannel, ArchiveChannel
    <3> QED BY <1>2, <2>1, <3>1
  <2> QED BY <2>2, <2>3
<1> QED BY <1>2, <1>3, <1>4, <1>5, <1>6 DEF Next, vars, Request, Continue, Abort, CheckPost,
      CheckRename, CheckArchive, OpenChannel, ListMessage, ListThread, ListDirect, ReadyToDelete,
      CheckAnswer

(* An answer stands where its question was asked.                           *)
Answered(k) ==
  call[k].at = "post" /\ call[k].author = "xora" /\ call'[k] = Idle /\ Len(messages') > Len(messages)

StandsAtItsQuestion(k) ==
  LET q == messages[call[k].question]  a == messages'[Len(messages')] IN
    /\ a.author = "xora" /\ a.chat = q.chat
    /\ IF Kind(q.chat) = "direct" THEN a.root = ThreadOf(call[k].question)
       ELSE a.root = q.root

LEMMA AnswersStand ==
  ASSUME ChatInv, [Next]_vars, NEW k \in Captains, Answered(k)
  PROVE  StandsAtItsQuestion(k)
<1>0. Tables /\ Len(messages) \in Nat
  BY LenProperties DEF ChatInv, Tables
<1>1. PICK i \in Captains : InsertMessage(i)
  <2>1. ASSUME messages' = messages PROVE FALSE
    BY <1>0, <2>1 DEF Answered
  <2>2. ASSUME NEW i \in Captains, DeleteMessages(i) PROVE FALSE
    <3>1. Len(messages') = Len(messages)
      BY <1>0, <2>2, MarksOnly
    <3> QED BY <1>0, <3>1 DEF Answered
  <2> QED BY <2>1, <2>2 DEF Next, vars, Request, Continue, Abort, CheckPost, CreateChannel,
        CheckRename, CheckArchive, OpenChannel, ListMessage, ListThread, ListDirect, ReadyToDelete,
        CheckAnswer, RenameChannel, ArchiveChannel
<1>2. i = k
  <2>1. ASSUME i # k PROVE call'[k] = call[k]
    <3>1. \E next : Goto(i, next)
      BY <1>1 DEF InsertMessage
    <3> QED BY <2>1, <3>1 DEF Goto, ChatInv
  <2>2. call'[k] # call[k]
    BY DEF Answered, Idle
  <2> QED BY <2>1, <2>2
<1> PICK j : j = call[k]
  OBVIOUS
<1> PICK q : q = j.question
  OBVIOUS
<1>3. KnownCall(j) /\ j.at = "post" /\ j.author = "xora"
  BY DEF ChatInv, Answered
<1>4. q \in Ids /\ messages[q].chat = j.chat /\ j.root = AnswerRoot(q)
  BY <1>3 DEF KnownCall, Posts
<1>5. messages' # messages
  BY <1>0 DEF Answered
<1>6. PICK m \in Message : /\ m.chat = j.chat /\ m.author = j.author /\ m.root = j.root
                            /\ messages'[Len(messages')] = m
  BY <1>1, <1>2, <1>5, InsertDoes
<1> QED BY <1>3, <1>4, <1>6 DEF StandsAtItsQuestion, AnswerRoot

-----------------------------------------------------------------------------
(* The theorems.                                                            *)

(* Rows and requests have their shapes, in every state.                     *)
THEOREM Typed == Spec => []TypeOK
<1>1. Init => ChatInv
  BY InitHolds
<1>2. ChatInv /\ [Next]_vars => ChatInv'
  BY StepHolds
<1>3. ChatInv => TypeOK
  BY ShapesHold
<1> QED BY <1>1, <1>2, <1>3, PTL DEF Spec

(* Every message of a chat is shown in exactly one place of it.             *)
THEOREM MessagesAreShown == Spec => []EveryMessageIsShown
<1>1. Init => ChatInv
  BY InitHolds
<1>2. ChatInv /\ [Next]_vars => ChatInv'
  BY StepHolds
<1>3. ChatInv => EveryMessageIsShown
  BY ShownOnce
<1> QED BY <1>1, <1>2, <1>3, PTL DEF Spec

(* Messages are never edited, moved or brought back, and an archived        *)
(* channel is frozen whatever was under way when it was archived.           *)
THEOREM ChannelsStayFrozen == Spec => ArchivedIsFrozen
<1>1. Init => ChatInv
  BY InitHolds
<1>2. ChatInv /\ [Next]_vars => ChatInv'
  BY StepHolds
<1>3. ChatInv /\ [Next]_vars =>
        [\A m \in Ids :
           /\ m \in DOMAIN messages'
           /\ \/ messages'[m] = messages[m]
              \/ /\ ~ IsDeleted(m)
                 /\ \E k \in Captains : messages'[m] = [messages[m] EXCEPT !.deletedBy = k]]_vars
  BY DeletionIsFinal DEF OnlyDeleted
<1>4. ChatInv /\ [Next]_vars =>
        [\A c \in Topics : IsArchived(c) =>
           /\ chats'[c] = chats[c]
           /\ \A m \in DOMAIN messages' : messages'[m].chat = c => m \in Ids]_vars
  BY ArchivingIsFinal DEF Frozen
<1> QED BY <1>1, <1>2, <1>3, <1>4, PTL DEF Spec, ArchivedIsFrozen, DeletedForGood

(* Xora's answer stands where its question was asked, whatever the other    *)
(* requests did while the model wrote it.                                   *)
THEOREM AnswersStay == Spec => AnswerStaysInThread
<1>1. Init => ChatInv
  BY InitHolds
<1>2. ChatInv /\ [Next]_vars => ChatInv'
  BY StepHolds
<1>3. ChatInv /\ [Next]_vars =>
        [\A k \in Captains :
           LET answered == call[k].at = "post" /\ call[k].author = "xora"
                             /\ call'[k] = Idle /\ Len(messages') > Len(messages)
           IN answered =>
             LET q == messages[call[k].question]  a == messages'[Len(messages')] IN
               /\ a.author = "xora" /\ a.chat = q.chat
               /\ IF Kind(q.chat) = "direct" THEN a.root = ThreadOf(call[k].question)
                  ELSE a.root = q.root]_vars
  BY AnswersStand DEF Answered, StandsAtItsQuestion
<1> QED BY <1>1, <1>2, <1>3, PTL DEF Spec, AnswerStaysInThread

-----------------------------------------------------------------------------
(* The bridge in the browser, for any chats, threads and bounds.            *)

ViewsUpTo(v) == [place : Places, version : 0 .. v]
LoadsUpTo(v) ==
  {Free} \union [at : {"asked"}, place : Places] \union [at : {"read"}, view : ViewsUpTo(v)]
Bar == [shown : BOOLEAN, text : {NoText} \union Places, busy : BOOLEAN]
PostFields ==
  [at : {"sent", "stored", "done"}, pane : {"chat", "thread", "menu"}, own : BOOLEAN,
   path : Places, typed : {NoText} \union Places, next : {Stay} \union Places]
Post == {p \in PostFields : p.own => p.pane \in Panes}

(* A bar that is on the page has what is shown to write to.                 *)
OnPage(bar, o, s, l) ==
  /\ bar \in Bar
  /\ bar.shown \/ bar = Gone
  /\ bar.shown => Shown(o, s, l) # NoView

PageInv ==
  /\ version \in Nat /\ open \in Places /\ error \in BOOLEAN
  /\ state \in {NoView} \union ViewsUpTo(version)
  /\ last \in {NoView} \union ViewsUpTo(version)
  /\ loads \in [Slots -> LoadsUpTo(version)]
  /\ posts \in Seq(Post)
  /\ DOMAIN bars = Panes /\ \A pane \in Panes : OnPage(bars[pane], open, state, last)

LEMMA NoViewIsNone == NoView \notin Places /\ \A v : NoView \notin ViewsUpTo(v)
BY DEF NoView, Places, ViewsUpTo

(* What is shown is a view of the open chat, and of its thread or of none.  *)
LEMMA ShownFits ==
  ASSUME NEW v \in Nat, NEW o \in Places, NEW s \in {NoView} \union ViewsUpTo(v),
         NEW l \in {NoView} \union ViewsUpTo(v)
  PROVE  /\ LastSeen(o, s, l) \in {NoView} \union ViewsUpTo(v)
         /\ Shown(o, s, l) # NoView =>
              /\ Shown(o, s, l) \in ViewsUpTo(v)
              /\ Shown(o, s, l).place.address = o.address
              /\ Shown(o, s, l).place.thread \in {o.thread, "none"}
         /\ Shown(o, s, LastSeen(o, s, l)) = Shown(o, s, l)
<1> DEFINE data == Data(o, s)
           kept == LastSeen(o, s, l)
           stale == IF kept # NoView /\ kept.place.address = o.address THEN kept ELSE NoView
<1>1. data \in {NoView} \union ViewsUpTo(v) /\ (data # NoView => data.place = o)
  BY DEF Data
<1>2. kept \in {NoView} \union ViewsUpTo(v)
  BY <1>1 DEF LastSeen
<1>3. stale \in {NoView} \union ViewsUpTo(v) /\ (stale # NoView => stale.place.address = o.address)
  BY <1>2
<1>4. ASSUME NEW view \in ViewsUpTo(v)
      PROVE  /\ WithoutThread(view) \in ViewsUpTo(v)
             /\ WithoutThread(view).place.address = view.place.address
             /\ WithoutThread(view).place.thread = "none"
  BY DEF WithoutThread, ViewsUpTo, Places
<1>5. Shown(o, s, l) = IF data # NoView THEN data
                       ELSE IF stale = NoView THEN NoView
                       ELSE IF stale.place.thread # o.thread THEN WithoutThread(stale) ELSE stale
  BY DEF Shown
<1>6. LastSeen(o, s, kept) = kept
  BY DEF LastSeen
<1>7. Shown(o, s, kept) = Shown(o, s, l)
  BY <1>6 DEF Shown
<1> HIDE DEF data, kept, stale
<1>8. Shown(o, s, l) # NoView =>
        /\ Shown(o, s, l) \in ViewsUpTo(v)
        /\ Shown(o, s, l).place.address = o.address
        /\ Shown(o, s, l).place.thread \in {o.thread, "none"}
  <2>1. CASE data # NoView
    BY <1>1, <1>5, <2>1
  <2>2. CASE data = NoView /\ stale # NoView
    BY <1>3, <1>4, <1>5, <2>2
  <2> QED BY <1>5, <2>1, <2>2
<1> QED BY <1>2, <1>7, <1>8 DEF kept

LEMMA PageIsRendered ==
  ASSUME PageInv, NEW o \in Places, NEW s \in {NoView} \union ViewsUpTo(version),
         NEW e \in BOOLEAN, NEW b, b["chat"] \in Bar, b["thread"] \in Bar, Render(o, s, e, b),
         version' = version, loads' \in [Slots -> LoadsUpTo(version)], posts' \in Seq(Post)
  PROVE  PageInv'
<1>1. /\ last \in {NoView} \union ViewsUpTo(version) /\ version \in Nat
      /\ open' = o /\ state' = s /\ error' = e /\ last' = LastSeen(o, s, last)
      /\ bars' = [chat |-> Remount(b["chat"], ChatOnPage(o, s, e, last)),
                  thread |-> Remount(b["thread"], ThreadOnPage(o, s, last))]
  BY DEF PageInv, Render
<1>2. last' \in {NoView} \union ViewsUpTo(version) /\ Shown(o, s, last') = Shown(o, s, last)
  BY <1>1, ShownFits
<1>3. ASSUME NEW bar \in Bar, NEW onPage \in BOOLEAN, onPage => Shown(o, s, last) # NoView
      PROVE  OnPage(Remount(bar, onPage), o, s, last')
  <2>1. Gone \in Bar /\ Fresh \in Bar /\ Gone.shown = FALSE /\ Fresh.shown = TRUE
    BY DEF Bar, Gone, Fresh
  <2>2. Remount(bar, onPage) \in Bar
        /\ (onPage => Remount(bar, onPage).shown) /\ (~ onPage => Remount(bar, onPage) = Gone)
    BY <2>1 DEF Remount
  <2> QED BY <1>2, <1>3, <2>1, <2>2 DEF OnPage
<1>4. OnPage(Remount(b["chat"], ChatOnPage(o, s, e, last)), o, s, last')
  BY <1>3 DEF ChatOnPage
<1>5. OnPage(Remount(b["thread"], ThreadOnPage(o, s, last)), o, s, last')
  BY <1>3 DEF ThreadOnPage
<1>6. /\ DOMAIN bars' = Panes
      /\ bars'["chat"] = Remount(b["chat"], ChatOnPage(o, s, e, last))
      /\ bars'["thread"] = Remount(b["thread"], ThreadOnPage(o, s, last))
  BY <1>1 DEF Panes
<1>7. \A pane \in Panes : OnPage(bars'[pane], o, s, last')
  BY <1>4, <1>5, <1>6 DEF Panes
<1> QED BY <1>1, <1>2, <1>6, <1>7 DEF PageInv

(* What a step does to the reads and the posts under way.                   *)
LEMMA LoadsStay ==
  ASSUME NEW v \in Nat, NEW l \in [Slots -> LoadsUpTo(v)], NEW place \in Places
  PROVE  LoadInto(l, place) \in [Slots -> LoadsUpTo(v)]
<1>1. [at |-> "asked", place |-> place] \in LoadsUpTo(v)
  BY DEF LoadsUpTo
<1> QED BY <1>1 DEF LoadInto

LEMMA PostsChange ==
  ASSUME NEW p \in Seq(Post), NEW q, DOMAIN q = DOMAIN p, q = [i \in DOMAIN p |-> q[i]],
         \A i \in DOMAIN p : q[i] \in Post
  PROVE  q \in Seq(Post)
<1>1. DOMAIN p = 1 .. Len(p) /\ Len(p) \in Nat
  BY LenProperties
<1>2. q \in [1 .. Len(p) -> Post]
  BY <1>1
<1> QED BY <1>1, <1>2, SeqDef

LEMMA OnePost ==
  ASSUME NEW post \in Post
  PROVE  /\ [post EXCEPT !.own = FALSE] \in Post
         /\ \A at \in {"sent", "stored", "done"} : [post EXCEPT !.at = at] \in Post
BY DEF Post, PostFields

LEMMA PostsStay ==
  ASSUME NEW p \in Seq(Post)
  PROVE  /\ \A b : Orphan(p, b) \in Seq(Post)
         /\ \A i \in DOMAIN p : \A at \in {"sent", "stored", "done"} :
              [p EXCEPT ![i].at = at] \in Seq(Post)
<1>0. \A i \in DOMAIN p : p[i] \in Post
  BY ElementOfSeq, LenProperties
<1>1. ASSUME NEW b PROVE Orphan(p, b) \in Seq(Post)
  <2>1. \A i \in DOMAIN p : Orphan(p, b)[i] \in Post
    BY <1>0, OnePost DEF Orphan
  <2>2. DOMAIN Orphan(p, b) = DOMAIN p /\ Orphan(p, b) = [i \in DOMAIN p |-> Orphan(p, b)[i]]
    BY DEF Orphan
  <2> QED BY <2>1, <2>2, PostsChange
<1>2. ASSUME NEW i \in DOMAIN p, NEW at \in {"sent", "stored", "done"}
      PROVE  [p EXCEPT ![i].at = at] \in Seq(Post)
  <2> DEFINE q == [p EXCEPT ![i].at = at]
  <2>1. DOMAIN q = DOMAIN p /\ q[i] = [p[i] EXCEPT !.at = at]
        /\ \A k \in DOMAIN p \ {i} : q[k] = p[k]
    BY SeqDef
  <2>2. \A k \in DOMAIN p : q[k] \in Post
    BY <1>0, <2>1, OnePost
  <2>3. q = [k \in DOMAIN p |-> q[k]]
    BY SeqDef
  <2> HIDE DEF q
  <2>4. q \in Seq(Post)
    BY <2>1, <2>2, <2>3, PostsChange
  <2> QED BY <2>4 DEF q
<1> QED BY <1>1, <1>2

LEMMA PageInvInit == PageInit => PageInv
<1> SUFFICES ASSUME PageInit PROVE PageInv
  OBVIOUS
<1>1. Start \in Places
  BY DEF Start, Places, PageAddresses
<1>2. [at |-> "asked", place |-> Start] \in LoadsUpTo(0) /\ Free \in LoadsUpTo(0)
  BY <1>1 DEF LoadsUpTo
<1>3. loads \in [Slots -> LoadsUpTo(0)]
  BY <1>2 DEF PageInit
<1>4. posts \in Seq(Post)
  BY EmptySeq DEF PageInit
<1>5. Gone \in Bar /\ Gone.shown = FALSE
  BY DEF Gone, Bar
<1>6. DOMAIN bars = Panes /\ \A pane \in Panes : OnPage(bars[pane], open, state, last)
  BY <1>5 DEF OnPage, PageInit
<1> QED BY <1>1, <1>3, <1>4, <1>6 DEF PageInit, PageInv

LEMMA PageTyped ==
  ASSUME PageInv
  PROVE  /\ version \in Nat /\ open \in Places /\ error \in BOOLEAN /\ loads \in [Slots -> LoadsUpTo(version)]
         /\ state \in {NoView} \union ViewsUpTo(version) /\ posts \in Seq(Post)
         /\ bars["chat"] \in Bar /\ bars["thread"] \in Bar
BY DEF PageInv, OnPage, Panes

LEMMA NavigateKeeps == ASSUME PageInv, NEW place \in Places, Navigate(place) PROVE PageInv'
<1>1. loads' \in [Slots -> LoadsUpTo(version)]
  BY PageTyped, LoadsStay DEF Navigate
<1>2. posts' \in Seq(Post)
  BY PageTyped, PostsStay DEF Navigate
<1>3. version' = version /\ Render(place, state, error, bars)
  BY DEF Navigate, server
<1> QED BY <1>1, <1>2, <1>3, PageTyped, PageIsRendered

LEMMA PageReadsKeep ==
  ASSUME PageInv, Poll \/ \E i \in Slots : Serve(i) PROVE PageInv'
<1>1. /\ UNCHANGED << open, state, error, last, bars, posts, version >>
  BY DEF Poll, Serve, server
<1>2. loads' \in [Slots -> LoadsUpTo(version)]
  <2>1. CASE Poll
    BY <2>1, PageTyped, LoadsStay DEF Poll
  <2>2. ASSUME NEW i \in Slots, Serve(i) PROVE loads' \in [Slots -> LoadsUpTo(version)]
    <3>1. loads[i] \in LoadsUpTo(version) /\ loads[i].at = "asked"
      BY <2>2, PageTyped DEF Serve
    <3>2. loads[i].place \in Places
      BY <3>1 DEF LoadsUpTo, Free
    <3>3. View(loads[i].place, version) \in ViewsUpTo(version)
      BY <3>2, PageTyped DEF View, ViewsUpTo
    <3>4. [at |-> "read", view |-> View(loads[i].place, version)] \in LoadsUpTo(version)
      BY <3>3 DEF LoadsUpTo
    <3> QED BY <2>2, <3>4, PageTyped DEF Serve
  <2> QED BY <2>1, <2>2
<1> QED BY <1>1, <1>2 DEF PageInv

LEMMA AnswersKeep ==
  ASSUME PageInv, NEW i \in Slots, Arrive(i) \/ Fail(i) PROVE PageInv'
<1>1. loads' \in [Slots -> LoadsUpTo(version)] /\ version' = version
  <2>1. loads' = [loads EXCEPT ![i] = Free] /\ version' = version
    BY DEF Arrive, Fail, server
  <2> QED BY <2>1, PageTyped DEF LoadsUpTo
<1>2. posts' \in Seq(Post)
  <2>1. posts' = Orphan(posts, bars')
    BY DEF Arrive, Fail
  <2> QED BY <2>1, PageTyped, PostsStay
<1>3. CASE Arrive(i)
  <2>1. loads[i] \in LoadsUpTo(version) /\ loads[i].at = "read"
    BY <1>3, PageTyped DEF Arrive
  <2>2. loads[i].view \in ViewsUpTo(version)
    BY <2>1 DEF LoadsUpTo, Free
  <2> QED BY <1>1, <1>2, <1>3, <2>2, PageTyped, PageIsRendered DEF Arrive
<1>4. CASE Fail(i)
  BY <1>1, <1>2, <1>4, PageTyped, PageIsRendered DEF Fail
<1> QED BY <1>3, <1>4

LEMMA BarsTyped ==
  ASSUME NEW bar \in Bar
  PROVE  /\ [bar EXCEPT !.busy = FALSE] \in Bar
         /\ \A place \in {NoText} \union Places : [bar EXCEPT !.text = place] \in Bar
BY DEF Bar

LEMMA TargetIsPlace ==
  ASSUME PageInv, NEW pane \in Panes, bars[pane].shown PROVE Target(pane) \in Places
<1>1. Shown(open, state, last) \in ViewsUpTo(version)
  BY ShownFits DEF PageInv, OnPage
<1> QED BY <1>1 DEF Target, ViewsUpTo, Places

LEMMA TypeKeeps == ASSUME PageInv, NEW pane \in Panes, Type(pane) PROVE PageInv'
<1>0. OnPage(bars[pane], open, state, last) /\ Target(pane) \in Places
  BY TargetIsPlace DEF Type, PageInv
<1>1. DOMAIN bars' = Panes /\ bars'[pane] = [bars[pane] EXCEPT !.text = Target(pane)]
      /\ \A q \in Panes \ {pane} : bars'[q] = bars[q]
  BY DEF Type, PageInv
<1>2. bars'[pane] \in Bar /\ bars'[pane].shown = bars[pane].shown /\ bars[pane].shown
  BY <1>0, <1>1, BarsTyped DEF OnPage, Bar, Type
<1>3. OnPage(bars'[pane], open, state, last)
  BY <1>0, <1>2 DEF OnPage
<1>4. \A q \in Panes : OnPage(bars'[q], open, state, last)
  BY <1>1, <1>3 DEF PageInv
<1>5. UNCHANGED << open, state, error, last, loads, posts, version >>
  BY DEF Type, server
<1> QED BY <1>1, <1>4, <1>5 DEF PageInv

LEMMA SendKeeps == ASSUME PageInv, NEW pane \in Panes, Send(pane) PROVE PageInv'
<1>0. OnPage(bars[pane], open, state, last) /\ bars[pane].shown /\ bars[pane].text \in Places
  BY DEF Send, PageInv, OnPage, Bar
<1> DEFINE sent == [shown |-> TRUE, text |-> NoText, busy |-> TRUE]
<1>1. DOMAIN bars' = Panes /\ bars'[pane] = sent
      /\ \A q \in Panes \ {pane} : bars'[q] = bars[q]
  BY DEF Send, PageInv
<1>2. sent \in Bar /\ sent.shown = TRUE
  BY DEF Bar
<1> HIDE DEF sent
<1>3. OnPage(bars'[pane], open, state, last)
  BY <1>0, <1>1, <1>2 DEF OnPage
<1>4. \A q \in Panes : OnPage(bars'[q], open, state, last)
  BY <1>1, <1>3 DEF PageInv
<1>5. UNCHANGED << open, state, error, last, loads, version >>
  BY DEF Send, server
<1>6. posts' \in Seq(Post)
  <2>1. PICK t \in Threads :
          posts' = Append(posts,
            [at |-> "sent", pane |-> pane, own |-> TRUE, path |-> open, typed |-> bars[pane].text,
             next |-> IF pane = "chat" /\ open.address = Direct
                      THEN [address |-> Direct, thread |-> t] ELSE Stay])
    BY DEF Send
  <2>2. ASSUME NEW next \in {Stay} \union Places
        PROVE  [at |-> "sent", pane |-> pane, own |-> TRUE, path |-> open, typed |-> bars[pane].text,
                next |-> next] \in Post
    BY <1>0, PageTyped DEF Post, PostFields, Panes
  <2>3. [address |-> Direct, thread |-> t] \in Places
    BY DEF Places, PageAddresses
  <2> QED BY <2>1, <2>2, <2>3, PageTyped, AppendProperties
<1> QED BY <1>1, <1>4, <1>5, <1>6 DEF PageInv

LEMMA MenuKeeps ==
  ASSUME PageInv, NEW next \in Places \union {Stay}, UseMenu(next) PROVE PageInv'
<1>1. [at |-> "sent", pane |-> "menu", own |-> FALSE, path |-> open, typed |-> NoText,
       next |-> next] \in Post
  BY PageTyped DEF Post, PostFields
<1>2. posts' \in Seq(Post)
  BY <1>1, PageTyped, AppendProperties DEF UseMenu
<1>3. UNCHANGED << open, state, error, last, loads, bars, version >>
  BY DEF UseMenu, server
<1> QED BY <1>2, <1>3 DEF PageInv

LEMMA ServerKeeps ==
  ASSUME PageInv, Change \/ \E i \in DOMAIN posts : Store(i) PROVE PageInv'
<1>1. /\ UNCHANGED << open, state, error, last, loads, bars >> /\ version' = version + 1
  BY DEF Change, Store
<1>2. posts' \in Seq(Post)
  <2>1. CASE Change
    BY <2>1, PageTyped DEF Change
  <2>2. ASSUME NEW i \in DOMAIN posts, Store(i) PROVE posts' \in Seq(Post)
    BY <2>2, PageTyped, PostsStay DEF Store
  <2> QED BY <2>1, <2>2
<1>3. ViewsUpTo(version) \subseteq ViewsUpTo(version + 1)
  BY PageTyped DEF ViewsUpTo
<1>4. LoadsUpTo(version) \subseteq LoadsUpTo(version + 1)
  BY <1>3 DEF LoadsUpTo
<1>5. loads \in [Slots -> LoadsUpTo(version + 1)]
  BY <1>4, PageTyped
<1> QED BY <1>1, <1>2, <1>3, <1>5 DEF PageInv

LEMMA PostsEndKeep ==
  ASSUME PageInv, NEW i \in DOMAIN posts, Posted(i) \/ PostFailed(i) PROVE PageInv'
<1> DEFINE p == posts[i]
           b == Ended(p)
<1>0. p \in Post
  BY PageTyped, ElementOfSeq, LenProperties
<1>1. DOMAIN b = Panes /\ \A pane \in Panes : b[pane] \in Bar
  <2>1. DOMAIN bars = Panes /\ \A pane \in Panes : bars[pane] \in Bar
    BY DEF PageInv, OnPage
  <2>2. CASE p.own
    <3>1. p.pane \in Panes
      BY <1>0, <2>2 DEF Post
    <3>2. b = [bars EXCEPT ![p.pane].busy = FALSE]
      BY <2>2 DEF Ended
    <3> HIDE DEF b, p
    <3> QED BY <2>1, <3>1, <3>2, BarsTyped
  <2> QED BY <2>1, <2>2 DEF Ended
<1>2. posts' \in Seq(Post) /\ version' = version
  <2>1. [posts EXCEPT ![i].at = "done"] \in Seq(Post)
    BY PageTyped, PostsStay
  <2> QED BY <2>1, PostsStay DEF Posted, PostFailed, server
<1>3. CASE Posted(i)
  <2> DEFINE place == IF p.next = Stay THEN open ELSE p.next
  <2>1. place \in Places /\ p.path \in Places
    BY <1>0, PageTyped DEF Post, PostFields
  <2>2. loads' \in {LoadInto(loads, p.path), LoadInto(LoadInto(loads, p.path), place)}
        /\ Render(place, state, error, b)
    BY <1>3 DEF Posted
  <2> HIDE DEF place, b
  <2>3. loads' \in [Slots -> LoadsUpTo(version)]
    BY <2>1, <2>2, PageTyped, LoadsStay
  <2> QED BY <1>1, <1>2, <2>1, <2>2, <2>3, PageTyped, PageIsRendered DEF Panes
<1>4. CASE PostFailed(i)
  <2> DEFINE back == IF p.own /\ b[p.pane].text = NoText
                     THEN [b EXCEPT ![p.pane].text = p.typed] ELSE b
  <2>1. Render(open, state, error, back) /\ loads' = loads
    BY <1>4 DEF PostFailed
  <2>2. p.typed \in {NoText} \union Places /\ (p.own => p.pane \in Panes)
    BY <1>0 DEF Post, PostFields
  <2> HIDE DEF b, p
  <2>3. \A pane \in Panes : back[pane] \in Bar
    BY <1>1, <2>2, BarsTyped
  <2> HIDE DEF back
  <2> QED BY <1>2, <2>1, <2>3, PageTyped, PageIsRendered DEF Panes
<1> QED BY <1>3, <1>4

LEMMA PageInvInductive == PageInv /\ [PageNext]_pageVars => PageInv'
<1> SUFFICES ASSUME PageInv, [PageNext]_pageVars PROVE PageInv'
  OBVIOUS
<1>1. CASE UNCHANGED pageVars
  BY <1>1 DEF PageInv, pageVars
<1>2. CASE CaptainActs
  <2>1. \A a \in Channels : [address |-> a, thread |-> "none"] \in Places
    BY DEF Places, PageAddresses
  <2> QED BY <1>2, <2>1, NavigateKeeps, TypeKeeps, SendKeeps, MenuKeeps DEF CaptainActs
<1>3. CASE Network
  BY <1>3, PageReadsKeep, AnswersKeep, ServerKeeps, PostsEndKeep DEF Network
<1> QED BY <1>1, <1>2, <1>3, PageReadsKeep, ServerKeeps DEF PageNext

(* However many requests are under way and in whatever order their answers  *)
(* and failures arrive, what the bridge shows is the chat that is open, and *)
(* its thread or none (Bridge, usePolling).                                 *)
THEOREM ShownIsAlwaysOpen == PageSpec => []ShownIsOpen
<1>1. PageInv => ShownIsOpen
  <2> SUFFICES ASSUME PageInv PROVE ShownIsOpen
    OBVIOUS
  <2>1. Shown(open, state, last) # NoView =>
          /\ Shown(open, state, last).place.address = open.address
          /\ Shown(open, state, last).place.thread \in {open.thread, "none"}
    BY ShownFits DEF PageInv
  <2>2. PageTypeOK
    BY DEF PageInv, PageTypeOK, OnPage, Bar, ViewsUpTo
  <2> QED BY <2>1, <2>2 DEF ShownIsOpen
<1> QED BY <1>1, PageInvInit, PageInvInductive, PTL DEF PageSpec
=============================================================================
