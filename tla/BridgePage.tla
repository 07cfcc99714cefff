------------------------------ MODULE BridgePage ------------------------------
(***************************************************************************)
(* The bridge in the browser (packages/app/src/web/components/Bridge.tsx   *)
(* over usePolling and post of packages/app/src/web/api.ts): one page that *)
(* polls the open chat, opens chats and threads, and posts what is typed   *)
(* into the input bars of the chat and of its thread.                      *)
(*                                                                         *)
(* Requests are answered in any order and any number of them is under way; *)
(* nothing cancels one.  What the server holds is one version number that  *)
(* grows with every message; a view is the version it was read at.         *)
(*                                                                         *)
(* A React component that leaves the page loses its state, and one that    *)
(* stays keeps it: whether an input bar keeps its text is a matter of what *)
(* was shown in between.  Every action ends with the render it causes.     *)
(***************************************************************************)
EXTENDS Naturals, Sequences, FiniteSets

CONSTANTS
  Channels,       (* addresses of channels                                  *)
  Direct,         (* the address of the direct chat                         *)
  Threads,        (* keys of threads                                        *)
  MaxLoads,       (* bound on the reads under way                           *)
  MaxPosts,       (* bound on the posts of the page                         *)
  MaxMoves,       (* bound on the places the captain opens                  *)
  MaxFailures,    (* bound on the requests that fail                        *)
  MaxChanges      (* bound on the messages of others                        *)

ASSUME PageConstants ==
  /\ Direct \notin Channels
  /\ "none" \notin Threads
  /\ {MaxLoads, MaxPosts, MaxMoves, MaxFailures, MaxChanges} \subseteq Nat

VARIABLES
  open,           (* the address and the thread in the URL                  *)
  state,          (* usePolling: the last view that arrived                 *)
  error,          (* usePolling: the last request failed                    *)
  last,           (* last.current: the last view that was shown as fresh    *)
  loads,          (* the reads under way                                    *)
  bars,           (* the input bars on the page                             *)
  posts,          (* the posts of the page, in the order they were sent     *)
  version,        (* what the server holds                                  *)
  moves, failures, changes

pageVars == << open, state, error, last, loads, bars, posts, version, moves,
           failures, changes >>
server == << version, changes >>

-----------------------------------------------------------------------------
PageAddresses == Channels \union {Direct}
Places == [address : PageAddresses, thread : Threads \union {"none"}]
NoView == [none |-> TRUE]
Stay == [none |-> TRUE]
View(place, v) == [place |-> place, version |-> v]

Free == [at |-> "free"]
Slots == 1 .. MaxLoads

(* An input bar: whether it is on the page, what is typed in it and since   *)
(* which place it was typed, and whether its message is being sent.         *)
NoText == [none |-> TRUE]
Gone == [shown |-> FALSE, text |-> NoText, busy |-> FALSE]
Fresh == [shown |-> TRUE, text |-> NoText, busy |-> FALSE]
Panes == {"chat", "thread"}

-----------------------------------------------------------------------------
(* Rendering.                                                              *)

(* Mutant of Data: the answer is shown whatever it was asked for.           *)
AnyData(o, s) == s

(* usePolling: a view counts for the path it was read from only.            *)
Data(o, s) == IF s # NoView /\ s.place = o THEN s ELSE NoView

LastSeen(o, s, l) == IF Data(o, s) # NoView THEN Data(o, s) ELSE l

WithoutThread(view) == [view EXCEPT !.place.thread = "none"]

(* What Bridge shows: the fresh view, or while it reloads the last one of   *)
(* the same chat, without its thread if another thread was asked for.       *)
Shown(o, s, l) ==
  LET data == Data(o, s)
      kept == LastSeen(o, s, l)
      stale == IF kept # NoView /\ kept.place.address = o.address THEN kept ELSE NoView
  IN IF data # NoView THEN data
     ELSE IF stale = NoView THEN NoView
     ELSE IF stale.place.thread # o.thread THEN WithoutThread(stale) ELSE stale

(* An error replaces the chat, not its thread.                              *)
ChatOnPage(o, s, e, l) == ~ e /\ Shown(o, s, l) # NoView
ThreadOnPage(o, s, l) == Shown(o, s, l) # NoView /\ Shown(o, s, l).place.thread # "none"

(* Mutant of Remount: a bar keeps its state off the page.                   *)
KeepBar(bar, onPage) == [bar EXCEPT !.shown = onPage]

(* A bar that leaves the page loses its state, one that comes is empty.     *)
Remount(bar, onPage) == IF ~ onPage THEN Gone ELSE IF bar.shown THEN bar ELSE Fresh

(* The render after the page's state became o, s, e, and the bars b.        *)
Render(o, s, e, b) ==
  /\ open' = o /\ state' = s /\ error' = e
  /\ last' = LastSeen(o, s, last)
  /\ bars' = [chat |-> Remount(b["chat"], ChatOnPage(o, s, e, last)),
              thread |-> Remount(b["thread"], ThreadOnPage(o, s, last))]

(* A post whose input bar has left the page finds nobody to tell.           *)
Orphan(p, b) ==
  [i \in DOMAIN p |-> IF p[i].own /\ ~ b[p[i].pane].shown
                      THEN [p[i] EXCEPT !.own = FALSE] ELSE p[i]]

FreeSlots == {i \in Slots : loads[i] = Free}

(* One more read under way, in the first free slot.                         *)
LoadInto(l, place) ==
  LET free == {i \in Slots : l[i] = Free}
      first == CHOOSE i \in free : \A j \in free : i <= j
  IN [l EXCEPT ![first] = [at |-> "asked", place |-> place]]

-----------------------------------------------------------------------------
Start == [address |-> Direct, thread |-> "none"]

PageInit ==
  /\ open = Start
  /\ state = NoView
  /\ error = FALSE
  /\ last = NoView
  /\ loads = [i \in Slots |-> IF i = 1 THEN [at |-> "asked", place |-> Start] ELSE Free]
  /\ bars = [p \in Panes |-> Gone]
  /\ posts = << >>
  /\ version = 0
  /\ moves = 0 /\ failures = 0 /\ changes = 0

(* The captain opens a chat or a thread of it; the effect of usePolling     *)
(* loads the new path at once.                                              *)
Navigate(place) ==
  /\ place # open
  /\ moves < MaxMoves
  /\ moves' = moves + 1
  /\ FreeSlots # {}
  /\ Render(place, state, error, bars)
  /\ loads' = LoadInto(loads, place)
  /\ posts' = Orphan(posts, bars')
  /\ UNCHANGED << failures, server >>

(* Mutant of Poll: one read for every path and no interval.                 *)
PollOnce ==
  /\ state = NoView
  /\ FreeSlots # {}
  /\ loads' = LoadInto(loads, open)
  /\ UNCHANGED << open, state, error, last, bars, posts, moves, failures, server >>

(* The interval of usePolling, while the page is visible.                   *)
Poll ==
  /\ FreeSlots # {}
  /\ loads' = LoadInto(loads, open)
  /\ UNCHANGED << open, state, error, last, bars, posts, moves, failures, server >>

(* The server reads the chat; or the request fails.                         *)
Serve(i) ==
  /\ loads[i].at = "asked"
  /\ loads' = [loads EXCEPT ![i] = [at |-> "read", view |-> View(loads[i].place, version)]]
  /\ UNCHANGED << open, state, error, last, bars, posts, moves, failures, server >>

(* The answer arrives; the error of an earlier request is forgotten.        *)
Arrive(i) ==
  /\ loads[i].at = "read"
  /\ loads' = [loads EXCEPT ![i] = Free]
  /\ Render(open, loads[i].view, FALSE, bars)
  /\ posts' = Orphan(posts, bars')
  /\ UNCHANGED << moves, failures, server >>

(* The request fails, for whichever path it was.                            *)
Fail(i) ==
  /\ loads[i].at \in {"asked", "read"}
  /\ failures < MaxFailures
  /\ failures' = failures + 1
  /\ loads' = [loads EXCEPT ![i] = Free]
  /\ Render(open, state, TRUE, bars)
  /\ posts' = Orphan(posts, bars')
  /\ UNCHANGED << moves, server >>

-----------------------------------------------------------------------------
(* The input bars.                                                         *)

(* Where a bar writes to: the chat, or the thread, that is shown.           *)
Target(pane) ==
  LET place == Shown(open, state, last).place IN
  IF pane = "thread" THEN place ELSE [place EXCEPT !.thread = "none"]

Type(pane) ==
  /\ bars[pane].shown
  /\ bars[pane].text = NoText
  /\ bars' = [bars EXCEPT ![pane].text = Target(pane)]
  /\ UNCHANGED << open, state, error, last, loads, posts, moves, failures, server >>

(* send: the field empties at once.  The closure keeps the path that was    *)
(* open, for the reload that follows; from the direct chat the page goes on *)
(* to the thread the message opens.                                         *)
Send(pane) ==
  /\ bars[pane].shown /\ ~ bars[pane].busy
  /\ bars[pane].text # NoText
  /\ Len(posts) < MaxPosts
  /\ bars' = [bars EXCEPT ![pane] = [shown |-> TRUE, text |-> NoText, busy |-> TRUE]]
  /\ \E t \in Threads :
       posts' = Append(posts,
         [at |-> "sent", pane |-> pane, own |-> TRUE, path |-> open, typed |-> bars[pane].text,
          next |-> IF pane = "chat" /\ open.address = Direct
                   THEN [address |-> Direct, thread |-> t] ELSE Stay])
  /\ UNCHANGED << open, state, error, last, loads, moves, failures, server >>

(* The menu of the chat and the form for a new channel: archiving leads to  *)
(* another channel, creating to the new one, renaming and clearing nowhere. *)
UseMenu(next) ==
  /\ bars["chat"].shown
  /\ Len(posts) < MaxPosts
  /\ posts' = Append(posts, [at |-> "sent", pane |-> "menu", own |-> FALSE, path |-> open,
                             typed |-> NoText, next |-> next])
  /\ UNCHANGED << open, state, error, last, loads, bars, moves, failures, server >>

(* The server has done what the post asks, Xora's answer included.          *)
Store(i) ==
  /\ posts[i].at = "sent"
  /\ posts' = [posts EXCEPT ![i].at = "stored"]
  /\ version' = version + 1
  /\ UNCHANGED << open, state, error, last, loads, bars, moves, failures, changes >>

(* The bars once a post has ended; a bar that left the page hears nothing.  *)
Ended(p) == IF p.own THEN [bars EXCEPT ![p.pane].busy = FALSE] ELSE bars

(* The post is answered: the page reloads the path it was sent from and     *)
(* goes where the post leads, also when the captain is elsewhere by now.    *)
Posted(i) ==
  LET p == posts[i]
      place == IF p.next = Stay THEN open ELSE p.next
      reads == IF place = open THEN 1 ELSE 2
  IN
  /\ p.at = "stored"
  /\ Cardinality(FreeSlots) >= reads
  /\ Render(place, state, error, Ended(p))
  /\ loads' = IF reads = 1 THEN LoadInto(loads, p.path)
              ELSE LoadInto(LoadInto(loads, p.path), place)
  /\ posts' = Orphan([posts EXCEPT ![i].at = "done"], bars')
  /\ UNCHANGED << moves, failures, server >>

(* The post fails, before or after the server stored it: the text comes     *)
(* back if the bar is still there and empty.                                *)
PostFailed(i) ==
  LET p == posts[i]
      b == Ended(p)
      back == IF p.own /\ b[p.pane].text = NoText
              THEN [b EXCEPT ![p.pane].text = p.typed] ELSE b
  IN
  /\ p.at \in {"sent", "stored"}
  /\ failures < MaxFailures
  /\ failures' = failures + 1
  /\ Render(open, state, error, back)
  /\ posts' = Orphan([posts EXCEPT ![i].at = "done"], bars')
  /\ UNCHANGED << loads, moves, server >>

(* Somebody else writes: an agent, the CLI, another page.                   *)
Change ==
  /\ changes < MaxChanges
  /\ changes' = changes + 1
  /\ version' = version + 1
  /\ UNCHANGED << open, state, error, last, loads, bars, posts, moves, failures >>

-----------------------------------------------------------------------------
CaptainActs ==
  \/ \E place \in Places : Navigate(place)
  \/ \E pane \in Panes : Type(pane)
  \/ \E pane \in Panes : Send(pane)
  \/ \E next \in {[address |-> a, thread |-> "none"] : a \in Channels} \union {Stay} : UseMenu(next)

Network ==
  \/ \E i \in Slots : Serve(i)
  \/ \E i \in Slots : Arrive(i)
  \/ \E i \in Slots : Fail(i)
  \/ \E i \in DOMAIN posts : Store(i)
  \/ \E i \in DOMAIN posts : Posted(i)
  \/ \E i \in DOMAIN posts : PostFailed(i)

PageNext == CaptainActs \/ Network \/ Poll \/ Change

PageSpec == PageInit /\ [][PageNext]_pageVars

(* The interval goes on for as long as the page is visible, and a request   *)
(* is answered or fails.                                                    *)
FairPageSpec ==
  /\ PageSpec
  /\ WF_pageVars(Poll)
  /\ \A i \in Slots : WF_pageVars(Serve(i)) /\ WF_pageVars(Arrive(i))
-----------------------------------------------------------------------------
(* Properties.                                                             *)

(* The page's state has its shapes; an input bar that is not on the page    *)
(* holds nothing.                                                           *)
PageTypeOK ==
  /\ open \in Places /\ error \in BOOLEAN
  /\ \A v \in {state, last} : v = NoView \/ v \in [place : Places, version : 0 .. version]
  /\ \A p \in Panes : bars[p].shown \/ bars[p] = Gone
  /\ \A p \in Panes : bars[p].text = NoText \/ bars[p].text \in Places

(* Whatever order answers arrive in, the page shows the chat that is open,  *)
(* and next to it the thread that is open or none.                          *)
ShownIsOpen ==
  LET shown == Shown(open, state, last) IN
  /\ PageTypeOK
  /\ shown # NoView =>
       /\ shown.place.address = open.address
       /\ shown.place.thread \in {open.thread, "none"}

(* "Live" means polling: once nobody writes, moves or fails any more, the   *)
(* page comes to show the chat as it is and stays there, although an older  *)
(* answer can arrive after a newer one and an error of one path is shown    *)
(* for another.                                                             *)
CatchesUp == <>[](~ error /\ Shown(open, state, last) = View(open, version))

(* Bridge.tsx: "Opening or closing a thread keeps the chat on screen (and   *)
(* its draft) while it reloads."  While the page waits for the view of      *)
(* another thread of the chat, what is typed in the chat's bar is there     *)
(* until it is sent or another chat is opened.                              *)
DraftIsKept ==
  [][LET reloads == Data(open', state') = NoView /\ last'.place.address = open'.address IN
     bars["chat"].text # NoText /\ open'.address = open.address /\ reloads =>
       bars'["chat"].text # NoText \/ bars'["chat"].busy]_pageVars

(* MILESTONE-15: "the Xora input bar of Milestone 13 becomes the input of   *)
(* the open chat or thread."  What a bar holds was typed for the chat and   *)
(* the thread that it writes to.                                            *)
DraftStaysPut ==
  \A p \in Panes : bars[p].text # NoText => bars[p].text = Target(p)
=============================================================================
