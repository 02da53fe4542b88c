--------------------------------- MODULE DevProxy ---------------------------------
(***************************************************************************)
(* The proxy of one preview address (server/services/dev-proxy.js): the    *)
(* first request or WebSocket starts a server, a loading page follows its  *)
(* log over an event stream (sse-manager.js) until the server listens, and *)
(* a server that has ended is shown with its log and a Retry button.       *)
(*                                                                         *)
(* A state of the proxy that was dropped lives on in the calls that still  *)
(* await something: they go on with it, and with the channel of the        *)
(* address, which is shared by all its states.                             *)
(***************************************************************************)
EXTENDS Naturals, FiniteSets

CONSTANTS
  MaxStates,     \* how many states of the proxy there may be, one after the other
  MaxTasks,      \* how many tasks there may be
  Page, Socket,  \* loading pages in browsers, WebSockets
  Guest,         \* pages of nobody: let in by the address that started the server
  None,
  Scenarios      \* what else happens, besides pages that ask and a server that ends

ASSUME BoundAssumption == MaxStates \in Nat /\ MaxTasks \in Nat

State == 1 .. MaxStates
Task  == 1 .. MaxTasks

ASSUME ScenarioAssumption == Scenarios \subseteq SUBSET {"upgrade", "restart", "stop", "preview"}
ASSUME GuestAssumption == Guest \subseteq Page
ASSUME NameAssumption == None \notin State /\ None \notin Task /\ None \notin {"ready", "error"}

VARIABLES
  may,           \* what happens
  current,       \* this.states.get(key)
  status, owns,  \* per state: its status and its task
  boot,          \* per state: what its start-up awaits
  task,          \* per task: what the proxy sees of it
  replay,        \* the first ready or error in the replay log of the channel
  page, asked,   \* per page: what it shows, the state its request has started
  socket, preview

proxy   == <<current, status, owns>>
channel == <<replay, page>>
others  == <<may, asked, socket, preview>>
vars    == <<proxy, boot, task, channel, others>>

TaskRow == [status : {"none", "waiting", "running", "exiting", "ended"},
            reason : {"none", "stopped", "ttl"}, up : BOOLEAN, ttl : BOOLEAN]

\* A page is off (nobody has opened it), asks (its request has started a state),
\* loads, is subscribed (open), reloads, shows an error or what the server answers
\* (site), or is refused: its event stream was, and browsers do not try again.
PageAt == {"off", "asks", "loading", "open", "reload", "error", "site", "refused"}

Off == [at |-> "off", task |-> None]

TypeOK ==
  /\ may \in Scenarios
  /\ current \in State \cup {None}
  /\ status \in [State -> {"unused", "starting", "listening", "crashed"}]
  /\ owns \in [State -> Task \cup {None}]
  /\ boot \in [State -> {"off", "build", "wait", "fast", "probe", "found"}]
  /\ task \in [Task -> TaskRow]
  /\ replay \in {"ready", "error", None}
  /\ page \in [Page -> PageAt]
  /\ asked \in [Page -> State \cup {None}]
  /\ socket \in [Socket -> [at : {"build", "wait"}, of : State] \cup {None}]
  /\ preview \in [at : {"off", "kill", "create"}, task : Task \cup {None}]
  /\ current # None => status[current] # "unused"
  /\ \A s \in State : boot[s] \in {"wait", "fast", "probe", "found"} => owns[s] # None /\ task[owns[s]].status # "none"
  /\ \A p \in Page : page[p] = "open" => replay = None

Init ==
  /\ may \in Scenarios
  /\ current = None
  /\ status = [s \in State |-> "unused"] /\ owns = [s \in State |-> None]
  /\ boot = [s \in State |-> "off"]
  /\ task = [t \in Task |-> [status |-> "none", reason |-> "none", up |-> FALSE, ttl |-> FALSE]]
  /\ replay = None /\ page = [p \in Page |-> "off"]
  /\ asked = [p \in Page |-> None]
  /\ socket = [k \in Socket |-> None] /\ preview = Off

-----------------------------------------------------------------------------
(* The channel *)

\* Mutant: the event is kept, but not written to the connections.
SendToLog(e) == replay' = (IF replay = None THEN e ELSE replay) /\ UNCHANGED page

\* sse.send of ready or error, and closeChannel: a page that is subscribed
\* reloads, or shows the error; the log keeps the event for later pages.
Send(e) ==
  /\ replay' = IF replay = None THEN e ELSE replay
  /\ page' = [p \in Page |->
       IF page[p] # "open" THEN page[p] ELSE IF e = "ready" THEN "reload" ELSE "error"]

\* purgeChannel: the connections end, and the pages connect again.
Purged == [p \in Page |-> IF page[p] = "open" THEN "loading" ELSE page[p]]

-----------------------------------------------------------------------------
(* States *)

Unused(s) == status[s] = "unused" /\ \A r \in State : r < s => status[r] # "unused"

\* _onCrashed
Crashed(s) ==
  IF status[s] = "crashed" THEN UNCHANGED <<status, channel>>
  ELSE status' = [status EXCEPT ![s] = "crashed"] /\ Send("error")

\* The handler starts to build the task; the state is current at once.
StartService(s) ==
  /\ Unused(s)
  /\ current' = s /\ status' = [status EXCEPT ![s] = "starting"]
  /\ boot' = [boot EXCEPT ![s] = "build"]
  /\ UNCHANGED <<owns, task, replay>>

Active(t) == task[t].status \in {"waiting", "running"}

\* tasks.create: a task that is active is shared.
Made(t, ttl) ==
  IF \E u \in Task : Active(u)
  THEN Active(t) /\ UNCHANGED task
  ELSE /\ task[t].status = "none" /\ \A u \in Task : u < t => task[u].status # "none"
       /\ task' = [task EXCEPT ![t].status = "waiting", ![t].ttl = ttl]

\* _wireTaskToProxy
Wired(s, t) ==
  /\ owns' = [owns EXCEPT ![s] = t]
  /\ boot' = [boot EXCEPT ![s] = IF task[t].status = "running" THEN "fast" ELSE "wait"]

\* buildTask returns, or throws.  The state may have been dropped meanwhile.
Built(s) ==
  /\ boot[s] = "build"
  /\ \/ \E t \in Task :
          /\ Made(t, TRUE) /\ Wired(s, t)
          /\ UNCHANGED <<current, status, channel>>
     \/ /\ Crashed(s) /\ boot' = [boot EXCEPT ![s] = "off"]
        /\ UNCHANGED <<current, owns, task>>
  /\ UNCHANGED others

\* waitForReady: the ports listen, the task has ended, or the time is up.
Waited(s) ==
  /\ boot[s] = "wait"
  /\ \/ /\ task[owns[s]].up /\ boot' = [boot EXCEPT ![s] = "probe"]
        /\ UNCHANGED <<status, channel>>
     \/ /\ ~task[owns[s]].up /\ task[owns[s]].status # "waiting"
        /\ Crashed(s) /\ boot' = [boot EXCEPT ![s] = "off"]
  /\ UNCHANGED <<current, owns, task, others>>

\* getLoopbackHost tries to connect; a running task that does not accept a
\* connection yet is waited for.
Probed(s) ==
  /\ boot[s] \in {"fast", "probe"}
  /\ \/ /\ task[owns[s]].up /\ boot' = [boot EXCEPT ![s] = "found"]
        /\ UNCHANGED <<status, channel>>
     \/ /\ ~task[owns[s]].up /\ boot[s] = "fast"
        /\ boot' = [boot EXCEPT ![s] = "wait"] /\ UNCHANGED <<status, channel>>
     \/ /\ ~task[owns[s]].up /\ boot[s] = "probe"
        /\ boot' = [boot EXCEPT ![s] = "off"] /\ Crashed(s)
  /\ UNCHANGED <<current, owns, task, others>>

\* _onListening, whatever became of the state while the other address was tried
Listening(s) ==
  /\ boot[s] = "found" /\ boot' = [boot EXCEPT ![s] = "off"]
  /\ status' = [status EXCEPT ![s] = "listening"] /\ Send("ready")
  /\ UNCHANGED <<current, owns, task, others>>

-----------------------------------------------------------------------------
(* The task *)

Watched(t) == current # None /\ owns[current] = t

\* Mutant: the log is cleared after the error was sent.
NoticedPurgeLast(t, code) ==
  CASE Watched(t) /\ task[t].reason = "ttl" ->
         /\ current' = None
         /\ replay' = None /\ page' = Purged /\ UNCHANGED status
    [] Watched(t) /\ task[t].reason # "ttl" /\ status[current] = "starting" /\ code # 0 ->
         Crashed(current) /\ UNCHANGED current
    [] Watched(t) /\ task[t].reason # "ttl" /\ status[current] = "listening" ->
         /\ status' = [status EXCEPT ![current] = "crashed"]
         /\ replay' = None /\ page' = Purged /\ UNCHANGED current
    [] OTHER -> UNCHANGED <<current, status, channel>>

\* The exit listener of the current state (a state that was dropped has
\* unsubscribed, or finds that it is not current): an idle server is forgotten, one
\* that fails while it starts has crashed, one that was up has exited (the log
\* is built anew from the log of the task and the exit).
Noticed(t, code) ==
  CASE Watched(t) /\ task[t].reason = "ttl" ->
         /\ current' = None
         /\ replay' = None /\ page' = Purged /\ UNCHANGED status
    [] Watched(t) /\ task[t].reason # "ttl" /\ status[current] = "starting" /\ code # 0 ->
         Crashed(current) /\ UNCHANGED current
    [] Watched(t) /\ task[t].reason # "ttl" /\ status[current] = "listening" ->
         /\ status' = [status EXCEPT ![current] = "crashed"]
         /\ replay' = "error" /\ page' = Purged /\ UNCHANGED current
    [] OTHER -> UNCHANGED <<current, status, channel>>

Ended(t) == [task EXCEPT ![t] = [status |-> "ended", reason |-> "none", up |-> FALSE,
                                 ttl |-> FALSE]]

\* The child exits, or a dependency fails.
Exit(t) ==
  /\ task[t].status \in {"waiting", "running", "exiting"}
  /\ task' = Ended(t)
  /\ \E code \in {0, 1} : Noticed(t, code)
  /\ UNCHANGED <<owns, boot, others>>

Spawn(t) ==
  /\ task[t].status = "waiting" /\ task' = [task EXCEPT ![t].status = "running"]
  /\ UNCHANGED <<proxy, boot, channel, others>>

\* The server begins to accept connections, or stops (it restarts itself).
Accepts(t) ==
  /\ task[t].status = "running" /\ (task[t].up => "restart" \in may)
  /\ task' = [task EXCEPT ![t].up = ~@]
  /\ UNCHANGED <<proxy, boot, channel, others>>

\* The time without a request is up: at any point after the server was spawned,
\* while something waits for it, too.
Idle(t) ==
  /\ task[t].status = "running" /\ task[t].ttl
  /\ task' = [task EXCEPT ![t].status = "exiting", ![t].reason = "ttl"]
  /\ UNCHANGED <<proxy, boot, channel, others>>

\* The user stops the task.
Stop(t) ==
  /\ "stop" \in may /\ Active(t)
  /\ IF task[t].status = "running"
     THEN /\ task' = [task EXCEPT ![t].status = "exiting", ![t].reason = "stopped"]
          /\ UNCHANGED <<current, status, channel>>
     ELSE /\ task' = Ended(t) /\ Noticed(t, 0)
  /\ UNCHANGED <<owns, boot, others>>

-----------------------------------------------------------------------------
(* Requests *)

\* allowIpPublicAccess: a guest comes in while there is a state, not crashed, that
\* its address has started.
Let(p) == p \in Guest => current # None /\ status[current] # "crashed"

\* A browser asks for the site, or a page reloads; what the server answers is shown.
Get(p) ==
  /\ page[p] \in {"off", "reload", "error", "site", "refused"}
  /\ IF ~Let(p)
     THEN page' = [page EXCEPT ![p] = "refused"] /\ UNCHANGED <<proxy, boot, task, replay, asked>>
     ELSE IF current = None
     THEN \E s \in State : /\ StartService(s) /\ asked' = [asked EXCEPT ![p] = s]
                           /\ page' = [page EXCEPT ![p] = "asks"]
     ELSE /\ page' = [page EXCEPT ![p] =
               IF status[current] = "listening" THEN "site" ELSE "loading"]
          /\ UNCHANGED <<proxy, boot, task, replay, asked>>
  /\ UNCHANGED <<may, socket, preview>>

Reload(p) == page[p] = "reload" /\ Get(p)

\* The request that started the state is answered.
Answered(p) ==
  /\ page[p] = "asks" /\ boot[asked[p]] # "build"
  /\ page' = [page EXCEPT ![p] = IF status[asked[p]] = "listening" THEN "site" ELSE "loading"]
  /\ asked' = [asked EXCEPT ![p] = None]
  /\ UNCHANGED <<proxy, boot, task, replay, may, socket, preview>>

\* Mutant: a page that comes late does not get the log.
SubscribeLate(p) ==
  /\ page[p] = "loading" /\ current # None
  /\ page' = [page EXCEPT ![p] = IF replay = None THEN "open" ELSE "loading"]
  /\ UNCHANGED <<proxy, boot, task, replay, others>>

\* _serveSseLogs, subscribe: the log is replayed, and a page that reads ready
\* reloads; without a state the connection ends and the page tries again.
Subscribe(p) ==
  /\ page[p] = "loading" /\ (Let(p) => current # None)
  /\ page' = [page EXCEPT ![p] = IF ~Let(p) THEN "refused"
                                 ELSE IF replay = None THEN "open"
                                 ELSE IF replay = "ready" THEN "reload" ELSE "error"]
  /\ UNCHANGED <<proxy, boot, task, replay, others>>

\* The Retry button of a page that shows an error: _releaseProxyState, and the
\* page asks again.
Retry(p) ==
  /\ page[p] = "error" /\ current # None /\ Let(p)
  /\ current' = None
  /\ task' = IF owns[current] = None \/ ~Active(owns[current]) THEN task
             ELSE LET t == owns[current] IN
                  IF task[t].status = "running"
                  THEN [task EXCEPT ![t].status = "exiting", ![t].reason = "stopped"]
                  ELSE Ended(t)
  /\ replay' = None /\ page' = [Purged EXCEPT ![p] = "reload"]
  /\ UNCHANGED <<status, owns, boot, others>>

\* wsDispatch: the task of a state that is still being built is not there, and
\* the upgrade fails as if the server had.
Upgrade(k) ==
  /\ "upgrade" \in may /\ socket[k] = None
  /\ IF current = None
     THEN /\ \E s \in State : StartService(s) /\ socket' = [socket EXCEPT ![k] =
                                                   [at |-> "build", of |-> s]]
          /\ UNCHANGED page
     ELSE IF owns[current] = None
     THEN Crashed(current) /\ UNCHANGED <<current, owns, boot, task, socket>>
     ELSE /\ socket' = [socket EXCEPT ![k] = [at |-> "wait", of |-> current]]
          /\ UNCHANGED <<proxy, boot, task, channel>>
  /\ UNCHANGED <<may, asked, preview>>

UpgradeBuilt(k) ==
  /\ socket[k] # None
  /\ LET s == socket[k].of IN
       /\ socket[k].at = "build" /\ boot[s] # "build"
       /\ IF owns[s] = None
          THEN Crashed(s) /\ socket' = [socket EXCEPT ![k] = None]
          ELSE /\ socket' = [socket EXCEPT ![k].at = "wait"] /\ UNCHANGED <<status, channel>>
  /\ UNCHANGED <<current, owns, boot, task, may, asked, preview>>

\* Connected, or the wait has failed.
UpgradeWaited(k) ==
  /\ socket[k] # None
  /\ LET s == socket[k].of IN
       /\ socket[k].at = "wait" /\ socket' = [socket EXCEPT ![k] = None]
       /\ \/ task[owns[s]].up /\ UNCHANGED <<status, channel>>
          \/ ~task[owns[s]].up /\ task[owns[s]].status # "waiting" /\ Crashed(s)
  /\ UNCHANGED <<current, owns, boot, task, may, asked, preview>>

-----------------------------------------------------------------------------
(* The Preview tab: sessions.startPreviewService *)

\* The task that runs is killed and awaited.
PreviewStart ==
  /\ "preview" \in may /\ preview = Off
  /\ \/ /\ ~\E t \in Task : Active(t)
        /\ preview' = [Off EXCEPT !.at = "create"] /\ UNCHANGED <<proxy, boot, task, channel>>
     \/ \E t \in Task :
          /\ Active(t) /\ preview' = [at |-> "kill", task |-> t]
          /\ IF task[t].status = "running"
             THEN /\ task' = [task EXCEPT ![t].status = "exiting", ![t].reason = "stopped"]
                  /\ UNCHANGED <<current, status, channel>>
             ELSE /\ task' = Ended(t) /\ Noticed(t, 0)
          /\ UNCHANGED <<owns, boot>>
  /\ UNCHANGED <<may, asked, socket>>

PreviewKilled ==
  /\ preview.at = "kill" /\ task[preview.task].status = "ended"
  /\ preview' = [Off EXCEPT !.at = "create"]
  /\ UNCHANGED <<proxy, boot, task, channel, may, asked, socket>>

\* A task is made and attached, in the place of the state there is.
Attach(s, t) ==
  /\ Unused(s) /\ Wired(s, t)
  /\ current' = s /\ status' = [status EXCEPT ![s] = "starting"]
  /\ IF current = None THEN UNCHANGED channel ELSE replay' = None /\ page' = Purged

\* create() may throw, and the call fails with it.
PreviewCreate ==
  /\ preview.at = "create" /\ preview' = Off
  /\ \/ \E t \in Task :
          /\ Made(t, FALSE)
          /\ IF current # None /\ owns[current] = t
             THEN UNCHANGED <<proxy, boot, channel>>
             ELSE \E s \in State : Attach(s, t)
     \/ UNCHANGED <<proxy, boot, task, channel>>
  /\ UNCHANGED <<may, asked, socket>>

-----------------------------------------------------------------------------
StartUp(s) == Built(s) \/ Waited(s) \/ Probed(s) \/ Listening(s)
Await(k)   == UpgradeBuilt(k) \/ UpgradeWaited(k)

Next ==
  \/ \E s \in State : StartUp(s)
  \/ \E t \in Task : Exit(t) \/ Spawn(t) \/ Accepts(t) \/ Idle(t) \/ Stop(t)
  \/ \E p \in Page : Get(p) \/ Answered(p) \/ Subscribe(p) \/ Retry(p)
  \/ \E k \in Socket : Upgrade(k) \/ Await(k)
  \/ PreviewStart \/ PreviewKilled \/ PreviewCreate

Spec == Init /\ [][Next]_vars

\* What a start-up awaits comes to an end (waitForReady has a time limit, and a
\* task that waits for its dependencies is spawned or fails), a loading page
\* connects again and again, and a page that reloads does so by itself.
FairSpec ==
  /\ Spec
  /\ \A s \in State : WF_vars(StartUp(s))
  /\ \A t \in Task : WF_vars(Spawn(t))
  /\ \A p \in Page : WF_vars(Answered(p)) /\ WF_vars(Subscribe(p)) /\ WF_vars(Reload(p))

-----------------------------------------------------------------------------
(* Properties *)

\* A page that asks what became of a server that is up, or has ended, is told:
\* purging the channel never leaves a state behind whose end nobody can learn.
SettledTold ==
  current # None /\ status[current] \in {"listening", "crashed"} => replay # None

\* The log says ready of a server that is not up: a page that follows it reloads,
\* and gets the loading page again.
Misled == current # None /\ replay = "ready" /\ status[current] # "listening"

Waits(p) == page[p] \in {"asks", "loading", "open", "reload"}

\* A page of a user who is signed in does not load for ever: it comes to show what
\* the server answers or an error, whenever it connects and however often its
\* stream is cut, unless the state was dropped (and no request has started another)
\* or the log misleads it (dispatch, subscribe, closeChannel, purgeChannel).
PageLeaves ==
  \A p \in Page \ Guest :
    Waits(p) ~> page[p] \in {"site", "error"} \/ current = None \/ Misled

\* The same for a guest: refuted, it is not told what has become of the server.
GuestLeaves ==
  \A p \in Guest : Waits(p) ~> page[p] \in {"site", "error"} \/ current = None \/ Misled

\* The log of a server that is not up does not make the loading page reload
\* itself in a loop (the comment of _onExited).
NoReloadLoop ==
  current # None /\ status[current] = "crashed" => replay # "ready"
=============================================================================
