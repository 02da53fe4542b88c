------------------------------ MODULE ProxyProofs ------------------------------
(***************************************************************************)
(* Theorems about DevProxy, for any number of states, tasks, pages and     *)
(* WebSockets, whatever happens in the behaviour.                          *)
(***************************************************************************)
EXTENDS DevProxy, TLAPS

ProxyOk ==
  /\ current \in State \cup {None}
  /\ status \in [State -> {"unused", "starting", "listening", "crashed"}]
  /\ current # None => status[current] # "unused"
  /\ replay \in {"ready", "error", None}
  /\ page \in [Page -> PageAt]
  /\ \A p \in Page : page[p] = "open" => replay = None
  /\ SettledTold

BootOk ==
  /\ owns \in [State -> Task \cup {None}]
  /\ boot \in [State -> {"off", "build", "wait", "fast", "probe", "found"}]
  /\ task \in [Task -> TaskRow]
  /\ \A s \in State : boot[s] \in {"wait", "fast", "probe", "found"} =>
       owns[s] # None /\ task[owns[s]].status # "none"

OthersOk ==
  /\ may \in Scenarios
  /\ asked \in [Page -> State \cup {None}]
  /\ socket \in [Socket -> [at : {"build", "wait"}, of : State] \cup {None}]
  /\ preview \in [at : {"off", "kill", "create"}, task : Task \cup {None}]

\* The types, and what became of a server is in the log: it is inductive as it is.
Inv == ProxyOk /\ BootOk /\ OthersOk

LEMMA InvParts == Inv <=> TypeOK /\ SettledTold
BY DEF Inv, ProxyOk, BootOk, OthersOk, TypeOK

-----------------------------------------------------------------------------
(* The steps of the state and its channel *)

\* ready or error: every page that is subscribed is told, the log keeps the first.
LEMMA SendLemma ==
  ASSUME ProxyOk, NEW e \in {"ready", "error"}, Send(e)
  PROVE  /\ replay' \in {"ready", "error"} /\ replay' # None
         /\ page' \in [Page -> PageAt]
         /\ \A p \in Page : page'[p] # "open"
BY NameAssumption DEF Send, ProxyOk, PageAt

LEMMA PurgedLemma ==
  ASSUME ProxyOk
  PROVE  /\ Purged \in [Page -> PageAt]
         /\ \A p \in Page : Purged[p] # "open"
BY DEF Purged, ProxyOk, PageAt

\* A state whose server is not up any more, or never was: the error is in the log.
LEMMA CrashedLemma ==
  ASSUME ProxyOk, NEW s \in State, Crashed(s), current' = current
  PROVE  ProxyOk'
<1>1. CASE status[s] = "crashed"
  BY <1>1 DEF Crashed, ProxyOk, channel, SettledTold
<1>2. CASE status[s] # "crashed"
  <2>1. status' = [status EXCEPT ![s] = "crashed"] /\ Send("error")
    BY <1>2 DEF Crashed
  <2> QED
    BY <2>1, SendLemma DEF ProxyOk, SettledTold
<1> QED
  BY <1>1, <1>2

LEMMA ProxySame ==
  ASSUME ProxyOk, UNCHANGED <<current, status, channel>>
  PROVE  ProxyOk'
BY DEF ProxyOk, channel, SettledTold

\* The exit listener
LEMMA NoticedLemma ==
  ASSUME ProxyOk, NEW t \in Task, NEW code, Noticed(t, code)
  PROVE  ProxyOk'
<1>1. CASE Watched(t) /\ task[t].reason = "ttl"
  <2>1. current' = None /\ replay' = None /\ page' = Purged /\ status' = status
    BY <1>1 DEF Noticed
  <2> QED
    BY <2>1, PurgedLemma DEF ProxyOk, SettledTold
<1>2. CASE Watched(t) /\ task[t].reason # "ttl" /\ status[current] = "starting" /\ code # 0
  <2>1. current \in State /\ Crashed(current) /\ current' = current
    BY <1>2 DEF Noticed, Watched, ProxyOk
  <2> QED
    BY <2>1, CrashedLemma
<1>3. CASE Watched(t) /\ task[t].reason # "ttl" /\ status[current] = "listening"
  <2>1. /\ current \in State /\ current' = current /\ status' = [status EXCEPT ![current] = "crashed"]
        /\ replay' = "error" /\ page' = Purged
    BY <1>3 DEF Noticed, Watched, ProxyOk
  <2> QED
    BY <2>1, PurgedLemma, NameAssumption DEF ProxyOk, SettledTold
<1>4. CASE ~ \/ Watched(t) /\ task[t].reason = "ttl"
             \/ Watched(t) /\ task[t].reason # "ttl" /\ status[current] = "starting" /\ code # 0
             \/ Watched(t) /\ task[t].reason # "ttl" /\ status[current] = "listening"
  <2>1. UNCHANGED <<current, status, channel>>
    BY <1>4 DEF Noticed
  <2> QED
    BY <2>1, ProxySame
<1> QED
  BY <1>1, <1>2, <1>3, <1>4

-----------------------------------------------------------------------------
(* The steps of the tasks *)

\* A task that was made goes on, and is not unmade.
LEMMA TaskLemma ==
  ASSUME BootOk, NEW t \in Task, NEW row \in TaskRow, task' = [task EXCEPT ![t] = row],
         row.status # "none", UNCHANGED <<owns, boot>>
  PROVE  BootOk'
BY DEF BootOk

LEMMA EndedLemma ==
  ASSUME BootOk, NEW t \in Task, task' = Ended(t), UNCHANGED <<owns, boot>>
  PROVE  BootOk'
<1> DEFINE row == [status |-> "ended", reason |-> "none", up |-> FALSE, ttl |-> FALSE]
<1>1. row \in TaskRow /\ row.status # "none"
  BY DEF TaskRow
<1>2. task' = [task EXCEPT ![t] = row]
  BY DEF Ended
<1> HIDE DEF row
<1> QED
  BY <1>1, <1>2, TaskLemma

LEMMA StatusLemma ==
  ASSUME BootOk, NEW t \in Task, UNCHANGED <<owns, boot>>,
         \/ task' = [task EXCEPT ![t].status = "running"]
         \/ task' = [task EXCEPT ![t].status = "exiting", ![t].reason = "ttl"]
         \/ task' = [task EXCEPT ![t].status = "exiting", ![t].reason = "stopped"]
         \/ task[t].status # "none" /\ task' = [task EXCEPT ![t].up = ~@]
  PROVE  BootOk'
<1>1. task[t] \in TaskRow
  BY DEF BootOk
<1>2. PICK row : task' = [task EXCEPT ![t] = row] /\ row \in TaskRow /\ row.status # "none"
  <2>1. CASE task' = [task EXCEPT ![t].status = "running"]
    <3>1. [task[t] EXCEPT !.status = "running"] \in TaskRow
      BY <1>1 DEF TaskRow
    <3> QED
      BY <1>1, <2>1, <3>1 DEF TaskRow
  <2>2. CASE task' = [task EXCEPT ![t].status = "exiting", ![t].reason = "ttl"]
    <3>1. [task[t] EXCEPT !.status = "exiting", !.reason = "ttl"] \in TaskRow
      BY <1>1 DEF TaskRow
    <3>2. task' = [task EXCEPT ![t] = [task[t] EXCEPT !.status = "exiting", !.reason = "ttl"]]
      BY <2>2 DEF BootOk
    <3> QED
      BY <1>1, <3>1, <3>2 DEF TaskRow
  <2>3. CASE task' = [task EXCEPT ![t].status = "exiting", ![t].reason = "stopped"]
    <3>1. [task[t] EXCEPT !.status = "exiting", !.reason = "stopped"] \in TaskRow
      BY <1>1 DEF TaskRow
    <3>2. task' = [task EXCEPT ![t] = [task[t] EXCEPT !.status = "exiting", !.reason = "stopped"]]
      BY <2>3 DEF BootOk
    <3> QED
      BY <1>1, <3>1, <3>2 DEF TaskRow
  <2>4. CASE task[t].status # "none" /\ task' = [task EXCEPT ![t].up = ~@]
    <3>1. [task[t] EXCEPT !.up = ~@] \in TaskRow
      BY <1>1 DEF TaskRow
    <3> QED
      BY <1>1, <2>4, <3>1 DEF TaskRow
  <2> QED
    BY <2>1, <2>2, <2>3, <2>4
<1> QED
  BY <1>2, TaskLemma

\* tasks.create
LEMMA MadeLemma ==
  ASSUME BootOk, NEW t \in Task, NEW ttl \in BOOLEAN, Made(t, ttl)
  PROVE  /\ task' \in [Task -> TaskRow] /\ task'[t].status # "none"
         /\ \A u \in Task : task[u].status # "none" => task'[u].status # "none"
<1>1. task[t] \in TaskRow
  BY DEF BootOk
<1>2. task' \in [Task -> TaskRow] /\ task'[t].status # "none"
      /\ \A u \in Task : task[u].status # "none" => task'[u].status # "none"
  <2>1. CASE UNCHANGED task /\ Active(t)
    BY <2>1 DEF BootOk, Active
  <2>2. CASE task' = [task EXCEPT ![t].status = "waiting", ![t].ttl = ttl]
    <3>1. [task[t] EXCEPT !.status = "waiting", !.ttl = ttl] \in TaskRow
      BY <1>1 DEF TaskRow
    <3>2. task' = [task EXCEPT ![t] = [task[t] EXCEPT !.status = "waiting", !.ttl = ttl]]
      BY <2>2 DEF BootOk
    <3>3. [task[t] EXCEPT !.status = "waiting", !.ttl = ttl].status = "waiting"
      BY <1>1 DEF TaskRow
    <3> DEFINE row == [task[t] EXCEPT !.status = "waiting", !.ttl = ttl]
    <3> HIDE DEF row
    <3> QED
      BY <3>1, <3>2, <3>3 DEF BootOk, row
  <2> QED
    BY <2>1, <2>2 DEF Made
<1> QED
  BY <1>2

\* tasks.create, and _wireTaskToProxy
LEMMA WiredLemma ==
  ASSUME BootOk, NEW s \in State, NEW t \in Task, NEW ttl \in BOOLEAN, Made(t, ttl), Wired(s, t)
  PROVE  BootOk'
<1>1. t # None
  BY NameAssumption
<1>2. /\ task' \in [Task -> TaskRow] /\ task'[t].status # "none"
      /\ \A u \in Task : task[u].status # "none" => task'[u].status # "none"
  BY MadeLemma
<1>3. /\ owns' = [owns EXCEPT ![s] = t]
      /\ \E b \in {"fast", "wait"} : boot' = [boot EXCEPT ![s] = b]
  BY DEF Wired
<1> QED
  BY <1>1, <1>2, <1>3 DEF BootOk

LEMMA BootLemma ==
  ASSUME BootOk, NEW s \in State, UNCHANGED <<owns, task>>,
         NEW b \in {"off", "build", "wait", "fast", "probe", "found"},
         boot' = [boot EXCEPT ![s] = b],
         b \in {"wait", "fast", "probe", "found"} =>
           boot[s] \in {"wait", "fast", "probe", "found"}
  PROVE  BootOk'
BY DEF BootOk

LEMMA BootUnchanged == ASSUME BootOk, UNCHANGED <<owns, boot, task>> PROVE BootOk'
BY DEF BootOk

-----------------------------------------------------------------------------
(* The actions *)

LEMMA StartUpStep ==
  ASSUME Inv, NEW s \in State, StartUp(s)
  PROVE  Inv'
<1> USE DEF Inv
<1>1. OthersOk'
  BY DEF StartUp, Built, Waited, Probed, Listening, others, OthersOk
<1>2. CASE Built(s)
  <2>1. CASE /\ \E t \in Task : Made(t, TRUE) /\ Wired(s, t)
             /\ UNCHANGED <<current, status, channel>>
    <3>1. BootOk'
      BY <2>1, WiredLemma
    <3> QED
      BY <1>1, <2>1, <3>1, ProxySame
  <2>2. CASE /\ Crashed(s) /\ boot' = [boot EXCEPT ![s] = "off"]
             /\ UNCHANGED <<current, owns, task>>
    BY <1>1, <2>2, CrashedLemma, BootLemma
  <2> QED
    BY <1>2, <2>1, <2>2 DEF Built
<1>3. CASE Waited(s)
  <2>1. boot[s] = "wait" /\ UNCHANGED <<current, owns, task>>
    BY <1>3 DEF Waited
  <2>2. CASE boot' = [boot EXCEPT ![s] = "probe"] /\ UNCHANGED <<status, channel>>
    BY <1>1, <2>1, <2>2, ProxySame, BootLemma
  <2>3. CASE Crashed(s) /\ boot' = [boot EXCEPT ![s] = "off"]
    BY <1>1, <2>1, <2>3, CrashedLemma, BootLemma
  <2> QED
    BY <1>3, <2>2, <2>3 DEF Waited
<1>4. CASE Probed(s)
  <2>1. boot[s] \in {"fast", "probe"} /\ UNCHANGED <<current, owns, task>>
    BY <1>4 DEF Probed
  <2>2. CASE \E b \in {"found", "wait"} : boot' = [boot EXCEPT ![s] = b] /\ UNCHANGED <<status, channel>>
    BY <1>1, <2>1, <2>2, ProxySame, BootLemma
  <2>3. CASE Crashed(s) /\ boot' = [boot EXCEPT ![s] = "off"]
    BY <1>1, <2>1, <2>3, CrashedLemma, BootLemma
  <2> QED
    BY <1>4, <2>2, <2>3 DEF Probed
<1>5. CASE Listening(s)
  <2>1. /\ boot' = [boot EXCEPT ![s] = "off"] /\ UNCHANGED <<current, owns, task>>
        /\ status' = [status EXCEPT ![s] = "listening"] /\ Send("ready")
    BY <1>5 DEF Listening
  <2>2. ProxyOk'
    BY <2>1, SendLemma DEF ProxyOk, SettledTold
  <2> QED
    BY <1>1, <2>1, <2>2, BootLemma
<1> QED
  BY <1>2, <1>3, <1>4, <1>5 DEF StartUp

LEMMA TaskStep ==
  ASSUME Inv, NEW t \in Task, Exit(t) \/ Spawn(t) \/ Accepts(t) \/ Idle(t) \/ Stop(t)
  PROVE  Inv'
<1> USE DEF Inv
<1>1. OthersOk' /\ owns' = owns /\ boot' = boot
  BY DEF Exit, Spawn, Accepts, Idle, Stop, others, proxy, OthersOk
<1>2. CASE Exit(t)
  BY <1>1, <1>2, EndedLemma, NoticedLemma DEF Exit
<1>3. CASE Spawn(t) \/ Accepts(t) \/ Idle(t)
  <2>1. UNCHANGED <<current, status, channel>>
    BY <1>3 DEF Spawn, Accepts, Idle, proxy
  <2>2. \/ task' = [task EXCEPT ![t].status = "running"]
        \/ task' = [task EXCEPT ![t].status = "exiting", ![t].reason = "ttl"]
        \/ task[t].status # "none" /\ task' = [task EXCEPT ![t].up = ~@]
    BY <1>3 DEF Spawn, Accepts, Idle
  <2> QED
    BY <1>1, <2>1, <2>2, ProxySame, StatusLemma
<1>4. CASE Stop(t)
  BY <1>1, <1>4, StatusLemma, EndedLemma, ProxySame, NoticedLemma DEF Stop
<1> QED
  BY <1>2, <1>3, <1>4

\* A state that becomes current is starting: nobody asks for its end yet.
LEMMA StartServiceLemma ==
  ASSUME ProxyOk, BootOk, NEW s \in State, StartService(s),
         page' \in [Page -> PageAt],
         \A p \in Page : page'[p] = "open" => page[p] = "open"
  PROVE  ProxyOk' /\ BootOk'
<1>1. /\ current' = s /\ status' = [status EXCEPT ![s] = "starting"]
      /\ boot' = [boot EXCEPT ![s] = "build"] /\ UNCHANGED <<owns, task, replay>>
  BY DEF StartService
<1>2. BootOk'
  BY <1>1, BootLemma
<1>3. ProxyOk'
  BY <1>1 DEF ProxyOk, SettledTold
<1> QED
  BY <1>2, <1>3

\* A page that is not subscribed by the step
LEMMA PageLemma ==
  ASSUME Inv, NEW p \in Page, NEW at \in PageAt, page' = [page EXCEPT ![p] = at],
         at = "open" => replay = None, UNCHANGED <<proxy, boot, task, replay, others>>
  PROVE  Inv'
BY BootUnchanged DEF Inv, proxy, others, ProxyOk, OthersOk, SettledTold

LEMMA PageStep ==
  ASSUME Inv, NEW p \in Page, Get(p) \/ Answered(p) \/ Subscribe(p) \/ Retry(p)
  PROVE  Inv'
<1> USE DEF Inv
<1>1. CASE Get(p)
  <2>1. CASE Let(p) /\ current = None
    <3>1. PICK s \in State : /\ StartService(s) /\ asked' = [asked EXCEPT ![p] = s]
                             /\ page' = [page EXCEPT ![p] = "asks"]
      BY <1>1, <2>1 DEF Get
    <3>2. ProxyOk' /\ BootOk'
      BY <3>1, StartServiceLemma DEF ProxyOk, PageAt
    <3> QED
      BY <1>1, <3>1, <3>2 DEF Get, OthersOk
  <2>2. CASE ~(Let(p) /\ current = None)
    <3>1. /\ \E at \in {"refused", "site", "loading"} : page' = [page EXCEPT ![p] = at]
          /\ UNCHANGED <<proxy, boot, task, replay, asked, may, socket, preview>>
      BY <1>1, <2>2 DEF Get
    <3> QED
      BY <3>1, PageLemma DEF others, PageAt
  <2> QED
    BY <2>1, <2>2
<1>2. CASE Answered(p)
  <2>1. /\ \E at \in {"site", "loading"} : page' = [page EXCEPT ![p] = at]
        /\ asked' = [asked EXCEPT ![p] = None]
        /\ UNCHANGED <<proxy, boot, task, replay, may, socket, preview>>
    BY <1>2 DEF Answered
  <2> QED
    BY <2>1, BootUnchanged DEF proxy, ProxyOk, OthersOk, SettledTold, PageAt
<1>3. CASE Subscribe(p)
  <2>1. /\ \E at \in {"refused", "open", "reload", "error"} :
             page' = [page EXCEPT ![p] = at] /\ (at = "open" => replay = None)
        /\ UNCHANGED <<proxy, boot, task, replay, others>>
    BY <1>3 DEF Subscribe
  <2> QED
    BY <2>1, PageLemma DEF PageAt
<1>4. CASE Retry(p)
  <2>1. /\ current # None /\ current' = None /\ replay' = None /\ page' = [Purged EXCEPT ![p] = "reload"]
        /\ UNCHANGED <<status, owns, boot, others>>
    BY <1>4 DEF Retry
  <2>2. ProxyOk'
    BY <2>1, PurgedLemma DEF ProxyOk, SettledTold, PageAt
  <2>3. BootOk'
    <3>1. CASE task' = task
      BY <2>1, <3>1, BootUnchanged
    <3>2. CASE owns[current] # None /\ task' # task
      <4>1. owns[current] \in Task
        BY <2>1, <3>2 DEF ProxyOk, BootOk
      <4> QED
        BY <1>4, <2>1, <3>2, <4>1, StatusLemma, EndedLemma DEF Retry
    <3> QED
      BY <1>4, <3>1, <3>2 DEF Retry
  <2> QED
    BY <2>1, <2>2, <2>3 DEF others, OthersOk
<1> QED
  BY <1>1, <1>2, <1>3, <1>4

LEMMA SocketType ==
  ASSUME OthersOk, NEW k \in Socket, socket[k] # None
  PROVE  socket[k].of \in State /\ socket[k] \in [at : {"build", "wait"}, of : State]
BY DEF OthersOk

LEMMA SocketStep ==
  ASSUME Inv, NEW k \in Socket, Upgrade(k) \/ Await(k)
  PROVE  Inv'
<1> USE DEF Inv
<1>1. CASE Upgrade(k)
  <2>1. socket[k] = None /\ UNCHANGED <<may, asked, preview>>
    BY <1>1 DEF Upgrade
  <2>2. CASE current = None
    <3>1. PICK s \in State : /\ StartService(s) /\ UNCHANGED page
                             /\ socket' = [socket EXCEPT ![k] = [at |-> "build", of |-> s]]
      BY <1>1, <2>2 DEF Upgrade
    <3>2. ProxyOk' /\ BootOk'
      BY <3>1, StartServiceLemma DEF ProxyOk
    <3>3. OthersOk'
      BY <2>1, <3>1 DEF OthersOk
    <3> QED
      BY <3>2, <3>3
  <2>3. CASE current # None
    <3>1. current \in State
      BY <2>3 DEF ProxyOk
    <3>2. CASE owns[current] = None
      <4>1. Crashed(current) /\ UNCHANGED <<current, owns, boot, task, socket>>
        BY <1>1, <2>3, <3>2 DEF Upgrade
      <4> QED
        BY <2>1, <3>1, <4>1, CrashedLemma, BootUnchanged DEF OthersOk
    <3>3. CASE owns[current] # None
      <4>1. /\ socket' = [socket EXCEPT ![k] = [at |-> "wait", of |-> current]]
            /\ UNCHANGED <<proxy, boot, task, channel>>
        BY <1>1, <2>3, <3>3 DEF Upgrade
      <4>2. OthersOk'
        BY <2>1, <3>1, <4>1 DEF OthersOk
      <4> QED
        BY <4>1, <4>2, ProxySame, BootUnchanged DEF proxy
    <3> QED
      BY <3>2, <3>3
  <2> QED
    BY <2>2, <2>3
<1>2. CASE Await(k)
  <2>1. /\ socket[k] # None /\ UNCHANGED <<current, owns, boot, task, may, asked, preview>>
        /\ \/ socket' = [socket EXCEPT ![k] = None]
           \/ socket' = [socket EXCEPT ![k].at = "wait"]
        /\ Crashed(socket[k].of) \/ UNCHANGED <<status, channel>>
    BY <1>2 DEF Await, UpgradeBuilt, UpgradeWaited
  <2>2. socket[k].of \in State /\ [socket[k] EXCEPT !.at = "wait"] \in [at : {"build", "wait"}, of : State]
    BY <2>1, SocketType
  <2>3. OthersOk'
    BY <2>1, <2>2 DEF OthersOk
  <2>4. ProxyOk'
    BY <2>1, <2>2, CrashedLemma, ProxySame
  <2> QED
    BY <2>1, <2>3, <2>4, BootUnchanged
<1> QED
  BY <1>1, <1>2

LEMMA PreviewStep ==
  ASSUME Inv, PreviewStart \/ PreviewKilled \/ PreviewCreate
  PROVE  Inv'
<1> USE DEF Inv
<1>1. UNCHANGED <<may, asked, socket>>
  BY DEF PreviewStart, PreviewKilled, PreviewCreate
<1>2. CASE PreviewStart
  <2>1. OthersOk'
    <3>1. \/ preview' = [Off EXCEPT !.at = "create"]
          \/ \E t \in Task : preview' = [at |-> "kill", task |-> t]
      BY <1>2 DEF PreviewStart
    <3>2. preview' \in [at : {"off", "kill", "create"}, task : Task \cup {None}]
      BY <3>1 DEF Off
    <3> QED
      BY <1>1, <3>2 DEF OthersOk
  <2>2. CASE UNCHANGED <<proxy, boot, task, channel>>
    BY <2>1, <2>2, ProxySame, BootUnchanged DEF proxy
  <2>3. ASSUME NEW t \in Task, UNCHANGED <<owns, boot>>,
               IF task[t].status = "running"
               THEN /\ task' = [task EXCEPT ![t].status = "exiting", ![t].reason = "stopped"]
                    /\ UNCHANGED <<current, status, channel>>
               ELSE /\ task' = Ended(t) /\ Noticed(t, 0)
        PROVE  ProxyOk' /\ BootOk'
    BY <2>3, StatusLemma, EndedLemma, ProxySame, NoticedLemma
  <2> QED
    BY <1>2, <2>1, <2>2, <2>3 DEF PreviewStart
<1>3. CASE PreviewKilled
  BY <1>1, <1>3, ProxySame, BootUnchanged DEF PreviewKilled, Off, proxy, OthersOk
<1>4. CASE PreviewCreate
  <2>1. OthersOk'
    BY <1>1, <1>4 DEF PreviewCreate, Off, OthersOk
  <2>2. CASE UNCHANGED <<proxy, boot, task, channel>>
    BY <2>1, <2>2, ProxySame, BootUnchanged DEF proxy
  <2>3. ASSUME NEW t \in Task, Made(t, FALSE), UNCHANGED <<proxy, boot, channel>>
        PROVE  Inv'
    <3>1. BootOk'
      BY <2>3, MadeLemma DEF proxy, BootOk
    <3> QED
      BY <2>1, <2>3, <3>1, ProxySame DEF proxy
  <2>4. ASSUME NEW t \in Task, Made(t, FALSE), NEW s \in State, Attach(s, t)
        PROVE  Inv'
    <3>1. /\ Wired(s, t) /\ current' = s /\ status' = [status EXCEPT ![s] = "starting"]
          /\ UNCHANGED channel \/ (replay' = None /\ page' = Purged)
      BY <2>4 DEF Attach
    <3>2. ProxyOk'
      BY <3>1, PurgedLemma DEF channel, ProxyOk, SettledTold
    <3> QED
      BY <2>1, <2>4, <3>1, <3>2, WiredLemma
  <2> QED
    BY <1>4, <2>2, <2>3, <2>4 DEF PreviewCreate
<1> QED
  BY <1>2, <1>3, <1>4

LEMMA InvStep ==
  ASSUME Inv, [Next]_vars
  PROVE  Inv'
<1>1. CASE UNCHANGED vars
  BY <1>1, ProxySame, BootUnchanged DEF vars, proxy, others, Inv, OthersOk
<1> QED
  BY <1>1, StartUpStep, TaskStep, PageStep, SocketStep, PreviewStep DEF Next

LEMMA InvStart ==
  ASSUME Init
  PROVE  Inv
BY NameAssumption DEF Init, Inv, ProxyOk, BootOk, OthersOk, SettledTold, Off, TaskRow, PageAt

\* Every state has the types, and a page that is subscribed has not missed the
\* event it waits for: there is none in the log.
THEOREM TypeCorrect == Spec => []TypeOK
<1>1. Inv => TypeOK
  BY InvParts
<1> QED
  BY <1>1, InvStart, InvStep, PTL DEF Spec

\* Whatever calls still work on a state that was dropped, and whatever purges
\* the channel of the address, the log tells what became of a server that is up
\* or has ended (_onListening, _onCrashed, _onExited, _releaseProxyState).
THEOREM EndsAreTold == Spec => []SettledTold
<1>1. Inv => SettledTold
  BY InvParts
<1> QED
  BY <1>1, InvStart, InvStep, PTL DEF Spec
=============================================================================
