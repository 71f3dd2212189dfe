# ServeD: a TLA+ verification project

ServeD is a hosting manager. A root process (`svd.root`, Akka actors on the JVM) serves the
machine; every user account has a process of its own (`svd.user`) with the account's manager,
database, file watches, git repositories, notifications and web panel; C++ programs (`lib/`)
start the processes, give users a shell, keep notification files and tell other nodes of
themselves (`dispel`), over the copy of ZeroMQ 3 the repository builds.

This directory holds TLA+ models of the parts with the hardest behaviour, TLC configurations
that check them on small instances, and TLAPS proofs for all instances that satisfy the stated assumptions. `PROJECT.json` maps
each definition to the lines it models.

## 1. Inventory

| Component | State | Operations | Talks to | What is hard |
|---|---|---|---|---|
| Object store (`DBClient`) | two NeoDatis bases, current and history | `<<`, `~`, `close`, `openClient` | every actor and callback of an account's process | several commits per operation, one session shared by all threads, crashes |
| File events manager | `idents`: descriptor to path and watchers; a kqueue; a reader thread | register, unregister, kqueue event | any actor; the kernel | reader thread beside the actor, restarts, stale events |
| File watches (`SvdAccountManager`) | bindings in the database | CreateFileWatch, DestroyFileWatch, SvdFileEvent | file events manager, itself, futures | one watch recorded in two places, three message paths |
| Account lifecycle (`SvdUserBoot`, `SvdAccountManager`) | headless or connected, started or stopped, mailbox | boot, preStart, postStop, Shutdown, RestartAccountManager | accounts manager | timeouts, restarts that keep the mailbox, kills |
| `SvdAccountsManager`, `SvdRootBoot` | list of alive accounts | GetPort, Alive, Dead | account managers | lost or missing announcements, root restarts |
| Git manager | repositories in the database and on disk | Create, Remove, Add/RemoveAuthorizedKey | database, JGit | double replies, two stores, closes the shared database |
| Kickstart | home directory, pid file and its lock | one run of `kick` | operating system | lock inherited across exec, runs at once, kills |
| Notification files | current and history directory | `notification` | file system | several programs on outdated listings, kills, copy unchecked |
| Dispel and nzmqt | poll items, sockets, timers | publisher's timer, `run`, start, stop, sockets that come and go | ZeroMQ, Qt's event loop | the loop lives on timers it arms itself; two parallel lists |
| cutelogger | the log device and its semaphore | begin a record, flush it | every thread | a record is begun in one call and ends in another |
| ZeroMQ queue (`ypipe_t`) | chunks, four pointers, one atomic pointer | write, unwrite, flush, check_read, read | one writer, one reader | lock-free, addresses come back |
| ZeroMQ mailbox | the queue, a lock, the signaler | send, recv | all threads | signalled after the lock is released |
| ZeroMQ pipe | two queues, credit, state of termination | write, read, hiccup, terminate and the commands | socket thread, I/O thread | commands and messages in no common order |
| ZeroMQ ownership | tree of objects, sequence numbers | launch, connect, accept, detach, terminate | three threads | deletion while commands are under way |
| ZeroMQ context, reaper | slots, sockets being reaped | create and close a socket, `zmq_term` | application, reaper | who waits for whom, interruption and second call |
| ZeroMQ stream engine | encoder, decoder, buffers | greeting, in_event, out_event, activate, terminate | TCP, session | cuts anywhere in the stream, a full pipe |
| ZeroMQ message contents | a counter of references | copy, distribute, close | application, I/O threads | references added before they are used, closed meanwhile |
| ZeroMQ poller, connecter | poll entries, timers, descriptors | the loop, (re)connecting, attaching an engine, stop | kqueue, mailbox, session | callbacks delete what the same batch points to |
| ZeroMQ sockets | arrays of pipes, tries of topics | dist, fair queue, (un)subscribe | pipes | arrays kept by swaps, reconnection |
| Account ports, keys, domains | records in the database | RegisterUserPort, RemoveAllUserPorts, AddKey, RemoveKey | system manager, database | one callback that writes later |
| Notification center, IRC and XMPP gates | gates | messages | IRC, XMPP | nothing: the IRC gate never connects |
| CI worker | tasks, history | Build, ProcessFinished | CI | nothing: its task is a stub |
| Web manager | panel port and server | preStart, forwarding | accounts manager, web API | port choice by timeout |
| System manager, gatherer, SSH daemon | system resources | forwarding, sampling | operating system | mostly commented out |
| C++: daemon, shell, runner | none | fork, setuid, exec | operating system | nothing concurrent |

What makes each correct: nothing acknowledged by the store is lost and no version of an object
disappears; events name the file they are about and watches agree with their records; an
account's process always gets a manager, and the root process knows which accounts are alive;
one svd runs for an account; a repository on record is on disk; notifications disappear only from
a full history (one file fuller than `globals.h` says). Of ZeroMQ: messages arrive whole and in order, no thread touches freed memory,
nobody sleeps while something waits for him, everything that is shut down ends unless a message that
no connection takes holds it, and a publisher
knows the topics of its subscribers.

Left aside: vendored code no program of the repository links (`fann`, `hiredis`, `quazip`) or
uses for one file only (`jsoncpp`), `svd.unfiltered`, documents, assets, base-system files, and
code that is commented out as a whole (service actors, scheduler jobs, API sessions).

## 2. Modules

| Module | Models | Extends |
|---|---|---|
| `VersionedStore` | abstract: live objects and their past versions, changed one atomic step at a time | |
| `ObjectStore` | `DBClient`: one action per NeoDatis call | instantiates `VersionedStore` |
| `ObjectStoreProofs` | theorems about `ObjectStore` | `ObjectStore` |
| `FileEvents` | `SvdFileEventsManager`, its reader threads and the kernel | |
| `FileWatches` | the account manager's file watches, composed with the file events manager | `FileEvents` |
| `FileEventsProofs` | theorems about `FileEvents` and `FileWatches` | `FileWatches` |
| `AccountLifecycle` | account processes, their managers and the root's list | |
| `AccountLifecycleProofs` | theorems about `AccountLifecycle` | `AccountLifecycle` |
| `FlushQueue` | abstract: what a lock-free queue promises its writer and its reader | |
| `YPipe` | `ypipe_t` and `yqueue_t` | shown to implement `FlushQueue` |
| `Mailbox` | `mailbox_t`, `signaler_t` | `FlushQueue` |
| `MailboxProofs` | theorems about `Mailbox` and `YPipe` | `Mailbox`, `YPipe` |
| `ZmqPipe` | `pipe_t`, both ends | |
| `ZmqPipeProofs` | theorems about `ZmqPipe` | `ZmqPipe` |
| `Ownership` | `own_t`, sockets, sessions, listeners, connecters | |
| `OwnershipProofs` | theorems about `Ownership` | `Ownership` |
| `ZmqContext` | `ctx_t`, `reaper_t` | |
| `StreamEngine` | two `stream_engine_t` with encoder, decoder and TCP between them | |
| `SharedMessage` | `msg_t`'s shared contents | |
| `SharedMessageProofs` | theorems about `SharedMessage`, `Distributor` and `StreamEngine` | these |
| `Poller` | `kqueue_t`, `poller_base_t`, `io_thread_t`, `tcp_connecter_t` | |
| `Distributor`, `FairQueue` | `dist_t`, `fq_t` over `array_t` | |
| `SubscriptionTries` | `trie_t`, `mtrie_t` | |
| `PubSub` | `xsub_t`, `xpub_t` and their sessions | |
| `Logger` | cutelogger | |
| `Dispel` | `dispel` and nzmqt's `PollingZMQContext` | |
| `Kickstart` | `kick` | |
| `NotificationFiles` | `notifications.cc` | |
| `GitManager` | `SvdGitManager` | |
| `ProgramProofs` | theorems about `Kickstart`, `GitManager`, `Logger` and `NotificationFiles` | these |
| `MCTransport` | one run of `YPipe`, `Mailbox`, `ZmqPipe`, `Ownership`, `ZmqContext`, `StreamEngine`, `SharedMessage`, `Poller` | these |
| `MCServices` | one run of the modules from `Distributor` to `GitManager` | these |
| other `MC...` | values of the constants for TLC | the module they are named after |

**ObjectStore.** `cur` and `hist` are what the session sees, `dcur` and `dhist` what is
committed; `pc`, `new` and `old` are the progress and locals of each thread inside `<<` or `~`.
Every store, delete and commit is a step of its own. The threads (`Writer`) share the session,
as the account manager, the git manager and callbacks of futures do. A crash drops the session
and the threads; `close` closes the current base and then the other, and each may commit or
drop what is pending. Objects are a uuid, contents, and a time stamp that equality ignores.
The bases are sets of records: a second copy of the same record is not told apart.

**FileEvents.** The actor (`idents`, `mailbox`, `epoch`), the reader thread of every instance
(`readers`) and the kernel (`opened`, `filter`, `pending`). A failing `open` or `kevent`
restarts the actor: empty table, new kqueue, new reader, same mailbox. The old reader is asked
to stop through a field that is not volatile, so it may go on or stop.

**FileWatches.** The account manager's mailbox and bindings on top of that. Creating sends the
registration to itself and forwards it later; destroying sends the unregistration straight to
the file events manager and removes the binding in a callback. A restart of the account manager
replaces its child, the file events manager.

**AccountLifecycle.** Per account: the process, its question to the root process, the manager,
the `Shutdown` messages in its mailbox and the announcements under way. Restarts run `postStop`
(a `Shutdown` to itself) and `preStart` (an `Alive`), and keep the mailbox. `Maintenance.
RestartAccountManager` stops `accountsManager`, the actor of the root process, as the code does.
`accountsAlive` is a list whose order nothing reads: it is the number of entries per account.
`upset` is a history variable: it remembers, until the next `Dead` that arrives when the account
is off, that an announcement was missed or that the manager was restarted.

The ZeroMQ modules stand on each other by their abstractions. `YPipe` implements `FlushQueue`;
`Mailbox` extends `FlushQueue` and `ZmqPipe` uses queues of that kind; `ZmqPipe` and `Ownership`
have commands that arrive in order, which is what `Mailbox` delivers; `Ownership` reduces a pipe to
its life, which `ZmqPipe` shows to end, and `ZmqContext` reduces a socket's shutdown to a step
that comes some time later, which `Ownership` shows; `PubSub` takes the trees of topics for the
sets that `SubscriptionTries` shows them to be.

**YPipe.** Pointers are slots (chunk and position); `malloc` returns any unused chunk, so an
address may come back. A step is the code between two accesses to shared memory.

**Mailbox.** Senders take the lock, write, flush, release it and only then signal; the receiver
switches between an active phase (reading the queue) and a passive one (waiting for the signal).
It destroys the mailbox after the last command.

**ZmqPipe.** The two ends with their credit, the six states of termination, hiccups that replace
a queue, and the commands between the threads. Both ends write messages of several parts. The
session's engine (`zEngine`) comes and goes: only an engine pulls messages, and a session without one
looks for the delimiter (`check_read`). `detach` takes several steps (`zAt`): `clean_pipes` reads the
rest of a message of which a part was sent, and its assertion may fail (`"aborted"`). The names of
states are those of the code.

**Ownership.** Objects, their sent and processed sequence numbers, outstanding acknowledgements
and the mailbox of each thread. Endpoints are opened, connections accepted, lost and made again
while the application closes the socket. When the pipe of a session ends is left open, as `ZmqPipe` does:
it may be held for ever.

**ZmqContext.** `zmq_term` may be interrupted and called again, sockets are created and closed
meanwhile, and slots are used again. The reaper's finish removes its mailbox from its poller and stops
the poller, whose thread ends after the commands it is reading (`cxLoop`); a second finish among them
aborts the process, since the entry is retired already. The application closes a socket that answers ETERM: that is
what the interface asks of it, and `zmq_term` waits for it.

**StreamEngine.** One direction: greetings, the identity, then messages as units of flags, size
and body, as `v1_encoder_t` and `v1_decoder_t` have them; buffers, TCP and the pipe behind the decoder
are bounded, and the reader acknowledges at the low watermark. The connection may break, and the
sending session may be deleted, at any step, the greetings included; the engine then stays for the
chunk its encoder has begun, or goes at once. Both peers are versioned, no limit is set on message
sizes and memory does not run out, so decoding never fails.

**SharedMessage.** One piece of contents and every `msg_t` that refers to it, each reduced to its
flag `shared`: in the application's hands, being distributed, in a pipe.

**Poller.** The thread's round (timers, wait, events, retired entries) with every call the
callbacks make of the poller. Descriptors are the lowest free number, as POSIX has it, and a deleted
entry's address is given out again at once, so that anything stale meets something new. The
session sends commands; the engine's reading and writing is reduced to what it does to the poller. It may
outlive its descriptor (the connection is lost while its decoder is stalled) and its session (which is
deleted while the encoder has data). Calls that then use what was deleted set `astray`, after which nothing is
said.

**Distributor, FairQueue.** The arrays with their regions, position by position; pipes fill up,
wake, come and go between any two operations, in the middle of a message too. A pipe of the fair queue
ends because its peer is gone, or because the socket ends it, wherever it is in the array and whatever is
half read or under way (`FrTerminate`); `recvpipe` and `has_in` move the dry ones.

**SubscriptionTries.** The tables of children with their minimum, growth, pruning and compaction,
against plain sets as reference. Pipes also take back topics they do not have: where others have
them, the assertion of `mtrie.cpp:302` fails (`mtAborted`), there and nowhere else.

**PubSub.** Subscribers with reference counts, the pipe with its mark, a connection that breaks
and is made again, hiccups, and the publisher's topics. `psDropped` remembers that a message was
refused at the mark.

**Logger.** Threads get the device, take its semaphore, stream and flush. A record with nothing
streamed is never flushed and keeps the semaphore (`LgEmpty`).

**Dispel.** `run`, its poll item by item, the timers, sockets that are created and destroyed
in between, polls and receptions that fail at any point of it. Messages go on arriving.

**Kickstart.** Runs of `kick` step by step, with inodes, locks that pass through `execv`, signals
and failing calls.

**NotificationFiles.** Each program lists, copies, removes and prunes file by file; the history
directory has files from earlier programs. `ntPruned` remembers what was deleted from the history with
`NtKeep` newer files beside it. By `i > NOTIFICATIONS_HISTORY_KEEP_UPTO` that leaves one file more than
"how many files to keep in history" (`globals.h:14`); a listing in another order than that of time is
what the property's mutant has.

**GitManager.** Creation and removal in their two halves, each request with all its replies, and
the database client that `postStop` closes for the actor's own successor.

External behaviour, taken from how the code uses it: NeoDatis sessions (commit is atomic and
durable, a call on a closed base raises), BSD kqueue (events of a descriptor accumulate until
read, `EV_CLEAR`), Akka 2.1 (order between two actors, at most one delivery, restart by the
guardian, stop when a start throws, `stop` of a remote reference), POSIX files and locks, Qt's
timers, directory listings (newest first) and `QFile::copy` (refuses an existing target), TCP.

## 3. Runs

| Run | Result | Shows |
|---|---|---|
| `store_single` | passes | with one thread the two bases implement `VersionedStore` (`ImplementsVersionedStore`), an update replaces (`OneCurrentPerUuid`), and what is committed is exactly what was acknowledged (`AckedExact`) |
| `store_session` | passes | two threads with objects of their own: no version is lost (`ArchivedBeforeRemoved`), nothing acknowledged is undone (`AckedKept`) |
| `store_duplicate` | violated | a commit of one thread between another's store and delete makes two current records durable |
| `fem` | passes | `RightPath`, `OneIdentPerPath`, `LiveKqueue` |
| `fem_flags` | violated | the second watcher's flags never reach the kernel (`Armed`) |
| `watches_patient` | passes | one path, clients that wait: bindings and table agree (`RecordsAgree`), `OneBindingPerPath` |
| `watches_two` | violated | destroying one of two watches unregisters the other |
| `lifecycle` | passes | `RegistryExact`; `BootCompletes` and `RegistryConverges` under fairness |
| `lifecycle_restart` | violated | a restarted manager announces its own death (`RestartedIsKnown`) |
| `transport` | passes | the queue implements `FlushQueue` (`YImplementsQueue`); its chunks, the contents that messages share and the poll entries of an I/O thread are freed once and not used afterwards (`MemorySafe`); a mailbox fails no assertion, is destroyed only when no sender is inside it, and loses no command (`MbSafe`, `Delivers`); pipes, objects and contexts shut down safely and, but for what undelivered messages hold, to the end (`ZSafe`, `ZTerminatesUnlessHeld`, `OwSafe`, `OwAllFreed`, `CxTermCompletes`); engines deliver whole messages in order, and all of them (`SeWholeInOrder`, `Delivers`); a session gets its connection back (`SessionReconnects`) |
| `services` | passes | `DsSafe`, `FrNoStarvation`, `TriesExact`, `PsConverges`, `LgRightContext`, `DispelKeepsGoing`, `KkOneSvd`, `KkSomebodyStarts`, `NtNothingLost`, `GmConsistent` |
| `fair_queue_atomic` | violated | a pipe the socket ends between two parts makes the fair queue go on with another pipe's message (`FrAtomic`) |

The violated runs are the findings in `PROJECT.json`, each with the line of the repository that
says otherwise.

`transport` and `services` each check several components: the variable `component`, chosen in the
initial state, says which of them steps; the others keep their initial state. The behaviours are
those of the components one at a time, and a temporal property is about the behaviours of its
component. Deadlock is not checked there, since queues, runs of `kick`, contexts and programs come to an
end; that nothing ends too early is what the liveness properties say.

What some of these properties except, because the code does not promise it:

- `ZTerminatesUnlessHeld`: a session in state pending with messages before the delimiter waits for a
  connection that takes them, for ever if none comes, since `options.linger` is -1 and sets no timer; a
  hiccup that crosses the socket's termination replaces the queue and with it the delimiter; and the
  abort that follows.
- `ZSafe`: the assertion of `clean_pipes` (`session_base.cpp:226-228`) fails when the connection breaks
  after the session ended its own pipe in the middle of a message.
- `OwAllFreed`: a pipe that is held so keeps its session, that session's connecter and the owners of the
  session, and nothing else.
- `CxTermCompletes`: a socket whose shutdown never ends (held as above) keeps `zmq_term` waiting; and the
  process aborts in the reaper's second finish, but only if the last socket was destroyed between the
  two critical sections of `zmq_term` (`cxRaced`).
- `MemorySafe`, of the poller: an engine that gave up its descriptor and is asked to write (`activate_out`
  sets the flags of a removed entry, `stream_engine.cpp:313`), one whose session is deleted and that reads
  or pulls (`astray`), and one with data to write when the thread ends, which trips the poller's assertion on
  its load.
- `SessionReconnects`: a stalled engine without descriptor is in the way until the application reads; and
  what follows `astray`.
- `Delivers`, of engines: connections that break, messages that a session's shutdown cuts off, and the
  engine that is left in the poller without a session (`seDangling`).
- `DsSafe`: what follows the removal of a pipe whose place one of another region takes (`dsDisplaced`).
- `FrNoStarvation`: the message being read when the socket ends its own pipe (`frLost`) or the end of
  another pipe moves it (`frDisplaced`, the finding).
- `RegistryExact`, `RegistryConverges`: an account after a missed announcement or a restart, until its
  next death has arrived (`upset`).
- `DispelKeepsGoing` is about messages received. `poll()` does not return while anything is readable, so a
  steady inflow keeps the publisher's timer from firing, and nothing is claimed of it.
- `PsConverges`: a subscriber that ran into its high water mark loses (un)subscriptions, and the
  publisher's assertion may then fail.
- `LgRightContext`: a record longer than the stream's buffer releases the device before its end.
- `NtNothingLost`: a failed copy, whose result nobody reads; a file that came back into the
  history (written again under its name, or copied again after a kill) while a program that had
  listed it was about to delete it; and one written again between the copy and the removal of it.
- `KkSomebodyStarts`: runs that a signal or a failing call ended.

**Bounds.** Store: two contents, one or two time stamps and two objects give updates to equal
and to other contents, back to former contents, and both orders of time stamps; the histories
stay finite because records are. File events: two paths and two descriptors let numbers and
paths be confused, three messages let an event wait behind an unregistration and a registration
of the other path, three instances give two restarts with late events of the old readers; one
note bit suffices except in `fem_flags`, which has two. Watches: two bindings, so that a path is
bound again while the callback for the first is still waiting. Lifecycle: account `a` may be
restarted and have two entries (a restart after an entry that was never removed), `b` shares the
root process with it. All bounds are constants in the guards of actions that clients, the kernel
or faults take. The mailbox bound also holds back a reader thread whose event is pending; that
hides no unsafe state of the actor, since the event stays pending, and no liveness is claimed of
that module.

Transport: three chunks of two slots let a chunk be freed, kept as spare and reused under a stale
pointer; two senders with two commands each meet at the lock and overtake each other with their
signals; a pipe with a high watermark of 1, two parts in all (a message of two parts, or one each way;
one part where the session hiccups), one termination from each end, one hiccup, and engines that come
and go any number of times let every pair of commands cross; seven objects in three threads hold two connecters in turn and two accepted
sessions; two slots let a socket be created while the other is reaped; messages with bodies of 0,
1 and 4 units and batches of 3 end inside headers, at their edges and inside bodies, with a wire
of 3 units and a pipe of three messages, of which the reader acknowledges every second; three pipes and two sends, so that copies of the first are
closed while the second is distributed; two connecters in turn, one failed attempt and three events
in a batch, enough for one callback to remove what the next event is about and for a connection to
be lost and made again.

Services: three pipes (the smallest array with a first, a middle and a last place) and messages of
two parts; six topics on both sides of a table's first character, with common prefixes, and two
subscriptions to each; two subscribers of one topic with a mark of 2, three calls and two breaks
of the first; two threads with two records; two sockets at which up to two messages
wait at a time, a stop and a start, one failing poll or reception; three runs of `kick` for one argument, so that one waits while two race; two
programs, four files, two of them in the history from the start, and two ticks, with the limits at 0 and 1
(one and two files stay, as the loops go on from the next index); two uuids, two names, one key.

**Fairness.** `AccountLifecycle`: the ask of `SvdUserBoot` times out (Akka's
scheduler completes every ask), mailboxes are served (dispatchers), and an exiting process ends
(its hook sleeps `shutdownTimeout` and shuts the system down). No answer of the root process, no
fault and no end of faults is assumed. `Mailbox`: threads that are in `send` or `recv` go on.
`ZmqPipe`: both threads process their commands and finish their handlers, and the session of a closing
socket is told to terminate. (Strong for the session: its engines come through the same mailbox, which is
first in, first out, so that connections that come and go do not keep a command waiting.) No read by the
application or an engine is assumed, no connection and no linger timer. `Ownership`:
I/O threads process commands always, the application's thread after it has closed the socket
(then the reaper does it for it); nothing makes a pipe end. `ZmqContext`: the reaper and the
thread in `zmq_term` go on, and the application closes sockets that answer ETERM. `StreamEngine`:
sender, engines and receiver together do not stop. `Poller`: the thread goes on, timers come due,
and the operating system ends every attempt to connect, one way or the other. `FairQueue`: the application goes on receiving and treats
`activate_read` commands, whatever it polls in between (strong, because `recv`, `has_in` and commands take
turns), and a call that scans the pipes goes on. `PubSub`: commands,
readable pipes, and a connecter that tries again until it succeeds. `Dispel`: timers that are
armed fire and a slot that is running goes on (Qt's event loop; weak, of `run` only). `Kickstart`: a run goes
on unless it is killed. No fault, break or call of an application is assumed to happen. The other modules
claim safety only.

## 4. Proofs

Proved with TLAPS for every value of the constants that the assumptions below allow:

| Theorem | States |
|---|---|
| `ObjectStoreProofs!AckedIsKept` | `Spec => []AckedKept`, for threads with objects of their own |
| `ObjectStoreProofs!NoVersionLost` | `Spec => ArchivedBeforeRemoved`, likewise |
| `ObjectStoreProofs!CurrentIsUnique` | `Spec => []OneCurrentPerUuid`, for one thread |
| `ObjectStoreProofs!AckedIsExact` | `Spec => []AckedExact`, for one thread |
| `ObjectStoreProofs!ImplementsVersions` | `Spec => ImplementsVersionedStore`, for one thread |
| `ObjectStoreProofs!TypesAreKept` | `Spec => []TypeOK` |
| `FileEventsProofs!EventsNameTheirFile` | `FemSpec => []RightPath` |
| `FileEventsProofs!WatchedOnce` | `FemSpec => []OneIdentPerPath` |
| `FileEventsProofs!WatchesAreLive` | `FemSpec => []LiveKqueue` |
| `FileEventsProofs!FemTypesAreKept` | `FemSpec => []FemTypeOK` |
| `FileEventsProofs!BoundOnce` | `Spec => []OneBindingPerPath` (of `FileWatches`) |
| `FileEventsProofs!WatchTypesAreKept` | `Spec => []TypeOK`, likewise |
| `FileEventsProofs!ManagerIsSafeInAccount` | `Spec => [](RightPath /\ OneIdentPerPath /\ LiveKqueue)`, likewise |
| `FileEventsProofs!RecordsAgreeWhenPatient` | `Spec => []RecordsAgree`, likewise, for one path and patient clients |
| `AccountLifecycleProofs!RegistryIsExact` | `Spec => []RegistryExact` |
| `AccountLifecycleProofs!TypesAreKept` | `Spec => []TypeOK` |
| `MailboxProofs!MailboxIsSafe` | `MbSpec => []MbSafe` |
| `MailboxProofs!YQueueIsSafe` | `YSpec => [](YTypeOK /\ YMemorySafe)`, part of `MemorySafe` |
| `MailboxProofs!YRefinesQueue` | `YSpec => YImplementsQueue`: the queue implements `FlushQueue` |
| `ZmqPipeProofs!PipeIsSafe` | `ZSpec => []ZSafe` |
| `OwnershipProofs!OwShutdownIsSafe` | `OwSpec => [](OwTypeOK /\ OwSafe)` |
| `SharedMessageProofs!ContentsFreedOnce` | `MgSpec => []MgSafe` (part of `MemorySafe`) |
| `SharedMessageProofs!DsKeepsRegions` | `DsSpec => []DsSafe` |
| `SharedMessageProofs!SeKeepsMessagesWhole` | `SeSpec => []SeWholeInOrder` |
| `ProgramProofs!KkOneSvdPerAccount` | `KkSpec => []KkOneSvd` |
| `ProgramProofs!GmAlwaysConsistent` | `GmSpec => []GmConsistent` |
| `ProgramProofs!LgContextIsRight` | `LgSpec => []LgRightContext` |
| `ProgramProofs!NtKeepsNotifications` | `NtSpec => [](NtTypeOK /\ NtNothingLost)` |

The assumptions are the named `ASSUME`s of each module, which TLC evaluates in the runs: bounds are
natural numbers, sets of processes, threads, senders and pipes are finite (`KkAssumption`,
`LgAssumption`, `MbAssumption`, `MgAssumption`, `DsAssumption`), and the value that stands for nothing is none of
the others. `OwAssumption` says that objects are finitely many, that one of them is the socket, and
that an object's role determines its parent's and both its thread, as the constructors do; `NtAssumption`, that
files are finitely many; `YAssumption`, that chunks are finitely many and have a slot at least, and that
NULL is neither a chunk nor a slot; `SeAssumption`, that each message has a size, that buffers and wire
have room for a unit, and that there is a mark (the default is 1000; 0, no mark, is left out). The theorems about the store, but for its types, and `RecordsAgreeWhenPatient`
have hypotheses of their own, given below. The bounds on
messages, runs and faults are constants, so the theorems hold for any number of them.

*Object store.* `AckedIsKept` and `NoVersionLost` assume `DisjointOwners`: no object is saved or
removed by two threads. Without it one thread may delete what another is saving. The properties are
not inductive: they say nothing about operations in progress. The invariant `IInv` adds that an
uncommitted record belongs to a thread about to commit it (`PendingHistory`, `PendingCurrent`),
that an uncommitted deletion is of an archived version (`PendingDelete`, the key to
`NoVersionLost`: any commit by anyone may publish it), what each thread has achieved at each
step (`Locals`, `Progress`, `Acked`), and that a closed base has no pending changes. The next
three assume `OneWriter`; `store_duplicate` shows that a second thread makes them false even
with objects of its own. Their invariant `SInv` says, call by call, which single change the session has
over what is committed (`SessionOf`) and which committed record the operation is about
(`AboutRecord`). Since there is one record per uuid, the `CHOOSE` in `Live` has one candidate, and
each commit becomes one step of `VersionedStore` or none. The types need no hypothesis, but
they need that an operation has the record it is about to store (`Given`).

*File events.* `RightPath` relates the mailbox to the table, which nothing relates directly; the
invariant goes through the kernel: events in the mailbox and entries of the table both agree
with `opened`, and an open descriptor is never given to another file, because the code never
closes one. `OneBindingPerPath` is inductive by itself: one handler looks a path up and adds its
binding, and whatever runs beside it only removes. The types need to know what `filter` leaves of
a list (`KeepFacts`), by induction over its prefixes, and that the bindings made and the requests
for more together stay within the bound (`CreatesCount`).

*Records of watches.* `RecordsAgree` speaks of states in which nothing is on its way, and is false of two paths
(`watches_two`) and of clients that do not wait; `RecordsAgreeWhenPatient` assumes `Patient` and `OnePath`,
and speaks of the manager's first instance, since a restart forgets all watches. The invariant `Agreement` says what is
on its way otherwise: one request at a time in the two boxes and the callbacks (`OneRequest`); each binding is
watched, or its registration is under way, or its removal (`BindingsWatched`); each watch has a binding
that stays, or the unregistration is under way (`WatchesBound`); a registration under way is a
binding's and meets an empty table (`RegistersNew`); and only the account manager watches
(`OnlySelf`), so that an unregistration empties the table.

*Lifecycle.* `RegistryExact` speaks of settled accounts. The invariant `Followed` says what is
under way for the others: a connected manager's entry is made or the only message is its
`Alive`; for an account that is off, the last message is a `Dead`, or there is neither message
nor entry, or the exiting manager still owes its `Dead`.

*Mailbox.* The invariant counts signals (`MbTokens`): while the queue is awake there is one, in the
signaler or in the hands of the one sender that must still send it, and while it sleeps there is
none, beside the one a receiver has been woken by and has yet to drain. That bounds the signaler
and makes every assertion of `recv` hold. That nobody is inside a mailbox which is destroyed
follows from `MbCounted` (commands unsent, in the queue and received add up to all there are):
after the last one is received, the signal for it has been sent.

*Lock-free queue.* The pointers are given a meaning by the chain of slots from the front to the end of the
queue, as a function from positions to slots: neighbours are linked both ways and the slots of a chunk
follow each other (`YChain`), so no slot and no chunk comes twice. The invariant says that such a chain
exists, that the pointers `r`, `w`, `f` and `back` stand at places of it in this order, and that `c` is `w`, or
NULL when nothing is flushed that was not read (`YPointers`); and that what is allocated is the chain's
chunks and the spare one (`YMemory`). Hence nothing in use is freed, nothing is freed twice and the reader never
reads what is not written. Each step gives the chain of the next state and a step of
`FlushQueue`, or none (`...GoesOn`). The model's own way through the slots, on which the refinement mapping is
built, follows the chain (`YWalkFollows`, by induction over positions), which is no longer than there are
slots (`YChainFits`).

*Pipe.* `ZSafe` has four parts and needs as many in the invariant. `ZShutdown`: the phases of the
two ends (six states and "gone") and the `pipe_term`, `pipe_term_ack` and hiccup commands on
their way determine each other, whatever the session's engine and handlers are at, so an acknowledgement finds an end that waits for it and is the last
command to it. `ZUpipes`: the queues towards the session are numbered in the order of the
hiccups; those the socket has left are deleted, and the hiccups on their way name exactly the others,
in order (`ZNames`); hence nothing in use is deleted and nothing twice. `ZQueues` and `ZMiddle`: what
is flushed ends with the last part of a message, so once a first part is read the rest is there.
A session in the middle of a message is awake (`ZAwake`), so `clean_pipes` finds the rest while the pipe is active or
pending (`ZStuck`).
`ZCredit`: as long as both ends are there and nothing was hiccuped away, messages written
are those left plus those read, the reports on their way never go back, and the last of them (or
what the writer knows, if there is none) is the last multiple of the low watermark; so a writer that
waits at the high watermark will hear of it. The proof goes action by action, first for the
three parts that need only each other (`...Keeps`), then for credit (`...Credit`).
Without a high watermark (`ZHwm = 0`) there is no limit and nothing is reported, so `ZCreditExact`
claims the balance only.

*Ownership.* `OwSafe` says that no command reaches a deleted object and that nothing is
deleted too early. Since no command is on its way twice, the mailboxes are treated as one set of
commands. The invariant counts in it: `sent - done` of an object is the number of numbered commands
on their way to it, and `acks` the number of its children that were asked to terminate and of whom nothing was
heard, and of pipes a closing socket waits for. An object that asked to be terminated sends its
acknowledgement later, so the request arrives first (`OwOrdered`). The handlers do several things
one after the other; each of them (`...Good`) keeps the part of the invariant that
holds in the middle of a handler, and `...Keeps` composes them.

*Shared contents.* The counter counts the holders only once the flag `shared` is set. `MgIInv`
therefore has two halves: the counter is the number of holders while there are any, with the
contents not yet freed (`MgCounted`), and a `msg_t` without the flag is alone (`MgLone`).

*Distribution.* `DsSafe` is claimed until `terminated` lets the last pipe of the array fill a gap in another
region (`dsDisplaced`), after which the counters no longer mean what `dist_t` takes them to mean. The
invariant `DsGood` says that the array holds each known pipe once (`DsArray`), that the counters are nested, and what a
pipe's index says of it: eligible when it has room, not when it is full, and the parts of the current message are in it
exactly when it matches (`DsFits`). Every operation is a few swaps, and a swap exchanges two indices
(`DsSwapFacts`). The loop of `distribute` keeps `DsTried`: the pipes before the index are written to, a pipe that
refused is behind the eligible ones, and everybody else is in his region (`DsStays`); each write moves the
index up or the end of the matching pipes down, so the loop ends with the index at that end (`DsDistributeFacts`).

*Stream.* `SeWholeInOrder` speaks of the pipe at the far end only. The invariant `SeIInv` speaks of everything before it:
each unit has a successor (`SeSucc`: the greetings, the identity, the messages), and a sequence is a part of
the stream from one unit up to another (`SeChain`); parts are joined, split and cut anywhere (`SeChainJoin`,
`SeChainSplit`, `SeChainRest`, `SeChainFirst`). What b has read and what is on the wire is the part that begins with the unit b
waits for; while the engine and the connection last, a's buffer goes on from there up to the unit its encoder writes
next (`SeStream`). The encoder produces such a part (`SeBatchIs`, by induction over the messages of
`FlattenSeq`), and knows where it stopped. The decoder holds the beginning of the message that follows those in the
pipe, and its field and what it needs tell how much of it (`SeDecGood`); it either waits for a unit or is stuck with a whole
message and no room (`SeSettled`). By induction over the units of a buffer (`SeProcessIs`) it takes them up to
where it is stuck, and what it pushed are whole messages.

*Programs.* `Kickstart`: past the lock a run holds the lock of the inode it has open, and past the
write its pid is in it (`KkHolds`); a pid file is never replaced, so runs with one argument have one
inode (`KkFiles`). `GitManager`: between the halves of a request its name has no record
(`GmHalfway`), so no other request can have taken it. `Logger`: a device on which a record
is streamed has no place left in its semaphore, and none has more than one (`LgWhole`), as long as no
record was flushed in pieces; a race of `logDevice()` makes at most one device per thread
(`LgPointer`). `NotificationFiles`: every file that a program is about to delete has more than `NtKeep`
newer files in the history that no program is about to delete (`NtGuarded`); an old file's
guards are among the newest, whoever listed them, because all programs list in one total order.
A program removes what it has copied, unless the copy has been pruned since (`NtMoved`).

Model-checked only, and why:

- All liveness properties, and `ENABLED`: out of the prover's reach.
- The poller's part of `MemorySafe` (`PlSafe`): all its handlers change one record, each through several
  others, and that an entry and a descriptor are free when one is taken needs a count of the entries retired
  in one batch; no invariant of it has been written down yet.
- `TriesExact`: the tries are trees of unbounded depth, which `RECURSIVE` operators walk.
- `TransportTypeOK`, `ServicesTypeOK`, `MemorySafe` as a whole: they are about several components at
  once; the types of `Mailbox`, `YPipe`, `ZmqPipe`, `Ownership`, `SharedMessage`, `Kickstart`, `GitManager`,
  `Logger` and `NotificationFiles` are proved with the theorems above.

What recursive definitions compute is shown by induction over data, for which the library's theorems
are of no use here; a set that has 0 and with every number its successor has all numbers
(`FileEventsProofs!AllNumbers`, from `WFMin`), which is enough for recursive functions on natural
numbers: `filter`, the walk through a queue's slots, the loops of `dist_t` and of the decoder, and
`FlattenSeq` are treated so.

## 5. Not modelled

Formatting, logging, replies nobody waits for, and the contents of messages. In the lifecycle, the
web manager's port and the managers that are children without state of their own; a port chosen
by `randomFreePort` that is taken before it is used. The parts listed as `not_modelled` in
`PROJECT.json`:

- Ports, keys and domains of an account: one actor reads, changes and writes them back, and
  `ObjectStore` has what can go wrong below. One callback stores a port later; no line of the code
  says whether it or a `RemoveAllUserPorts` in between should win.
- Notification center and gates: the IRC gate never connects, because the call that makes its
  settings is commented out, so the task lists in Redis are out of reach; the rest forwards.
- CI worker: `runTask` only logs, so no `ProcessFinished` comes.
- Service actors and schedulers, the handlers of the SSH daemon and of the command line client:
  commented out.
- System manager, gatherer, web API, `deathWatch`, daemon, shell, runner: calls of the operating
  system or of a library in a fixed order, with no state that outlives a call.

Of ZeroMQ, what PUB and SUB over TCP do not use: the other socket types and `lb_t`, `ipc` and PGM,
the other pollers, address parsing, monitors, the linger timer; of the stream engine, unversioned peers and
long lengths; of sockets, options and inproc endpoints, except where `FairQueue` says so.

`fann`, `quazip`, `hiredis` and `jsoncpp` are more than half of the C and C++ lines under `src/lib`.
No program of the repository calls the first three, and `dispel` reads one file with the last; most
of the other lines are the parts of ZeroMQ named above, and headers. A model of them would say
nothing about ServeD, so the share of lines the map covers stays low on purpose.

## 6. Plan

Done: `ObjectStore` with `VersionedStore`, `FileEvents`, `FileWatches`, `AccountLifecycle` and the
first proofs about them; then the transport (`FlushQueue` to `Poller`) and the services (`Distributor`
to `GitManager`); then the proofs for `Mailbox`, `ZmqPipe`, `SharedMessage`, `Kickstart`,
`GitManager`, `Logger`, `OneBindingPerPath`, and the one-thread store with its refinement; then those
for `Ownership`, `NotificationFiles`, the types of `FileEvents` and `FileWatches`, the file events
manager inside an account, `RecordsAgree`, `YPipe` with its refinement of `FlushQueue`, `Distributor` and
`StreamEngine`.

Next: `PlSafe`, the poller's part of `MemorySafe`, with an invariant that says which attempt to connect is under
way and counts what a batch has retired.
