# A TLA+ verification of yftpserver

yftpserver is an FTP server in C++ on Boost.Asio. One code base
(`jni/yftp/`) is built as a stand-alone server (with `SERVER_APP`, on a
framework called ycommon that is not in the repository) and as a native library
under an Android application. Paths below are relative to the repository.

## The system

| Part | State | Operations |
| --- | --- | --- |
| client session: `client_node` | login flags, `cur_data_mode_`, `cur_status_`, `data_acceptor_`, `data_socket_`, `current_transfer_`, `is_ctrl_canal_open_` | one method per FTP command, `list_thread`, `store_thread`, `retrieve_thread`, `open_data_connection`, `start`, `end` |
| passive ports: `process_pasv_cmd` | the function-local static `cur_end_port`, `ftp_server::data_port_range_` | the search for a free port |
| registry: `user_manager`, `user_node`, `client_manager` | list of accounts; per account a list of `client_node`, a limit, a password, a directory, privileges | `find_client`, `find_user`, `add_client`, `delete_client`, `delete_all_client`, `add_user`, `delete_user`, setters |
| command stream: `connection`, `request_parser`, `ftp_server::process_command` | line buffer, queue of lines, telnet flag (all inside the `client_node`) | `handle_read`, `parse`, `GetCommand`, `MapCommand` |
| paths: `common.cpp` and the directory commands | `current_directory_`, `rename_from_path_`, the file system | `build_path`, `simplify_path`, CWD, CDUP, MKD, RMD, DELE, RNFR, RNTO, SIZE, MDTM |
| data protection | `data_use_ssl_`, `ssl_socket_`, the TLS state of the control connection | AUTH, PBSZ, PROT |
| listener: `YFtpServer` | acceptor, `bIsListening`, `is_stopped`, pool of threads | `StartListening`, `StopListening`, `run`, `stop`, the accept loop |
| native start-up: `ftpserve_native.cpp`, the JNI file | copies of the last configuration | `init_ftp_server`, `start_ftp_server`, `stop_ftp_server` |
| stand-alone start-up: `main.cpp` | none after start-up | reads the accounts and the port range |
| conversion, replies | none | encoding, formatting |
| Android user interface: `src/com/...` | preferences | screens, a JNI wrapper |

**How they interact.** `YFtpServer` runs one `io_service` in a pool of threads.
Each accepted connection has one outstanding read, which its handler re-arms
after the reply, so the commands of one connection follow each other while
those of different connections run in parallel. `handle_read` calls
`process_command`, which looks for the connection's `client_node` in the lists
of all accounts. A connection that no account lists has no node: each of its
reads gets a new one, and only a USER that enters the node in an account's list
makes it stay. The list holds the reference that keeps the node alive; the
handler holds another while it runs. Transfer commands detach a `boost::thread`
that holds a raw pointer and shares the node's fields with the handler;
`ctrl_socket_lock_` is taken by the threads for their final bookkeeping and by
`end`, never by commands. When a read fails or a command returns false,
`end_work` takes the node from its list.

**What is hard.** The unlocked fields between handler and threads; the node's
lifetime between list, handler and threads; logins that race for an account's last
place or that repeat USER; a cursor shared by all clients behind a lock that each
client has for itself; two sessions that rename and remove what the other looks at; a
stream that is made once and a level that may change at any time; a stop that comes
before the start is through, or that times out; one command per read and a parser
that may last for one read only. `PROJECT.json` lists each hazard at its line, with
the properties that cover it or the reason why none does.

**What makes each part correct.** Session: one transfer at a time, `cur_status_`
true, every thread on its own connection and path, nothing left open, promises of
replies kept, no transfer's final reply after the end, threads and sessions that end.
Ports: ports of the configured range, a search that ends, and that gives up only when
it found no free port. Registry: the limit holds, a connection is listed once, where
`user_` says, and not longer than it lives; nobody is refused while there is room, and
no command meets a null `user_`. Stream: every line handled once and in order, and when
it comes. Paths: a session stays where it is, and a command acts on what it found.
Transfers: a 226 means that everything is there; the offset is the client's last
REST; a protected transfer has a stream. Listener: at most one pool runs, the button
says whether the server runs, nothing that was destroyed is used, and the server goes
on accepting. Native start-up: the copies agree
with the registry.

## The modules

| Module | Models | Actions and the code |
| --- | --- | --- |
| `TransferSession` | one `client_node` and its transfer threads | a command per action; the blocking commands (`BeginTransfer`, then `Connect` or `OpenFails`; `AborClose`, then `AborReset`) are two, since threads run in between; a thread goes through `ThreadStart`, `ThreadClose`, `ThreadLock` and `ThreadCleanup` field by field; what it sends after `end` is recorded, with the lock or without |
| `DataChannel` | abstract: what a session promises about its data channel | opened, used by one transfer, released; nothing in it stands for code |
| `FileTransfer` | the file, the offset and the bytes of one session's transfers, in the clear or under TLS | `Agree` is PORT and PASV, `Begin` a transfer command with `open_data_connection`; the thread opens the file, moves chunks (`Receive`, `Send`), shuts the channel, closes it and does its bookkeeping; `Abor`, which wakes a thread that is blocked in a call or leaves it blocked until the peer acts; `Auth`, `Prot`, `Rest`; a use of the null `ssl_socket_` is `Crash` |
| `ClientRegistry` | the accounts' lists and the login commands of all connections | `User`/`UserUnknown`, then `Admit` and `Push` or `Refuse`; `PassOk`, `PassFails`, `Rein`, `Disconnect`, `End`; `UseAccount` stands for every command that dereferences `user_`, `List`, `ListUses` and `ListEnds` for the list thread, which does so without a lock while other commands null it |
| `AccountQuota` | abstract: what the accounts promise about their places | a connection enters and leaves |
| `Accounts` | the account table: `add_user`, `delete_user`, `allow_anonymous`, the `set_user_*` calls | operators on a table from names to password, directory and privileges, with the test that each call makes apart from its effect |
| `PasvPorts` | the search of `process_pasv_cmd` by all clients | `Take`, `Bump`, `Wrap` are the read, the write and the test of the unsynchronised cursor; `Bind`, `GiveUp` |
| `PathCommands` | `build_path`, `get_file_status` and the commands that name files, of several sessions | one action per call on the file system, and other sessions act between: `Resolve` (and `Draw` for STOU, `ListResolves` in the list thread) is `canonical`; `Cwd`, `Rnfr`, `Dele`, `Stou` or `Refuse` what the handler does after `status`; `Look` the `status` of RMD and MKD, which take the path as it is given; `ActRemove`, `ActMake`, `Rnto`, `StouOpens` and `ListRuns` the call that acts |
| `FileTree` | the account's files as `PathCommands` uses them, external: a tree of directories, files and links that keep their identity when they are renamed | operators on trees: what a path leads to, with links (`Walk`, `Status`) and without (`Plain`, `Named`), and `Create`, `Unlink`, `Rename` with their tests |
| `CommandStream` | bytes, lines and commands of one connection | `Read` and `Lost` are the two outcomes of `handle_read`, the parser's loop a recursive function over the bytes |
| `Listener` | `YFtpServer`: acceptor, chain of accepts, pools of threads | `StartServing` and `StopServing`; `HandleAccept`, then `Rearm`, are the two halves of `handle_accept`; `RunBegins`, `RunStarts`, `WorkerLeaves`, `RunEnds` an execution of `run` |
| `NativeServer` | the Android application and the console program over `Listener` and `Accounts` | `InitFtpServer` computes the copies and the table; `Configure`, `PressStart`, `PressStop`, `Recreate` are `MainActivity`, `ConsoleInit` to `Exit` `main`; the anonymous logins that a new configuration, or the session itself, ends (`login` says where the node is: in the list, held by a handler only, or gone) |
| `ServerApp` | `FtpServerApp` reading its configuration file | a line per step: `ReadAnonymous`, `ReadUser`, `EndOfUsers`, `ReadRange` |
| `Programs` | the three builds | composes `NativeServer` (hence `Listener` and `Accounts`) and `ServerApp` |
| `...Proofs` | the theorems of the module in the name, and those of the abstract module it implements | |
| `SequenceInduction` | lemmas: induction over numbers and sequences, recursive functions, lists in order | |
| `MC...` | the instance TLC checks | |

The modules meet where the code's parts do. `TransferSession` takes the outcome
of a login as a choice (`User`, `Pass`), of which `ClientRegistry` has the
details; its `Pasv` may fail as `PasvPorts` may. `CommandStream` takes from both
only whether a command leaves the node listed. `FileTransfer` and `TransferSession`
model the same methods for different questions: the first follows the data and
the stream of one transfer after the other, the second the fields that transfers
share when a client is fast. `NativeServer` keeps of a session what a
configuration can disturb: its place in the anonymous account, and whether a
transfer uses the node. A command that is refused with a reply and changes
nothing is a stuttering step and has no action.

Definitions commented as mutants (`FreeButForFiles`, `EndUnlocked`, ...) are not
part of a specification: each is a plausible mistake in the definition it stands
in front of, and when it takes that definition's place TLC finds the property
that `PROJECT.json` names for it violated.

*Refinements.* `AccountQuota` has two variables, the home of each connection and
whether all clients answered each 331 so far. `ClientRegistry` implements it
(`QuotaKept`): a connection's home is the account whose `clients_` lists it, so the
refinement says that the test and the push of `add_client`, two steps of an unlocked
node, are one for the others. `DataChannel` has the use of the channel, the number of
its last transfer and whether the client is calm. `TransferSession` implements it
(`ChannelKept`): the channel is being opened while the handler opens it, in use while
a thread has it that has not been through with its channel, and its last transfer is
the thread with the highest number that carries one; the fields that say so are
written by the handler and by each thread without a lock. Once a client hurried, the
mapped values are those of an idle channel and of empty accounts. In both an abstract
last step ends the promise when a client hurries, and from then on nothing is said.

## What the runs check

| Run | Question | Bounds | States |
| --- | --- | --- | --- |
| `session` | Do a waiting client's transfers stay apart, and is the session a `DataChannel`? For any client: no final reply after the end, threads finish, sessions are let go of | 2 data connections or STAT listings, LIST and APPE | 580 000 |
| `rein_transfer` | REIN leaves the transfer running: violated | 1 connection | |
| `files` | Does a 226 mean that all is there, is the offset the client's, is there a stream? | 3 data connections, uploads and offsets of up to 2 chunks, a file that is empty or has two | 2 660 000 |
| `files_ftps` | An upload over FTPS arrives: violated | as above | |
| `registry` | Limit, one entry per connection, no null `user_`, no needless refusal, `AccountQuota` | 3 connections, one of which lists; limit 2, one named account and the anonymous one | 1 290 000 |
| `registry_limit` | The limit counts connections: violated | as above | |
| `ports` | Orderly range, no needless refusal, search ends | 2 clients, a range of 2 ports, words of 9 values, 3 tries, 2 ports that others may hold | 544 000 |
| `ports_range` | Only the configured range is opened: violated | as above | |
| `paths` | Do two sessions on one tree act on what they found? | 2 sessions, 4 objects, 2 first trees (a directory with a file and a link to it, a link in a directory to another), 5 arguments | 37 000 |
| `stream` | Lines in order, none lost, none late | all streams of 6 bytes of 7 classes, reads of up to 4, lines cut at 2, signed and unsigned char | 1 420 000 |
| `stream_split` | More data completes a command: violated | 4 bytes | |
| `programs` | Is the server what the screen, the copies and the configuration file say, with one pool? | 3 connections, 2 pools of 2 workers, 7 forms, 1 failed accept, all files of up to 3 user lines of 6 kinds | 406 000 |

*Why the bounds are enough.* Two data connections are a transfer that was abandoned, or
not announced, and the one that overlaps it, and two threads that queue for the lock
`end` needs; a third adds only threads that are done. LIST is the transfer that its own
thread announces, APPE the one that also sets the offset; RETR and STOR do no more.
Three connections for two places are the least that race for the last place with
somebody to refuse; a list thread meets only what its own connection does, so one of
them lists. Two searches tear the cursor; nine values leave room above the range for it
to run past the test and to wrap to 0. Six bytes hold a USER with two lines in the next
read, or a USER, a line and half of another. Three data connections are a first
protected one, another and one that follows a LIST or a PROT in between; two chunks are
a transfer that breaks off in the middle and an offset inside the file. Two pools are
the old one and the one a start adds; two workers let one sit in a handler while the
other takes the next accept; three connections are one that is served, one being
accepted and one awaited. Two sessions suffice for `paths`, as its properties speak of
one session and what others do to it; four objects are a link, the directory it leads
to, what is in that one, and the account's, and the one name STOU draws is one that
others take. For the safety properties of `TransferSession`, `ClientRegistry`,
`PasvPorts`, `FileTransfer`, `Programs`, `PathCommands` and `CommandStream` the proofs
below remove the bounds and the constraints.

*Constraints.* `programs` does not continue a history with two mishaps (a hasty stop, a
screen made anew, a connection not delivered, a session that left its own transfer, a
failed accept; a screen made anew and the logins it cuts count as one). One session
transfers at a time, next to one pool at most and without a mishap of the listener, and
the history of one that left its transfer ends with it (`Apart`): a transfer meets only
what ends its session's login. A change of name or directory is taken only with a server
at rest, and a start with port 0 only without open connections (`Considered`): the server
looks at none of these while it runs, so the cuts leave out combinations of things that
do not meet. `paths` has at most two things under way (`TwoAtOnce`) and two places of a
tree changed (`FewChanges`). Symmetry is used only in runs that check invariants and
nothing else: connections and pools in `programs`, sessions in `paths`.

*Deadlock* is checked for `ports` and `paths`. Elsewhere the system may stop: a
session ends, connections are used once, a client stops sending, a program exits,
operations are bounded.

*The calm client.* `OneTransfer`, `StatusExact`, `Ownership`, `IdleClean`, `PromisesKept`
and `ChannelKept` speak of states where `Calm` holds:
the node is still listed and no set-up command (PORT, PASV, REST, a transfer)
came while a thread ran that the status does not show. There are two such
threads: one that ABOR declared finished and that still runs, and a LIST
between its command and its thread's first statement. Without `Calm` the
properties fail, because nothing in the code keeps the next transfer apart;
a client that waits for the 150 of a LIST and is slow after an ABOR is calm. The other
properties of the run hold for every client. `NoFinalAfterEnd` is about the final
replies only, which are sent under `ctrl_socket_lock_` after a look at the canal flag:
`list_thread` sends the 150 of a listing and the lines of a STAT without either
(client_node.cpp:694, 700, 797, 887, 904), so those may go out after `end`, and the model
lets them.

*The patient connection.* In `registry`, `OneHome`, `RefusalMeansFull` and `QuotaKept`
speak of connections that answered each 331 with a PASS before the next USER (`rushed`
is the history of the others). `NullUserNeedsHurry` needs a second history, `disturbed`:
`list_thread` reads `user_` without a lock (client_node.cpp:745, 795, 814), and a USER, a
PASS, a REIN or the end of the connection clears it, or lets the node go, while the
thread runs. That needs no second connection and no repeated USER, only a client that
does not wait for the 226 of its own LIST.

*The calm user.* `OnePool`, `ButtonTellsTruth` and `NodesReachable` speak of a user
who does not press stop before `run` has begun and whose screen is not made anew
while the server runs. A hasty stop is undone by `run`, which resets the
`io_service`; a new screen offers a start over a running server. `MemoryKept`
excuses an accept completion left from before a stop, which starts the wrong
connection object, anonymous logins ended during a transfer or a command, and a
session that leaves its account (by REIN, USER or the end of its connection) in the
middle of its own transfer: the thread is left with the node `rein_transfer` shows it
with. `ButtonTellsTruth` speaks of the listener and of the threads of the pools. The
detached threads of transfers belong to no pool, `stop_ftp_server` does not wait for
them, and they may outlive the stop.

*What the excuses in `TransferredWhole` stand for.* The code does these, and a
reader of a 226 should know: STOR after REST n appends, whatever n is; a failure of
the last flush, when the stream is closed, goes unnoticed (client_node.cpp:1674);
the offset survives LIST and refused commands, and a LIST is always 226; a PROT
during a transfer changes the level that the thread reads when it closes. ABOR closes
the socket, which need not wake a thread that waits in `read_some` (client_node.h:283):
when the client then closes its side, that read ends with no data, and the thread of
the aborted upload ends as after a whole one, with a second 226 for the part that came;
`AbandonedEnd` is that end, and the property excuses it when the client had more to
send. PORT or PASV repeated under level P without a transfer dereferences a null
`ssl_socket_` (client_node.cpp:540, 599).

Protected connections after the session's first are left to `files_ftps`:
`ssl_socket_` is made and handshaken for the first, and a later one is handshaken on
the finished stream (client_node.h:255).

*What `paths` does not promise.* `canonical` may fail, because the path leads nowhere at
that moment, and the `status` after it succeed, because another session has renamed
something into the way. CWD and RNFR then keep a path that leads over links, and other
sessions can move where it leads; `Resolve` remembers nothing of it (`Changed`), so
`InPlace` and `ConfirmedKept` are silent. They speak of each path that `canonical`
resolved, whatever happens between the two calls. `AsSeen` excuses a command only when
the very object or directory it found is moved or removed, when the very name that was
free is taken, or, where its path leads over a link, when a link is moved. A STOU whose
name has been taken empties the file that has it (`StouOpens`); that
none is emptied without such a taking is part of `AsSeen`.

*Fairness.* `TransferSession` assumes weak fairness of the thread steps and of
`AborReset`, `End` and `Destroy`, the parts of a handler that do not wait for the
network: the operating system runs every thread. `ThreadClose` in particular
is fair only if the peer reads, writes or closes its data connection. Nothing is
assumed of `Connect` and `OpenFails` (accept may block as long as it likes) or of
the client. The lock needs no strong fairness for `CloseCompletes`, because the
threads that compete for it are finitely many and each takes it once.
`PasvPorts` assumes weak fairness of each search step, which never waits. The other
modules state safety only: a listener whose accept failed stays deaf, and a stop
gives up after five seconds, so what they would promise to happen does not.

*The findings.* `rein_transfer`: REIN takes the node from its list, the last lasting
reference, while the comment in `process_rein_cmd` says that the transfer must not
be stopped. `registry_limit`: USER repeated without a PASS enters the node again,
so one connection takes several places, and another that has none is refused although
fewer others than the limit have the account. `ports_range`: the port after the
configured range is opened. `stream_split`: until USER succeeded, a command
that arrives in two reads is lost. `files_ftps`: the README names FTPS among what the
server supports; an upload over the session's second protected connection leaves an
empty file and is answered 226.

## What is proved

TLAPS proves, for every value of the constants that satisfies the named
assumptions:

- `TransferSessionProofs`: `TypeOK`; `NoFinalAfterEnd` (its own invariant: a thread in
  its bookkeeping holds the lock, and `end` waits for the lock before it clears the
  canal flag, so a thread that then has the lock finds the flag cleared); and
  `OneTransfer`, `StatusExact`, `Ownership`, `IdleClean` and `PromisesKept` from one
  inductive invariant, `IInv`. None of the five is inductive by itself. `IInv` adds, for
  a calm session: which status the current thread's place implies; that a channel being
  opened excludes a current thread; that an acceptor or socket is open only in the mode
  that explains it; and that while ABOR is half done the status still shows the
  transfer. TLC checked `IInv` before it was proved. Assumptions: `MaxOps` is a natural
  number and `Transfers` a set of the four kinds. For `ChannelKept`, the refinement of
  `DataChannel`, `IInv` needs in addition that transfers are numbered in the order of
  their connections, so the transfer that `Connect` gives the channel to is new to it;
  each action is then shown to open, drop, carry, release or break, or to change nothing
  the channel shows.
- `ClientRegistryProofs`: `TypeOK` and `Capacity`. The invariant adds that at most one
  connection is inside `user_node::add_client` of an account, and that there is room
  while one is between the test and the push. `OneHome`, `NullUserNeedsHurry` (for the
  handlers and the list threads), `RefusalMeansFull` and `QuotaKept` come from a second
  one, for `OneHome` is not inductive: the invariant, `HomesOK`, says for a connection
  that never hurried which entries each place in the login implies. The refusal follows
  by counting: the list of the account is full, by `HomesOK` each entry of it is another
  connection, and so as many connections have a home there. The refinement maps each
  action to entering, leaving, hurrying or none. Assumption beyond the module's: none;
  `Conns` is finite, as `RegistryAssumption` says.
- `PasvPortsProofs`: `TypeOK`, `OrderlyRange` and `RefusalMeansBusy`. The invariant of
  `OrderlyRange` says, while no searches overlapped, that at most one search is between its
  read and its test, that its register tells the cursor, and that outside of such a
  search the cursor is in the range or one above. The range must end below 65535
  (`Start + Num + 1 < Word`), else the cursor wraps to 0 before the test sees it.
  `RefusalMeansBusy` adds that the cursor walks a circle, the range and the port after
  it: what a search with the cursor to itself has drawn is an arc of it, as long as
  its tries, or all of it (`Arc`, `SearchOK`).
- `ProgramsProofs`: `OnePool`, `ButtonTellsTruth`, `MemoryKept`, `KeepsAccepting` and
  `NodesReachable`. Four invariants carry them. `Crewed`: a pool has as many workers
  at least as handlers, and workers only while `run` waits for them, so a pool that
  is gone serves nobody. `AtMostOnePool`: for the calm user `is_stopped` is set only
  between two executions of `run`, which is what lets `stop_ftp_server` answer truly
  without asking the threads. `Held`: a node whose
  thread runs is in the list, or in the hands of a handler, unless one of the histories
  says why it is not. `Chain`: while no completion was left from before a
  stop, only `new_connection_` has an accept under way or a worker that will start
  the next, and not both. Assumptions: `Conns` is finite, `PoolSize` positive.
  A second part proves `TypeOK`, `CopiesAgree`, `ShownIsServed` and
  `AccountsAsConfigured`: `init_ftp_server` is followed in its three stages, the
  anonymous login, the user, and directory and privileges. The invariant,
  `ConfigInv`, adds to the copies what they do not say: every account is the
  anonymous one, the user's or one the configuration has left, no account has the
  empty name (hence `set_user_home_directory(L"")` never finds one), and each
  account's directory is one that some configuration named. For the file, `AppInv`
  says after each line which lines so far made the accounts. Assumptions: there is a
  form; names, passwords and ports are of their sets; `Width` positive.
- `FileTransferProofs`: `TypeOK` (with `Shape`, what the thread's place implies of
  the other fields), `NullStreamNeedsSwitch` (with `Streamed`: a running protected
  transfer has its stream unless the level was switched under it), `OffsetKnown`
  (with `Spent`; no run checks it, for it is what one of the excuses of the next says) and
  `TransferredWhole`. For the last, `Underway` says in the middle
  of a transfer that may still become sure how far the file or the client's copy has
  come: what is there, followed by what is still to be sent, is what was wanted. It
  speaks of a transfer that ABOR has left blocked, too.
  Files are sequences of naturals of any length, `MaxConns` any number.
- `PathCommandsProofs`: `TypeOK`, `InPlace`, `ConfirmedKept` and `AsSeen`, for any tree,
  any number of sessions and paths of any length. Three lemmas about the file system
  carry them: a create, a remove and a rename each lead from a tree to a tree
  (`CreateKeeps`, `UnlinkKeeps`, `RenameKeeps`) and move nothing but the objects the
  histories name (`Moves`), and take no name but theirs (`Fills`). That a path then
  still leads where it led is an induction along the path. `InPlace` is not inductive: a
  canonical path that leads to the right object might do so over a link, which another
  session may remove. The invariant says instead that `current_directory_` and the path
  of RNFR lead to their objects over directories only (`HereInv`, `ConfirmedInv`), and
  what each kind of command found and how (`SeenInv`): a handler between `canonical` and
  `status` already holds such a path, which is why the second call cannot see anything
  else. Assumptions: the first trees are trees, the made-up names are names.
- `CommandStreamProofs`: `TypeOK`, `NothingLost` and `PoliteNeverWaits`, for any
  limit, any stream and any reads. The reference definition says which lines a whole
  stream has (`AreLines`, `Rest`), the parser works byte by byte, so the proof shows
  what one more byte changes in both (`ByteIs` to `LoopIs`). `NothingLost` is not
  inductive: it does not say what `m_nTelnetSkip` is, and speaks of listed nodes only.
  The invariant, `ParserIs`, adds that the flag is set exactly in the middle of a run
  of telnet bytes in front of a line. For `PoliteNeverWaits`
  the commands that a read completes are counted along its bytes: the end of a line
  queues one if the line is not empty, so the LF of a CR LF, and empty lines, queue
  none (`ByteCounts`, `CompletedGrows`), and the read takes one.
  Assumptions: `Limit` and `MaxSegment` are positive, `MaxBytes` is a natural number.
- `SequenceInduction`: what these two share. Paths and streams have any length, so
  their proofs need induction; the library's induction theorems take an operator, which
  the provers cannot instantiate, but its `WFMin` takes sets. From it come induction for
  a set of numbers or of sequences (`NatSet`, `SeqSet`) and the existence of a
  function that a recursion over a sequence defines (`Recursion`).

*What proving corrected.* Three things about paths held on the trees TLC had and not in
general. CDUP takes the last name off, whatever is there: when a link has taken the
place of the directory above, the session is where the link leads, and leaves when the
link goes; so after a CDUP `InPlace` promises something only if the path is its own
canonical one. RMD, MKD and STOU act on a path that leads over links, and depend on them
also when they found nothing. And what a link leads to may itself become a link, by a
rename; the model's links over links lead nowhere. The second tree of the run, with a
link inside a directory, is there since the failed proofs asked for it. In
`CommandStream` the reference definition no longer uses recursive operators, and
`TypeOK` bounds every queued line.

*Only model-checked:* liveness (`TransferCompletes`, `CloseCompletes`,
`SearchEnds`), which needs fairness and is beyond the prover, and the five
disagreements of the findings, which TLC shows by a behaviour.

## What is not modelled

- In the transfers: what becomes of bytes after a write succeeded; MDTM, which only
  reads; TYPE, SITE and PBSZ, which change nothing a transfer uses; the time limit
  on accept (client_node.cpp:206); `memset` over a struct with a `std::wstring`
  (client_node.cpp:1690), undefined at the language level, which gets the
  effect the code intends. OpenSSL is external.
- In the paths: "..", links that lead out of the account's directory, an account at
  home in "/", and the privileges. The sessions make no links.
- In the programs: the framework callbacks of `main.cpp` l.201-245, whose
  framework is not in the repository; `SharedPreferences` and `SaveFtpSettings`, a
  port that is not a number, the test for a wireless network, `MyFileManager` and
  `DirChooserDialog`.
- The conversion of characters and the text of replies. The buffer of a reply is
  gone before the write completes (connection.cpp:69); it is a hazard without a
  property, since what the write then reads depends on the allocator.
- Compiler liberties on the cursor of `PasvPorts` are kept to what a build does: the
  wrap-around test uses memory or the register. A negative number of ports (a
  reversed range in the configuration) is outside `PortsAssumption`. A limit of -1,
  no limit, is not set by any caller.

## Plan

Done, most important first: the session and its registry, and ports;
their proofs; the refinements; transfers with data and TLS, with proofs;
paths and the stream of commands, with proofs; listener and programs, with proofs.
Every invariant and action property that a passing run checks is a theorem. What is
left:

1. `PathCommands` with ".." and links that lead out of the account's directory, which
   `Walk` then has to follow over links of links.
2. `FileTransfer` for clients that do not wait, over `TransferSession`'s threads.
