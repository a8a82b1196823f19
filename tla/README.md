# Gproc in TLA+

Gproc starts a program on many cluster nodes at once. A *master* daemon runs on
the front end; a *slave* daemon on every node registers with its parent, which
is the master or another slave, so the daemons form a tree. `gproc e <nodes>
<program>` asks the master to run a program on part of that tree: the request,
with the files it needs, travels down, the output comes back up, and the
command returns to the prompt when all of it has arrived.

This directory models how that works when several commands, daemons, processes
and connections interleave and some of them fail. Source references are to
`src/src/gproc/` unless they say otherwise.

## Inventory

| component | state it keeps | operations | talks to |
|---|---|---|---|
| `gproc e`, mexec (`mexec.go` 36-138) | `numWorkers` | receive vital data, pack files, open an ioProxy, send the request, receive the number of nodes, count closed connections | master over a Unix socket; R processes of first-level nodes through its ioProxy |
| master (`master.go`) | `slaves`, `exceptFiles`, one goroutine per command | `receiveCmds`: e, i, x; `sendCommandsToNodes`, `sendCommandsToANodeSet` | mexec; first-level daemons by TCP |
| registry (`common.go` 516-640) | maps `Slaves`, `Addr2id`, and `netaddr` | `registerSlaves`, `Add`, `Remove`, `Get`, `ServIntersect` | shared without a lock by the registrar and the command goroutines |
| slave daemon (`slave.go` 57-148) | listener and accept loop; its own registry | `startSlave`, accept loop, exit when the parent goes away | parent (registration), R process (two pipes and `Wait`) |
| R process (`slave.go` 174-247) | `numWorkers`, `availableSlaves` | `slaveProc`: receive request, dial proxy, run program, ask daemon, relay, count | daemon by pipes; the ioProxy above; daemons below |
| program (`slave.go` 255-284) | - | `runLocal` | inherits the connection to the ioProxy above |
| ioProxy (`common.go` 385-414) | a goroutine per connection | accept, copy to the end, offer an id on `workerChan` | everything that runs below |
| delegation (`common.go` 331-372) | a goroutine that writes | copy the request, dial, send asynchronously | daemon below |
| node lists (`common.go` 430-463) | - | `parseNodeList` | master and R processes |
| filemarshal, typeapply | - | encode a value and then the files named in it | every request |
| packVisitor, ldd | visited sets | collect files, links, libraries | mexec |
| forth | a stack | evaluate `-myId`, `-parent`, `-myAddress` | `main` |
| web, bproc_*, utils, scripts | - | status pages (not started), system calls, launchers | - |

What is hard here: completion is *inferred*, at each level, from connections
that close, and compared with a count made earlier by someone else; requests
are written by goroutines that outlive the function that started them, from a
structure the caller goes on changing; each daemon serves one R process at a
time while any number of commands wait in its backlog; every process can die
between any two steps, and most error paths are a panic (`log_error`,
`common.go` 179-183); the registry is shared without a lock.

What makes it correct:

* *mexec*: the prompt returns, and only after everything has come to rest.
* *master*: the number it reports is the number of nodes it really asked.
* *daemon*: one R process at a time, and always another one after it.
* *R process*: it leaves only after its subtree; every node gets its own path.
* *registry*: the two maps agree; dead slaves go, live ones stay.
* *life cycle*: a node list reaches, level by level, the nodes it names; no
  circles of parents; the tree comes down with its master.
* *filemarshal*: the receiver gets the files the sender could read, or an error;
  what a failed read leaves out is not noticed.
* *typeapply*: no file of a value is missed, whatever was asked before.
* *packVisitor, ldd*: they end, with everything reachable, and nothing twice but
  links that lead back to themselves.

## Modules

| module | what it is |
|---|---|
| `Exec` | the core: mexec, master goroutine, daemons, R processes, programs and proxies of any number of commands in any tree |
| `CommandSpec` | the abstract promise of a command, without processes or connections |
| `MCExec` | small trees and requests for TLC |
| `ExecProofs` | type correctness, the inductive invariant and the safety theorems of `Exec` |
| `ExecRefinement` | the proof that `Exec` implements `CommandSpec` |
| `CommandProofs` | what follows from the abstract promise alone |
| `Registry`, `MCRegistry` | the maps of one daemon under its registrar, the goroutines of commands, and slaves that come, die and come back |
| `RegistryProofs` | type correctness, the inductive invariant and the safety theorems of `Registry` |
| `FileMarshal`, `MCFileMarshal` | the stream of a value and its files, over several connections one behind the other |
| `Transfer` | the abstract promise of a transfer of files down a chain of nodes |
| `FileMarshalProofs` | type correctness, the inductive invariant and the safety theorems of `FileMarshal`, and that it implements `Transfer` |
| `Ldd` | the search for the libraries of a program |
| `Pack`, `MCPack` | what `gproc e` takes along: the walks, and `Ldd` between them |
| `PackProofs` | the invariants of the walks and of the search, and what follows from them on any disk |
| `Forth` | the postfix language of the flags |
| `Lifecycle` | the daemons of a tree from their flags to their end; extends `Forth` |
| `LifecycleProofs` | type correctness, the inductive invariant and the safety theorems of `Lifecycle` |
| `NodeList` | the node lists of `gproc e`, as sequences of tokens; extends `Forth`, whose conversions of numbers it uses |
| `Selection`, `MCLifecycle` | which daemons of a tree a node list selects; extends `Lifecycle` and `NodeList` |
| `TypeApply`, `MCTypeApply` | what is kept about each type while files are looked for in values |
| `TypeApplyProofs` | type correctness, the inductive invariant and the safety theorems of `TypeApply` |

`Pack` composes with `Ldd` by extending it: its steps are the walks, and, while
it waits for the search, the steps of `Ldd`. The other modules meet at named
places: what `Pack` packs is the `Manifest` of `FileMarshal`; a delegation of
`Exec` is one connection of `FileMarshal`, whose `DecDone` is what `ChildRecv`
waits for, and the rule that a node passes files on only after it has received
them all is the order of `ChildRecv` and `RelayDial`; the set `reg` of `Exec`
is the domain of `table` in `Registry`, which shows what happens to it while it
changes; the tree that `Exec` takes for given is what `Lifecycle` builds, and
`SelectsByLevel` of `Selection` is about the same nodes that a request's selectors
name in `Exec`. That the encoder of `FileMarshal` meets every file of a request
is `NothingMissed` of `TypeApply`.

### Exec

The unit of the model is the *delegation* `<<c, g, n>>`: the request that
reaches node `n` for the `g`-th comma-separated group of command `c`. A
delegation names at once the connection that carries the `StartReq`, the R
process started for it, its program, and the connection back to the ioProxy one
level up; the request has exactly one of each. This is why the address of the
proxy (`Lserver`, rewritten by each relaying R process at `slave.go` 228-229)
needs no variable: it is the proxy of `Up(t)`, and `ProxyUp(t)` says whether the
process that listens there is alive.

| variables | code |
|---|---|
| `client`, `cneed` | where `startExecution` is, and its `numWorkers` |
| `serve`, `grp`, `mtodo`, `sub`, `nnodes` | the goroutine of `receiveCmds`: its loop over groups, `nodeSet`, `sendReq.Nodes`, `numnodes` |
| `daemon`, `cur`, `reg` | the accept loop and the process it waits for; `slaves` |
| `child`, `req`, `got`, `asked` | the main goroutine of the R process; the request it was sent; whether that has been written; whether it wrote its node list to the daemon |
| `avail`, `todo`, `need` | `availableSlaves`, those not dialled yet, `numWorkers` |
| `prog`, `io` | `runLocal` with its program; the ioProxy goroutine above |

One action is one stretch of a goroutine between two points at which another
can be seen: a dial, a write or read on a connection or pipe, a wait. An R
process receives (`ChildRecv`), dials the proxy and starts `runLocal`
(`ChildDial`), parses and asks (`ChildParse`), is answered (`DaemonReply`,
which also opens its proxy and counts its workers), relays (`RelayDial`,
`RelayDone`), counts (`ChildCount`) and leaves (`ChildExit`); `SendReq` is the
goroutine that writes a request. Early returns and panics are actions or
disjuncts of their own. Faults happen only if the constant `Faults` names them:
a daemon dies, an R process panics or is killed, a program cannot be started,
the user interrupts `gproc e`. A copy loop that cannot pass its output on
because the proxy above is gone panics with no fault at all (`common.go` 406).

What is abstracted: the bytes of output, files and requests; the strings of
node lists (a request is a sequence of groups, a group a sequence of selectors,
one per level); `-p` mounts; logging. A dial fails exactly when the daemon is
dead; otherwise it succeeds into the listener's backlog, which is not a queue
in the model but a set, since TCP promises no order between dialling processes.
All slaves have registered when the model starts.

`DaemonPipeClosed` deserves a word. A daemon whose R process ended without
writing its node list reads a pipe whose write end it holds itself
(`slave.go` 103), so nothing ends that read unless the garbage collector
happens to finalise the `*os.File`. The model allows the step and gives it no
fairness.

### CommandSpec

A command spreads as a set of open delegations; a node is only asked by one
that was asked and is still at it; nothing retires above something that is
open; the command finishes when no first-level delegation is open. A delegation
is open in `Exec` (see `Abs` there) from the dial until its R process and its
program have ended, and no longer once an R process above it has crashed: then
it is an *orphan*, nobody waits for it, and the specification says so
(`Retire` of a set closed downwards, `DelegateUnseen`).

### Registry

One daemon, the master, and the slaves that register with it. Each access to
one of the maps `Slaves` (`table`) and `Addr2id` (`addr2id`) is a step, because
nothing locks them: `Add` is `AddSlave` and `AddAddr`, `Remove` is `RemoveSlave`
and `RemoveAddr`, `Get` by address is `GetId` and `GetInfo`, and the expansion of
a node set looks up one id at a time (`CmdLookup`; the range over the map that
`.` stands for meets each id at most once too, in any order). `RegRecv` is the
registrar's accept together with the read of the vital data that follows in the
same loop iteration: the next connection waits for it. `SlaveStart`, `SlaveSend`
and `RegReply` are the slave's half.

Two accesses to a Go map at once may also make the runtime abort the process;
that is one of the outcomes of `MasterDies`, which may happen at any time. An
address is given to one slave only, so that it names an incarnation: the set
`Addr` bounds the number of restarts. The system may in fact hand out the port
of a dead daemon again; that case is left out, and listed as a hazard. A dial
succeeds exactly if somebody listens. For a slave that is itself a parent the
same registrar code runs, with its R processes dialling in the daemon's place;
those have no registry and never remove anything (`master.go` 56).

### FileMarshal

`Encode` and `Decode`, one gob value on the wire per step, on `Hops` connections
of which each starts at the node where the one before ends. The data are a
manifest (`Manifest`, the files as the encoder's walk meets them, a name
possibly more than once), the files of the receiving value (`Seen`, in the
order of *its* walk), and contents cut into chunks. `disk[0]` is the machine of
`gproc e`; `disk[h]` has at first what an earlier request left there. The
decoder's loop over the received list is `DecSkip`, `DecMake`, or `DecOpen`,
`DecChunk`..., `DecEnd`; the encoder's is `EncSkip`, or `EncOpen`, `EncChunk`...,
`EncEnd`. The two ends of the sender's read are kept apart: `fd` is what is in
the file it has open, `sent` what it has read of each file so far. `EncEnd` is
the loop's one way out (`src/src/filemarshal/filemarshal.go` 119-124), *any*
error of `ReadAt`: the end of the file, wherever that is by now, or a read that
fails, which closes the file with an empty slice just the same. Five faults are
modelled. A file of the master may vanish before it is opened (`Vanish`; `EncOpen`,
second disjunct: the error ends `Encode` and nobody closes the connection). It
may be written anew, shorter or longer, before it is opened or while it is read
(`Change`). A read may fail on any node, anywhere in a file (`EncEnd`, with "read"
in `Faults`). A sender may end at any moment, which loses any tail of what is on
its way (`Cut`). An older copy at the receiver may be a directory, which cannot
be opened for writing (`DecOpen`).

The history variable `torn` records which names a sender has, or has sent, other
than whole: those that were written anew, those of which a read failed, and those
that were torn where it got them. No end of the connection knows it: that a
receiver cannot tell a torn file from a whole one is what the run `shortread` shows,
and the properties say what is true of either kind.

`Transfer` says what a chain of such connections promises: a node goes from
*without* to *with* or to *failed*, gets the files only after the node above has
them, and keeps them; they are the master's but for the torn ones, and a file
torn on one node is torn on all below. `StateOf` is the refinement mapping: a
decoder that has succeeded counts as *with* only while its disk holds the very
contents of the master for every name of its own walk that is not torn; anything
else would be a state that `Transfer` does not have. `KeepsTransfer` is therefore
about all nodes at all times, where `Intact` looks at one decoder at its end, and
also says what it has of a torn file: what its sender has read.

Owners, permissions, link targets and the prefix of destinations are left out,
and so are write errors of a full disk. `DecMake` keeps whatever has the name
already, since the code drops those errors.

### Pack and Ldd

A path is a sequence of names; a file system a function from paths to nodes;
`disk`, the program and the flags are chosen in the initial state and do not
change. `Ldd` has the work list (`queue`, the channel of `ldd.go` 22, with its
capacity), the names dealt with (`known`) and the result. `Pack` has the
recursion of `filepath.Walk` and `VisitFile` as a stack: an entry is a path to
walk, or a link to be marked as visited when its target has been walked. A
directory is marked before its entries are walked (`mexec.go` 208), a link only
after (271). Where paths are joined, `.` and `..` are resolved as `path.Join`
does; where strings are put together the model follows the code: an absolute name
gets the root in front, a relative one without a root stays relative and is walked
and packed as it is (`Rooted`). A relative path is headed by the empty name;
`Place` is the file the system finds under a path, for `lstat` and for `open`,
from the working directory if the path is relative. So two paths may be one file,
and are then visited and packed as two, as in the code, whose table of visited
files has names in it. What a link means is resolved as the code does it, from
the names alone; links to directories in the middle of a path are not followed.

What may be packed twice is said with `Leads`, where the walk of a link or a
directory goes next, and `LeadsBack(l)`: whoever follows `l` through links and
directories that are packed comes to it again.

### Forth, Lifecycle, NodeList and Selection

`Lifecycle` starts where an administrator does: with the flags. `conf` is chosen
in the initial state and says of each daemon what its three programs come to on
its host; `Flags` evaluates them one after the other on one interpreter, as `main` does
(`main.go` 65-83), so that what a program leaves on the stack is there for the
next. `Forth` has one clause of `Apply` per operator with its errors; strings are
TLA+ strings, never taken apart: the number behind the letters of a host is
looked up (`Trims`), within the bound `Number`.

| variables | code |
|---|---|
| `phase` | how far the process is: dialled and vital data sent in `initSlave` (`slave.go` 150-158), answered ("up"), in `registerSlaves` ("listening") |
| `me` | `*myId`, `*myAddress`, `*parent` after evaluation |
| `link`, `queue` | the connection to the parent; the connections a listener has not accepted |
| `table` | `slaves.Slaves` |
| `job` | the R process started last, as far as `Exec` does not have it |

`Accept` is one whole turn of `registerSlaves`; what can happen inside it is
`Registry`. `End` is the end of a process with what the system does about it:
the connections of its children break, which `LosesParent` notices (`slave.go`
143-148 for a slave that serves, a panic for one that still registers), and its
entry in the parent's table leads nowhere until the id is used again. A slave
that dials and finds nobody panics, which leaves everything as it was. Removal
of dead slaves from the table is `Registry`'s; here they stay as `Dead`.
`ParseR` is the R process up to `flag.Parse`. Daemons may die at any time and be
started again any number of times. A registered connection whose `net.Conn` the
parent has replaced in its table may be closed by the garbage collector; what
comes of it for the slave is what `Dies` does anyhow.

`Get` is the look-up of a name in one table: a name that is not there goes
through `Addr2id`, which yields the empty string for it, so that a slave with
the empty id would answer for every unknown name. `GetFinds` says what a name
leads to while slaves with the same id, old connections in the queue and entries
of dead daemons are about: to the slave registered under it here and now, or
nowhere. That a registered slave is also found needs ids to differ
(`DistinctIds`), as those of the documented trees do; of two slaves with one id
the second hides the first.

`NodeList` takes a list as the sequence of its tokens. `Selected` in `Selection`
follows a list from the master down through the tables, as `ServIntersect` and
the R processes do. Of the sub-list an R process only uses the first group, as
`slaveProc` does. A bound of a range that is no number counts as 0, since the
errors of `Atoi` are dropped (`common.go` 538). `Selection` is a module of its own
because it is recursive, over levels of the tree, and `Lifecycle` is not.

`SelectsByLevel` is about the code's rule, that a list is matched against the ids
of one level at a time (`common.go` 430-463). README's `1-80`, "nodes 1 through 80"
(`src/README:83`), is the first-level nodes of these ids and no others, which in a
tree is less than README says. README's `1/.` (`src/README:85`) is among the lists of
the run: it selects what hangs under the slave with the id 1, which in the kane tree
is nobody, not the 20 nodes README names (see below).

### TypeApply

A program's types are a function from types to kinds and components, fields
with the flag whether they are public. The cache `m` has, for each type, whether
it can reach the target (`reach`, `visiting`) and its traverser; a traverser is
what it takes: through the `typeInfo` of a component, or by the function as it was
when captured, which may be the dummy.

The recursive functions are a machine with two stacks. `visits` are the calls of
`canReach` under way, each with the component it has come to: `VisitHidden`
passes over a field that is not exported, `VisitNew` enters a component's type,
`VisitKnown` takes the answer that is there, `VisitEnds` returns to the visit
below. `calls` are those of `getTraverserFunc`: each begins with a visit, then
either returns at once (`FuncKnown`, `NoInstance`, `Instance`) or leaves the
dummy (`Prime`), calls itself for each component (`TakePart`) and returns
(`FuncMade`); `Return` also does what the caller does with the result. `Do(x)`
starts when no call is under way, since the whole of it runs under `typeMutex`;
the walk of an interface value is a `Do` of the type it holds. A missing entry
and a fresh one ("dontKnow") behave the same and are one.

Two conditions in the properties mark flaws of the code; see below.

## Runs

| run | instance | checks |
|---|---|---|
| `live` | s1 above s2, two commands `./.`, no faults, fair | `OneChildPerNode`, `CommandsFinish`, `DaemonsComeBack` |
| `faults` | s1 above s2, one command `1/.,1/3-1`, all four faults | `TypeOK`, `CompletionSound`, `OwnPath`, `NumNodesExact`, `KeepsPromise` |
| `deep` | s1 above s2 above s3, one command `././.`, dying daemons and R processes | `ExitAfterSubtree`, `KeepsPromise` |
| `deadleaf` | the same chain, dying daemons | `WaitsForContacted`, *violated* |
| `registry` | two slaves, three addresses, two commands for everyone; symmetric | `TypeOK`, `ServerResolves`, `SteadySlavesStay` |
| `registration` | one slave that may come back twice, one command at a time, fair | `DeadArePruned`, `RegistrationEnds`, `SlavesExitWithMaster` |
| `mistaken` | one slave, one command | `RegisteredStay`, *violated* |
| `files` | five files on the list, two connections, older copies at the end, files vanish or are written anew, reads fail, connections break, fair | `TypeOK`, `InStep`, `Intact`, `KeepsTransfer`, `CutIsNoticed`, `Arrives` |
| `shortread` | the same files, reads fail | `SameData`, *violated* |
| `pack` | 96 file systems, two programs, four values of `-f`, both of `-localbin`, fair | `TypeOK`, `LibrariesTravel`, `LinksLead`, `PackedOnce`, `PackingEnds` |
| `tree` | a master and three slaves, four ways to start them, twelve node lists, deaths and restarts, fair | `TypeOK`, `NoCircle`, `SelectsByLevel`, `GetFinds`, `FlagsAsDocumented`, `TreeGoesDown` |
| `types` | about 6000 ways to declare three types and every order of calls | `TypeOK`, `CacheSound`, `NothingMissed`, `DummyUncalled` |

*Bounds.* Nothing in `Exec` grows without limit: each delegation is made at
most once, so the state space is finite for finite constants and no run has a
state constraint. The bounds are the constants. Two commands to the same two
nodes are enough for every contention between commands: both wait in the
backlog of s1 and of s2 and hold their proxies open meanwhile. Two groups with
the same first-level node are enough for one command to meet itself, and for a
path to be overwritten while the first request is being written. Three levels
are the least at which a process is neither at the top nor at the bottom, and
at which a crash in the middle orphans somebody. Faults are not limited in
number. There is no symmetry: positions in a tree differ.

In `Registry` the set of addresses is the bound. A slave has to come back once
for an old entry to exist, and twice for an old entry to meet another old one;
two commands are what it takes for two removals of the same server to
interleave with each other and with an addition. Slaves, addresses and commands
are interchangeable in the safety run, and the liveness run does without
symmetry. In `FileMarshal` the files are one of each kind that differs in the
stream: a program of two chunks that is met twice, an empty file, a directory and
a link; the second connection is the least that has a relay. What is written in
place of a file is of one chunk, so the program gets shorter by it and the empty
file longer. Faults are not limited in number. In `Pack` the libraries may import
themselves in a circle, one may be missing, damaged, found in either directory or
behind two links, or behind a link that names another file when it is walked from
the working directory, and be imported by any of the others. The user's directory
has a link back to itself; `-f` names nothing, the directory, that link, so that
the walk meets it again, or several things. The capacity 3 of the work list is the
most these file systems need: a full channel is not in this run. No disk of it has
a circle of links without a directory, in which the walk does not end.

In `Lifecycle` three slaves make a chain of three levels, or two blocks of which
one has a leaf. The four ways to start them are: the flags of `startkane.go`
(blocks of twenty under a node of their own); README's example (the rest
modulo 4: `slave0` and `slave4`), with a host that has no number; a chain; and everything on one system
with default flags. `FlagsAsDocumented` evaluates the flags on all hosts of the
cluster, 1 to 60 for the blocks and 4 to 60 for the remainders, not only on the
three that are started. `Number` (-20 to 60) covers every number these programs
compute; a number outside it would not be recognised as one, and `Eval` would
fail. The node lists have one to three levels, groups, ranges, a range that is
refused, and ranges with a name as either bound or both. A listener's backlog of two makes a third dial wait. Restarts are not
limited. In `TypeApply` values have the types `Args`: a, b and p, asked for in any
order and again; the others are met as components. Of these a is a struct of two fields, b a type of any kind and p
a pointer or an interface, which is enough for every way in which a type under
way is met again: directly, through a pointer, through the key or the element of
a map, and through an interface.

*Fairness.* `FairSpec` gives weak fairness to every goroutine of every process
(`ClientStep`, `MasterStep`, `DaemonStep`, `ChildStep`, `SendReq`, `IoEof`,
`ProgStart`), which is what the Go scheduler and TCP give to a runnable
goroutine, and to `ProgExit`: the program the user runs must end for the
command to end. There is none for the users (`ClientSend`, `ClientKilled`), for
faults, or for `DaemonPipeClosed`.

In `Registry` the goroutines of registrar and commands and the slaves' reaction
to their connections are fair; the start of slaves, the coming of commands and
every death are not. `DeadArePruned` is therefore said under the condition that
commands for everyone keep coming: nothing else ever removes a dead slave. In
`FileMarshal` both ends of every connection are fair, faults are not (a failed read
is a way for a read to end, which it must do some way). `Pack` is
one thread; it goes on while it can. In `Lifecycle` what a slave does by itself
(`SlaveStep`) and its reaction to a broken connection (`LosesParent`) are fair:
both are goroutines that can run. Neither starts, nor deaths, nor the accept
loop of a parent are: the tree must come down even if that loop is stuck.
`TreeGoesDown` assumes that the master stays away; only for slaves that may be
each other's parents in turn (default flags on one system) it also assumes that
somebody stops starting them.

*Deadlock* is not checked: when every command is finished, or a fault has left
something waiting for ever, the system really stops.

### Disagreements with comments and documents

* `deadleaf`. `slaveProc` counts a worker for each slave its daemon named
  (`slave.go` 231-233) and ignores how many of them could be dialled
  (`slave.go` 235). "Wait for all the children to finish execution"
  (`slave.go` 237) becomes waiting for a child that was never started. The
  master does the same thing right (`master.go` 52-53).
* `mistaken`. A node set holds addresses. If the slave behind one has been
  restarted since, the dial fails, `Get` goes from the old address, which
  nobody ever deleted, to the id and from there to the *new* entry
  (`common.go` 612), and `Remove` takes that out (`master.go` 56). The slave is
  up, was told it is registered, and is not asked any more.
* `shortread`. `Encode` leaves its loop at any error of `ReadAt`
  (`src/src/filemarshal/filemarshal.go` 119-121), where the end of the file is
  meant, and closes the file as if it were whole. The receiver's `Decode`
  succeeds, and what it has is not "a local temporary file holding the same data"
  (`src/src/filemarshal/filemarshal.go` 248).

Seen while the code was read and modelled, and without a run of their own:

* A daemon starts its R process with `-parent=...` (`slave.go` 112), a
  flag that `main` declares as `myParent` (`main.go` 47). `flag.Parse` exits, no
  request is read, and the daemon waits at `slave.go` 127, although "the process
  started, let's make some RpcClientServers on our end to communicate with it"
  (`slave.go` 121). README has the new name, the examples in `main.go` 56-62 the
  old one. With the program as it stands nothing would run on any node; `Exec`
  models the R process from `slaveProc` on, where the rest of the code takes it
  to be, and an R process that ends at once is one of the faults of `Exec`.
* "1/." is said to be "all second-level nodes under the first level-1
  node", and "in the kane config ... the first 20 nodes" (`src/README:85-86`).
  Names are looked up as ids (`common.go` 631); with the flags of `startkane.go`
  those of the upper nodes are 20, 40, ..., no slave of the master is called 1, and
  the list selects nobody.
* A malformed range below the first level (`1/3-1`) is refused by `slaveProc` only
  after its program was started and before it has written to its daemon; the
  accept loop stays blocked at `slave.go` 127. (`DaemonsComeBack` fails for such a
  request; the run `faults` has one.)
* "Some fields may not occur in the final type. To cope with this ..."
  (`src/src/filemarshal/filemarshal.go` 68); but a name the receiver does not
  know is skipped without its chunks, which then become the contents of the
  next file it does know. In gproc itself both ends have the type `StartReq`,
  which is what `MCFileMarshal` has.
* `Lddroot` returns paths that begin with the root, and `startExecution` puts the
  root in front of them once more (`mexec.go` 82); the walk of a path that does
  not exist is no error. `src/README:12` recommends the switch `-r` for this.
* `canReach` takes the answer of a map's keys as that of the map while it visits
  the elements (`src/src/typeapply/typeapply.go` 217). If it is "no", a type
  among the elements that leads back to the map concludes "no" for good, and
  its targets are missed, or not, depending on what was asked first. `Straight`
  in `TypeApply` excludes such maps.
* A pointer, slice or map captures the traverser of its elements by value. If a
  recursive struct is given to `Do` as a value, or held as one, that is the
  dummy, which panics when it is called, against the comment at
  `typeapply.go` 104-109. `ThroughPointers` excludes these. `StartReq` is neither.
* Fields that are not exported are ignored by `canReach` and walked by the
  traverser (`typeapply.go` 128-130), if their type can hold a target.
* `ifelse` takes the second element if the top is not 0, else the third
  (`src/src/forth/forth.go` 236-245); `src/README:41` says it the other way
  round. `strcat` in the comment of `main.go` 59, in `start.go` and in
  `startstrongbox.go` has its operands the other way round than `forth.go` has,
  and `base` there is no word any more; `startkane.go` has it right.
* On one system, which `src/README:16` allows for testing, a slave with default
  flags listens at the address the master has already, and panics
  (`ListenFails`).
* The retry loop of `runSlave` (`slave.go` 41-48) cannot be reached: `log_error`
  panics where it would have to return. So a slave whose parent is not up yet
  ends, and somebody has to start it again.

## Proofs

| theorem | module | statement |
|---|---|---|
| `TypeCorrect` | `ExecProofs` | `Spec => []TypeOK` |
| `Invariance` | `ExecProofs` | `Spec => []IInv` |
| `CompletionIsSound` | `ExecProofs` | `Spec => []CompletionSound` |
| `SubtreeEndsFirst` | `ExecProofs` | `Spec => []ExitAfterSubtree` |
| `OneAtATime` | `ExecProofs` | `Spec => []OneChildPerNode` |
| `CountIsExact` | `ExecProofs` | `Spec => []NumNodesExact` |
| `EachItsOwnPath` | `ExecProofs` | `Spec => []OwnPath` |
| `TreeIsForest` | `ExecRefinement` | the delegations are the forest `CommandSpec` assumes |
| `Implements` | `ExecRefinement` | `Spec => KeepsPromise` |
| `FinishedIsQuiescent` | `CommandProofs` | in a forest, `CommandSpec!Spec => []Quiescent` |
| `RegistryTypeCorrect` | `RegistryProofs` | `Spec => []TypeOK` |
| `RegistryInvariance` | `RegistryProofs` | `Spec => []IInv` |
| `MapsResolve` | `RegistryProofs` | `Spec => []ServerResolves` |
| `SteadyStay` | `RegistryProofs` | `Spec => []SteadySlavesStay` |
| `TypeCorrect` | `FileMarshalProofs` | `Spec => []TypeOK` |
| `Invariance` | `FileMarshalProofs` | `Spec => []IInv` |
| `StaysInStep` | `FileMarshalProofs` | `Spec => []InStep` |
| `ArriveIntact` | `FileMarshalProofs` | if `Harmless`, `Spec => []Intact` |
| `KeepsTheTransfer` | `FileMarshalProofs` | if `Harmless`, `Spec => KeepsTransfer` |
| `TypeCorrect` | `LifecycleProofs` | `Spec => []TypeOK` |
| `Invariance` | `LifecycleProofs` | `Spec => []IInv` |
| `NeverInCircles` | `LifecycleProofs` | `Spec => []NoCircle` |
| `NamesLead` | `LifecycleProofs` | `Spec => []GetFinds` |
| `BlocksHaveTops` | `LifecycleProofs` | what `roundup` and `%` make of hosts in blocks of any size |
| `LinksTravel` | `PackProofs` | `Spec => []LinksLead` |
| `TwiceOnlyInCircles` | `PackProofs` | `Spec => []PackedOnce` |
| `SearchIsComplete` | `PackProofs` | `Spec => []SearchComplete` |
| `TypeCorrect` | `PackProofs` | `Spec => []TypeOK` |
| `LibrariesGo` | `PackProofs` | `Spec => [](Plainly => LibrariesTravel)` |
| `TypeCorrect` | `TypeApplyProofs` | `Spec => []TypeOK` |
| `Invariance` | `TypeApplyProofs` | `Spec => []Inv` |
| `CacheIsSound` | `TypeApplyProofs` | `Spec => []CacheSound` |
| `NothingIsMissed` | `TypeApplyProofs` | `Spec => []NothingMissed` |
| `DummyIsUncalled` | `TypeApplyProofs` | `Spec => []DummyUncalled` |

*What they assume.* The ASSUMEs of the modules, which TLC evaluates in every
run. Most only say what a constant is. `TreeAssumption` (`Exec`) describes
`Parent` and `Above`, the ancestors below the master. `ValueAssumption`
(`FileMarshal`) says that sender and receiver have the same names: files go with
a `StartReq` only, and are received into one. `ConfAssumption` and `NoDaemons`
(`Lifecycle`) say that every daemon has flags and that the marks for "no daemon"
are none; nothing is assumed of the flags themselves. The assumptions of `Ldd` and
`Pack` say what a file system is, which is finite, and that roots, search paths,
working directories and the elements of `-f` are paths.
`DeclsAssumption` (`TypeApply`) says how many components a type of each kind has,
and that only fields can be hidden; types may refer to each other in any way,
even in ways Go does not allow, and there may be infinitely many.
`Harmless` is no assumption of the module but the hypothesis of two theorems:
nothing an earlier request left is longer than the file that replaces it, or of
another type, since the decoder opens its destinations without emptying them
(`src/src/filemarshal/filemarshal.go` 194). Without it both are false.

Otherwise everything is for any commands (in `Exec`, of any finite set of
delegations) and requests, any tree, any chain of
nodes, any files and any disks, any daemons, any types, and with all faults.

None of the safety properties is inductive; what follows is why each holds.

### Exec

`CompletionSound` says something only of
commands that are done, while what makes it true happens levels below and long
before. The inductive invariant `IInv` is the conjunction of what the parts
know of each other:

* `LoopInv`: what an accept loop waits for (`cur`) is a single delegation of its
  node, and every R process that runs is the one its node's loop waits for;
* `TreeInv`: a delegation below another exists only if that one got as far as
  relaying, and was named to it;
* `IoInv`: the proxy goroutine, the program and the R process of a delegation
  agree: a connection reported as closed means both ended;
* `ServeInv`: how far the master's loop has come, and which delegations it has
  made;
* `CountInv`: `cneed` and `need` are the cardinality of the sets they count (for
  a relaying process: an upper bound that includes what could not be dialled);
* `RootedInv`: a delegation at work has every delegation above it at work, or is
  an orphan;
* `DoneInv`: a command that is done has no open first-level delegation.

The refinement needs two more facts, `IdleInv` (nothing exists of a command
not yet sent) and `ChainInv` (above an existing delegation the whole way up
exists). Each step of `Exec` maps to one step of `CommandSpec` or to a stutter:
`ClientSend` to `Issue`, a successful dial to `Delegate` or `DelegateUnseen`, the
end of an R process or program to `Retire`, of the delegation alone or with all
that its crash orphans, `ClientDone` to `Finish`.

`OwnPath` needs `PathInv`: while a group is being worked on, `sub` is its rest,
and what a delegation carries is what is left of its group at the depth of its
node. `ServeInv` and `TreeInv` supply that what is dialled is of the group being
worked on, or is named to the process that dials it and is one level below.

### Registry

A removal always aims at an address nobody listens on, and such an
address never comes back. Its `IInv` says, beside `TypeOK` and the two
properties: what a slave's phase says of its address (`SlaveInv`); that both
maps only hold addresses under the id they were given to (`EntryInv`); that a
goroutine which looks for something to remove has failed to dial an address of
the very slave it will remove (`DeadInv`), so that this slave has been
restarted or is dead, which is why `SteadySlavesStay` speaks of slaves that
were never restarted; that an address still to be entered is neither in the
table nor about to be removed, and is entered once (`NewInv`); that between the
two deletions of a removal the server does not come back (`ForgetInv`).

### FileMarshal

The stream of a connection is a sequence of *positions*: the value, the names,
and then for each regular file on the list its chunks and its end; directories,
links and names met before take no room. How long a file is on the wire is known
only when the sender has closed it, since a read may fail and the file may
change. So the chunks of the stream are not those of a disk but those the sender
has read (`sent`), and the stream grows at its end only: `Growth` says how, and
that what has been said of a stretch of it stays true (`Grown`). `After` is the
position that follows.
The core of the invariant is `Framed`: there is a sequence of positions, each
following the one before, which starts where the decoder is, has the messages
on the connection, and ends where the encoder is. After a fault one of the two
ends is free. `InStep` falls out, since both have come to the end of the list
when they are done. `Phases` keeps the program counters together, and has the
decoder close no file before the encoder does. `Copied`
says what a disk looks like on the way: every file received so far is what was
sent, laid over what was there before (`Laid`), and what has not been reached is
untouched. None of this depends on what is read.

What does is in `Faithful`: of a file that is not torn the sender has read just
what it should, all of it once it is closed; `Fresh` says that it has read nothing
of the files it has not come to, `MasterHas` that the master's files are what they
were, gone, or torn, and `TornFiles` that only regular files are torn. `Follows`
says that a node sends only when it has received all, so that its disk, the source
of the next connection, is at rest, and that what is torn above is torn below.

Only then does `Harmless` come in. `Exact`, by induction along the
chain, says that every node that sends has the master's files, but for the torn
ones, and from it and `Copied` follow `Intact` and the refinement: `DecDone` is the
one step that `Transfer` sees as a delivery, with the torn files of the sender,
`DecFails` as a failure, all others are stutters.

### Lifecycle

`NoCircle` is inductive only together with what makes a dial land on a
daemon that is *listening*, and a dialling daemon one that nobody is connected to
(`Hears`, `Quiet`): a new connection starts at a slave with nothing below it. That
a name leads to the right slave depends on everything that is still in a queue:
an entry told by a slave that has died since must be accepted before that of its
successor, never after. `Queued` says that what waits is from a slave still in
the registration or is left over, `Once` and `LastAlive` that of the entries of
one slave, and with distinct ids of one id, only the last can be alive; `Tabled`
that a table names slaves registered here under their own id; and `Found`
that nothing waits that could push out a registered slave.

`BlocksHaveTops` is the part of `FlagsAsDocumented` that does not depend on how a
number is written: `Compute("roundup", n, b)` is the top of the block of b
numbers that n is in, whatever n and b, and `Compute("%", n, b)` is zero for the
top only. It needs that a number has one quotient and one remainder
(`OneQuotient`), Go's division of numbers that are not negative being that.

### Pack and Ldd

`PInv` accounts for what is packed in terms of the stack: what a packed link
leads to is packed or on the stack as a walk (`Waiting`); what is packed and not
marked is a link whose mark is on the stack (`Marked`); and whatever is on the
stack above a link's mark can be come to from that link (`Inside`). So a
path that is packed a second time is a link one comes back to (`ComesBack`, by way
of sets closed under where packed paths lead, which avoids recursion). The more
is packed the fewer sets are closed, so that this stays true once it is.
`BackThroughThePacked` takes it to `LeadsBack` of `Pack`, which only looks at sets
of packed links and directories and can be evaluated. The disk may have circles.

`SInv` accounts for the names in the search: the program and all that an opened
file imports is known, in the work list, or about to be put there (`Taken`); a
name that is known has been opened and listed, or is what some link reads. When
the search ends well nothing is left in the work list. The second half of that
"or" is not idle: `Lddroot` takes a name a link reads for known without looking
for it along the search path, so the file of that name in another directory
would not be looked at.

`LibrariesTravel` puts the two together. `Plainly` is its hypothesis: no root is
given, none of the needed files is kept back by the master, and no needed name is
what a link on the disk reads; without each of these the code leaves libraries
behind. Then the names that are both needed and known are a set that has the
program and all that its members import, so everything needed is known
(`NeededIsKnown`), and opened and listed. `ListReached`: what is listed is packed,
or on the list of walks, or on the stack, or does not exist, from the moment
`startExecution` turns the list into walks. Where a chain of links ends is the
value of a recursive function; it lies in every set of paths that has what the
links in it lead to (`EndsWithin`), such as the set of paths that do not exist or
are packed, by `LinksLead`. `EndsWithin`, `CleanIsPath` (for `TypeOK`) and
`WalksAreAll` all rest on two lemmas about functions in which each value comes
from the one before: there is one (`IterationExists`), and what passes from value
to value holds of the last (`Carried`).

### TypeApply

The difficulty is a "no" concluded while types that lead back to each other are
undecided. `Stacks` and `Callers` say how the two stacks fit the cache: the
marked types are those being visited, each once; a visit leads to all above it;
the dummy stands for the calls that are making a traverser; and a type has a
traverser only with a "yes", which is never forgotten. `Sound` says what the
answers mean on the way. `DeadEnds`: as long as the answer of a visit is not "yes",
what it is done with leads to the target at most through types that are being
visited themselves, at this place of the stack or below it; this is said with
`Dead(S)`, the union of all sets of types that can be left only to a type of
`S`. When the visit ends, its own type drops out of `S` (`DeadBelow`), and when
the lowest one ends nothing is left of `S`: only then, in `NoInstance`, does
`getTraverserFunc` turn "dontKnow" into "no". `NoSoFar`: a visit has a "no" only
if all it is done with can hold no target. This is what a map violates
whose keys have settled the matter before its elements are visited, hence the
condition `Straight`.

`NothingMissed` then follows from `TakesAll`, which says the same of traversers that
are still being made, of the components they are done with: a component for
which nothing was taken has come back with a "no", which is right.

`DummyUncalled` needs the history of a type. When a component of type s is met
while the traverser of s is still being made, s is somewhere on the stack of
calls, below the type q whose component it is; each call on the stack stands at
a component of the type of the next (`CallEdge`), so s leads to q, and from the
first call, which is of a type that was asked for (`FirstAsked`), s was come to
without q, since the types of calls under way are distinct. That is just what
`ThroughPointers` excludes when q is not a struct. What holds of a stack
all along is shown with the least place at which it would fail (`AlongCalls`).

### What is only model-checked

* Everything temporal but refinements and action properties: `CommandsFinish`,
  `DaemonsComeBack`, `DeadArePruned`, `RegistrationEnds`, `SlavesExitWithMaster`,
  `CutIsNoticed`, `Arrives`, `PackingEnds`, `TreeGoesDown`. The proof system has
  neither fairness nor ENABLED.
* What a program computes from data: `FlagsAsDocumented` (what three `Forth`
  programs leave on a stack for 117 hosts; `BlocksHaveTops` is its arithmetic) and
  `SelectsByLevel` (the parsing of a list at each level, recursively).
* `LibrariesTravel` on all disks and for all flags: it is not true without
  `Plainly`.

Induction over data is not available in general. The least element of a set of
numbers is (`WFMin`), and serves where a proof needs the first occurrence of
something: of a file in a list, of a library on the search path, of a call
on a stack, or the first value of a recursive function that breaks a rule.

## Plan

Done, in this order: `Exec` and `CommandSpec` with their proofs; `Registry` and
its proofs; `FileMarshal`; `Ldd` and `Pack`; `Transfer`; `Forth`, `NodeList` and
`Lifecycle`; `TypeApply`; the theorems about `FileMarshal`, `OwnPath`, `Lifecycle`,
`Pack` and `TypeApply`. What could come next is what a list of nodes selects
(`Selection`) for every list, by the same lemmas that serve `Clean` and `Walks`,
once the parsing of `NodeList` is written as functions of one sequence.

## Not modelled

The web pages (their start is commented out, `master.go` 29), the system-call
glue in `bproc_*.go` with private mounts and credentials, the wrappers
`RpcClientServer`, `Dial` and `Listen`, the launchers in `utils` and `scripts`
(their flags are instances of `Lifecycle`), the choice of the mode in `main` and
logging keep no state that a property could be about. `gproc i` reads `Addr2id`
once and prints it. The `x` command is commented out in `main.go` 114, so nobody
writes the map `exceptFiles` while other goroutines read it. `netaddr` and the
one `vitalData` that all command goroutines share are in the list of hazards.
