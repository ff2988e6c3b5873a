# FastShare: TLA+ models and proofs

FastShare sends a file over UDP from a sender to a receiver, both driven by one
Python process with an HTTP API, and shows the transfer in a web page. This
directory holds TLA+ models of it, the TLC configurations that check them, and
machine-checked proofs about them. Paths below are relative to the repository
(`src/`); `backend/` stands for `src/backend/`, `frontend/` for `src/frontend/`.

1. [The system](#1-the-system)
2. [The modules and the code](#2-the-modules-and-the-code)
3. [What is checked](#3-what-is-checked)
4. [Bounds](#4-bounds)
5. [Fairness](#5-fairness)
6. [What is proved](#6-what-is-proved)
7. [Disagreements between texts and code](#7-disagreements-between-texts-and-code)
8. [What is not modelled](#8-what-is-not-modelled)
9. [Plan](#9-plan)

## 1. The system

Threads of the backend process: the API threads (one per request), one sending
thread per transfer, one receiving thread per started receiver, and, with a
topology, one child process with a reader thread per node (`topology_isolated`,
on by default) or two threads per forwarder. They meet in the `TransferManager`
(one reentrant lock), in the topology manager (a lock of its own and a lifecycle
lock for the nodes), in the receiver's session, in the scheduler, in the
receiver's directory and in UDP sockets. The page polls the API every so often
and makes calls when a button is pressed.

| component | state | operations | talks to | what makes it correct |
|---|---|---|---|---|
| protocol (`udp/protocol.py`, `packet.py`) | none | cut a file into numbered packets, build and parse datagrams | both ends | both ends count the same packets |
| sender (`udp/client.py`) | stop flag, packet, attempt, socket | START handshake, resume, Stop-and-Wait, retries, END, cancel | receiver by UDP; controller by callbacks | ends; sends each packet until acknowledged; takes no ACK for another |
| receiver (`udp/server.py`) | session (expected packet, open file), directory | START / DATA / END handlers, `reset_session` | sender by ACKs; directory | writes each packet once and in order; publishes whole files only |
| resume store (`udp/resume_fs.py`) | `.part` files with `.meta` sidecars | find, resume point, discard | receiver, API | a resume continues on a packet boundary of a prefix of the same file |
| controller (`transfer/manager.py`) | status of receiver and transfer, counters, configuration | start/stop receiver, start/cancel transfer, discard leftover, finish, counters, snapshots | everything, by calls and callbacks | one transfer at a time; the outcome reported is what happened |
| event log (`transfer/event_log.py`) | packet table, ring of transitions, ids | record, reset, drain with a cursor | controller, page | ids grow; the cursor loses nothing silently |
| statistics (`transfer/stats.py`) | samples | rates, smoothed round-trip time | controller, panels | the numbers agree with each other |
| path scheduler (`udp/scheduler.py`) | per-lane window, flags, rotation | pick, record, state | sender, status polls | flags follow losses with hysteresis; a flagged lane can recover |
| forwarder (`topology/forwarder.py`) | route, learnt client, delay queue, counters | forward, delay, drop | UDP | answers go to the current client; frames reach the receiver |
| node processes (`topology/process_node.py`, `node_main.py`) | child, reader, cached settings and route | spawn, command, request, stop | pipes | no child is left behind; a new child behaves as the old; nothing waits for ever but a write to a full pipe |
| topology manager (`topology/manager.py`) | preset, picks, handles, route | switch preset, boot, stop, prepare a transfer | controller, forwarders | no forwarder without an owner; a started transfer finds its route up |
| topology graph (`topology/graph.py`) | none | presets, all simple paths | topology manager | paths are simple, disjoint and ordered |
| HTTP API (`api/`) | uploads on disk | thin handlers | controller | - |
| page: polling (`useStatusPolling.ts`) | what it shows, cursor | poll, refresh | API | shows the outcome; takes each event once |
| page: files and buttons (`TransferDock.tsx`, `page.tsx`, `useTransferActions.ts`, `useResume.ts`) | chosen file, offer, lock of the buttons | choose, start, cancel, test | API | the buttons come back; nothing is offered that cannot be done |
| page: forms (`TransferConfigCard.tsx`, `ConfigTab.tsx`, `TestingPanel.tsx`, `NodeInspector.tsx`) | drafts, selection | edit, save, follow the polls | API | no draft lost, none shown as saved |
| page: route picker (`RoutePicker.tsx`) | pick of source and destination | pick, switch preset | topology manager | the pick fits the graph |
| page: canvas (`canvas.ts`, `anim.ts`, `PacketLayer.tsx`, `TopologyCanvas.tsx`, `PathSwitchHud.tsx`, `StatsTab.tsx`) | dots, cursor | ingest a batch, draw frames | polling | draws each event once, an ACK only of an ACK, colours that mean one thing |

What is hard here: threads that act between the lock and the calls made after it
(`cancel_transfer`, `start_transfer`, `start_server`, `node_config`), ACKs lost
after the data was written, a receiver, a node or the whole process that goes
away between two packets, partial files that outlive their transfer and are
continued by another one, disk errors between the steps of a handler, datagrams
without a transfer id on lanes, rings that overflow between two polls, and a page
that acts on what it was told some time ago. `PROJECT.json` ("hazards") lists
each at its line with the property that watches it.

## 2. The modules and the code

```
UDPProtocol --- Datagrams --- UDPClient ---+
     |              |                      +--- FileTransfer --- TransferProgress
     +-- ResumeStore --- UDPServer --------+         |
     +-- Delivery  <------ implemented by -----------+--- FileTransferInvariant --- FileTransferClaims
EventLog --- StatusPolling
Canvas --- PacketLayer                       PathScheduler --- LaneHealth (with Canvas)
TopologyGraph --- TopologyManager --- RoutePick
Dashboard        Panels        NodeProcess
```

| module | models | state and actions |
|---|---|---|
| `UDPProtocol` | `udp/protocol.py` and the arithmetic both ends share | packets of a file, kinds of datagrams, the resume metadata of a START ACK (packets and bytes). A file stands for a (name, size) pair, which is all the receiver compares; a content is a sequence of units `<<file, version, position>>` |
| `Datagrams` | the UDP path | `toServer`, `toClient`, `sock`; `LoseDatagram`, `LoseAck` |
| `ResumeStore` | `udp/resume_fs.py` | a directory maps a path `<<stamp, file>>` to a `.part` with its sidecar's packet size; the operators of the module are its functions. The code's path has the second and the name but not the size, so no two `Files` of an instance share a name |
| `UDPServer` | `udp/server.py` | `listening`, `session`, `parts`, `finals`; one action per outcome of a handler. `_handle` holds the session lock throughout, so a handler is one step |
| `UDPClient` | `udp/client.py` | `pc`, `job`, `seq`, `attempt`, `stop`; one action per step of the sending thread between two places where another thread can be seen |
| `FileTransfer` | composition, and the controller's part of a transfer (`transfer/manager.py`) | `bound`, `status`, `cancelRequested`, `canceller`, `transfers`; receiver and transfer start and stop, cancel in three steps, discard, crash |
| `Delivery` | the promise, without packets | files appear whole and at once; "completed" only for a published file |
| `TransferProgress` | the counters of `transfer/manager.py` and `stats.py`, the configured packet size, and the numbers of the progress and telemetry panels | extends every step of `FileTransfer` by what `emit_packet` and `_on_resume` count, the latter from the bytes the receiver says it has |
| `EventLog` | `transfer/event_log.py` | `nextId`, `stream`, `table`, `order` |
| `StatusPolling` | `frontend/hooks/useStatusPolling.ts` with the two reads of `api/endpoints/transfer.py` | a tick in four steps, a refresh in two, against transfers that begin, emit and end |
| `PathScheduler` | `udp/scheduler.py` | `history`, `flagged`, `picks`, `rr`, and `bad`, the lanes that lose at the moment; `Attempt`, `SendFails`, `PathsChange` |
| `LaneHealth` | what `state()` tells the page and the canvas makes of it | no state of its own: operators on `PathScheduler`'s |
| `Canvas` | `frontend/lib/canvas.ts`, `anim.ts` | pure operators: graph, lanes, colours, where a dot is |
| `PacketLayer` | `frontend/components/PacketLayer.tsx` | `dots` and the layer's refs against a sender that logs the transitions of START, DATA, END and of a resume's replay, and polls that bring them; one action per batch, status change and kind of frame |
| `Dashboard` | file selection, resume offer, buttons, Run Test and their calls | `calls`, `checks`, `busy`, `offer`, `shown`; a press, its handling by the controller, its answer and the refresh are steps of their own |
| `Panels` | the five forms over settings | `form`, `shown`, `server`, `selected`, `calls`; edit, save, select, switch tabs, and the answers and polls the forms follow |
| `TopologyGraph` | `topology/graph.py`, the hops of `prepare_transfer`, the decision of `forwarder.py` | pure operators |
| `TopologyManager` | `start_server`, `stop_server`, `start_transfer`, `set_preset` with `topology/manager.py` | `preset`, `receivers`, `up`, `hops`, `route`, `lifecycle`, `calls`; each call on a thread of its own, in the steps other calls can come between |
| `RoutePick` | the page's pick and preset, on top of `TopologyManager` | `routePick`, `presses`, `shown`, `running`, `tick`: what is asked of the server and what is shown of the answer are two steps, in a poll and in a refresh |
| `NodeProcess` | `topology/process_node.py`, `node_main.py` | `proc`, `ready`, `cfg`, `route`, the children with their pipes and readers, the two threads that call, the polls, and who waits for room in a pipe with `_io_lock` (`waits`) |
| `FileTransferInvariant` | - | the inductive invariant of the proof and its assumptions |
| `FileTransferClaims` | - | what texts of the repository say and the code does not keep |
| `*Proofs` | - | see section 6 |
| `MC*` | - | instances for TLC |

Decisions a reader should know.

Transfers:

- **Data** are units, not bytes; a packet is `ps` units. Content that differs is
  a different *version*. Corruption that the CRC-32 check finds is loss.
- **Stamps.** A `.part` is named by the second its transfer began. The model lets
  every START see any stamp, an earlier one or the same again included, since
  transfers may share a second and the local clock may go back.
- **The file buffer.** What is written is in `parts` at once. A crash, or a flush
  that fails when the file is closed, keeps an arbitrary prefix of the open
  `.part`.
- **Disk faults** are switched on by name in `Faults`; the comment in `UDPServer`
  says what each is. A failed removal may still lose the sidecar (`NoSidecar`).
- **`stop_server`** is one step of `FileTransfer`: the thread is joined before the
  call returns. `TopologyManager` takes it apart where other calls matter.
- **Cancel** is three steps, as in the code: flag and references under the lock,
  `client.cancel()`, `server.reset_session()`. Between them anything may happen,
  the next transfer included. `canceller.holds` remembers whether the objects
  looked up are still the current ones. One cancel call is in progress at a time.
- **Lanes** (`Direct = FALSE`) over-approximate the forwarders: any datagram may
  overtake any other, survive its socket and reach the next transfer's client.
- **Sender and counters.** One attempt (marks and `send`) is one step of
  `TransferProgress`; the marks are made under the manager lock and nothing in
  the counters depends on the moment between them.
- **Replay on resume.** `_on_resume` adds up one ACK per packet held. The sum is
  written in closed form (`Covered`), with the *configured* packet size, which is
  what the code reads, not the one of the transfer. What is called reused, and what
  a long resume adds, is the byte count of the START ACK, which the receiver worked
  out with the packet size of its session.
- **`send_file` raises** (`"sender"` in `Faults`) where it resolves the address or
  looks for the upload, where it opens the file behind the handshake, and where it
  reads the next packet.

Scheduler and topology:

- **Per cent and rounding.** A loss is `1.0 - delivered / attempts` in floating
  point. `Reaches` and `Recovers` compare integers, and whether a loss *equal* to
  a threshold counts is a constant of its own for each (`FlagsAt`, `RecoversAt`).
- **Random choice.** `random.choices` may take any lane of positive weight.
- **Ports** are nodes. A forwarder cannot bind where a receiver is, nor the other
  way round; two receivers may share a port for the moment of a restart.
- **Calls** of `TopologyManager` are cut where the manager lock is let go, the
  lifecycle lock is waited for, or a receiver is started or stopped outside both.
  Its initial state is the one after a first `start_server`.
- **`late`, `astray`** are history: a boot that came behind a stop; a preset switch
  that passed the page by. They name the races section 7 shows and guard nothing.
- **A node's process.** Nobody looks at the result of a request, so tags and
  replies are left out and a wait ends at any time, answered or not. A child may
  be slow for ever, hang or die at each step. A pipe holds `PipeSize` commands; a
  write to the full pipe of a living child waits, without a timeout and with the
  lock (`Blocks`). `apart` is history: no two calls
  that change the node overlapped, and no reader of an earlier child was left at
  a spawn.

Page:

- **Polling.** The answers of one tick are read at three different moments. A
  request may fail at each (`RoutePick` has the two of them, status and topology,
  that the pick depends on); `Emit` lets any packet have a transition at any time
  of a transfer, which covers the sender's order. One refresh is open at a time.
- **Frames** take no notice of time: a dot may arrive, and a red one fade, at any
  frame. `Retraces` looks at every moment of its way: where an ACK dot is, as a share
  of its link, the dot on the way there was as long before its end.
- **Calls of the page** may be handled in any order and may be lost on the way
  there (nothing happened) or back (it did).
- **Forms.** A form's fields are one value. Two inspectors of the selected node
  may be mounted at once (the tab and the card on the canvas).

History variables of the transfer: `intact` (nothing but START and END took the
session away since the transfer began), `steady` (since then the configured packet
size was not changed, and the session resumed from was one of this packet size), `onWire` (what was handed to the socket), `acked`, `faults`,
`startedBy`. They guard nothing.

## 3. What is checked

Twelve runs, which all pass (sizes with two workers):

| run | question | result |
|---|---|---|
| `direct` | single path, two files, last packet short, crashes and every disk fault but the torn write | `TypeOK`; the inductive invariant `IntegrityInv`; `Lockstep`: the receiver expects the packet the sender is at or the next; `CompletedIsPublished`. 1.3M states |
| `recovery` | three attempts at one file of three packets; crashes cut the open file at any unit | `Integrity`; `OneLeftoverPerFile`: leftovers never pile up, so the first match of `find_partial` is the only one; `Delivers`: the refinement of `Delivery`. 1.3M states |
| `lanes` | reordering, late datagrams and ACKs, locked leftovers | `IntegrityInv` with a single file. 1.3M states |
| `live` | loss, cancels, stops, discards; fair threads | `TransferEnds`, `CancelIsReported`. 98k states |
| `progress` | the dashboard's counters; two packet sizes, changed at any time; three transfers; crash; resume by replay and by summary | `ProgressIsThePrefix`: the packets confirmed are always exactly the acknowledged prefix, resumed part included, and sequence, samples and bar agree; while `steady`, so are the bytes, with the goodput no more than the wire and what is left; `ConfirmedIsHeld`: what is shown as confirmed is in the receiver's file. 3.8M states |
| `polling` | rings that overflow, failed polls, late refreshes, two transfers | `LogConsistent`: types, bounds, and table, order and ring agree; `ComesOnce`: no event twice or out of order; `ShowsOutcome`: the page ends up showing the outcome and the last rows. 877k states |
| `scheduler` | three lanes whose losses come and go, any node down | `Hysteresis`: a flag stays between its thresholds; `NoFlapping`: it moves by an outcome of its own lane, in the right direction; `FlagsClear`: lanes that stop losing come back; `GreenIsPreferred`: the green lane is one the scheduler weighs most; `OneColourPerLane`: links, nodes and lists agree on a lane's colour. 115k states |
| `animation` | two transfers with START, DATA and END, resumed or not, over a path with nodes, at both speeds, with a page that lags behind | `OneDotPerPacket`; `AcksAreReal`: an ACK dot only of a packet acknowledged or replayed, and it retraces the way; `AckComesBack`: it turns round whether the ACK came before or after the dot arrived; `Drains`: the canvas ends up empty. 565k states |
| `page` | a user who chooses, presses, cancels, discards and tests while answers are late or lost | `WayOn`: a page at rest that knows the truth offers something the controller will do; `LockIsLifted`; `CancelStopsNothingLater`: a cancel stops no transfer started after it; `TestHasItsFaults`: a test runs with its own faults. 999k states |
| `panels` | drafts against polls, saves, other forms, other clients, selection and tabs | `TypeOK`; `UnsavedIsMarked`: a form that shows anything but what is in force is marked dirty; `DraftKept`: only its own successful save replaces a draft; `FormsConverge`: untouched forms end up with what is in force. 374k states |
| `topology` | two API threads and a page on the shipped presets; polls and refreshes whose answers are shown late | `PageTypeOK`; `NoGhosts`: no forwarder without an owner; `LockHasItsHolder`: every way out gives the lifecycle lock back; `PickFollowsPreset`: at rest the pick is of the graph in force; `ReadyWhenStarted`: a start that met no other request finds receiver, forwarders and hops of its route. 470k states |
| `nodes` | two threads, the polls, and children that are slow, hang, fail to bind or die behind pipes that fill up | `NoOrphan`: no child that nobody knows; `CachesReachTheChild`: the child that is up has the settings and the route remembered; `CallsReturn`: a call returns, unless it has a write to make and someone waits for ever for room in the pipe of a child that does not read. 886k states |

`MCRoutePick` also makes TLC evaluate an assumption of the theorems: every pick of
the shipped presets has lanes between its own ends over nodes of its graph, the
first of which delivers, and that it has as many hops as the page counts (`ShippedDeliver`).

Every property has a mutant: an operator in the module of the code, commented
"Mutant of ...", which makes a plausible mistake (a retry without limit, a torn
tail that is kept, ids that start again, a poll that stays in flight, a child
left to itself). Put in place of the original it makes TLC report that property.

`Integrity` is the central one: every `.part` is a prefix, and every published
file the whole, of one version of its file. `Delivers` says the same from
outside: whatever threads, losses and crashes do, an observer of the directory
and of `transfer_status` sees files appear whole, and "completed" only when the
file is there or somebody took the receiver away.

## 4. Bounds

Transfers. `MaxRetries = 1` (the code: 5) gives a first attempt, a retry and the
last failure; `NetCap` 1 or 2 datagrams each way let a duplicate meet the datagram
it repeats; a datagram too many is dropped as by a full buffer. Files have 2 to 5
units in packets of 1 or 2 (in `progress` of 2 or 3, one file of 3): a last packet that is short, a resume in front of,
inside and behind a packet, and a `.part` below one packet all occur.
`MaxTransfers` 2 or 3: a leftover, its continuation, and a third attempt that
meets what the second left. `MaxClock = 1`: equal, later and earlier stamps.
`FewInFlight` (run `lanes`) limits the datagrams of both ways together to two.
`ReplayLimit = 1` puts one resume point on each side of it. The three transfers of
`progress` are what it takes to resume on a session of another packet size: one that
leaves a `.part`, one that resumes it and fails, one that meets the second's session.

Event log: a ring of three, answers of two and a table of one row less than there
are packets, so that each limit is passed separately; five events.

Scheduler: three lanes, a window of three judged from two samples on, one attempt
each to explore: a lane can be flagged, slide its window, be between the
thresholds and recover. 50 and 30 per cent separate one, two and three losses of
two or three; a probe share of 30 is the largest the page offers.

Animation: START, one DATA packet and END, one retry and six transitions
retransmit START, acknowledge it late, replay the packet, and send the same numbers
again in a second transfer; a packet given up needs a seventh and is drawn as a
timeout is. Slow motion admits one dot, so that a second has to wait. The links have
latencies 1, 2 and 3: a way back that took the times of its links in the wrong order
would be seen.

Page: one file (the second would repeat it; `Claim_offer.cfg` has two), three
presses and two calls at once: an action, one on its late answer, and one more.

Panels: two nodes, two settings, two edits, two presses: a draft saved, a second
edit during the save, and another node to select.

Topology: the presets that ship, two threads, and a pick that moves the destination
to a router (`a2`). Without a page five requests: a start, a stop in it, a second
start, a switch and one more. With a page three: its switch, another client's request
in it, and one on what it shows by then.

Nodes: two children, two calls of the one thread, one of the other and one poll: a
child spawned, what follows it, a call and a poll in between; two settings, one route.
The pipe holds one command: a second waits while the child does not read. The
system's holds some kilobytes, which a page that polls twice a second takes minutes to
fill; how many makes no difference to what a full one does. Deadlock
is not checked there: when the calls are used up and the children are dead
nothing is left to do. The other runs check it.

## 5. Fairness

`FileTransfer!FairSpec` assumes weak fairness of the sending thread (every wait
in `_wait_ack` ends by its timer, `Timeout` is always enabled in `wait`), of the
receiving thread (it polls its socket every 0.2 s) and of the two calls a cancel
has left to make. Nothing is assumed of the network: `TransferEnds` holds when
everything is lost. No user action is fair.

`StatusPolling!FairSpec` assumes that transfers end (which `TransferEnds` shows),
that the page's interval goes on (weak fairness of `TickStatus`), that not every
poll fails (strong fairness of the answers) and that a refresh is answered.
`PacketLayer` assumes the same of its polls, and that frames are drawn
(`requestAnimationFrame`).

`PathScheduler` assumes strong fairness of an attempt on each lane: the transfer
goes on, `random.choices` takes a lane of positive weight again and again, and not
every send on a lane raises. Without it a lane would never be tried.

`Dashboard` assumes that every request ends, with an answer or an error (`fetch`
does), and that the promise goes on. `Panels` assumes polls only. `NodeProcess`
assumes the threads of the backend (each wait has a timeout, a write into a pipe with
room is made, and a reader reads or sees the end of the pipe), that a process that is
killed goes, and nothing else of the child: it may never read again.

## 6. What is proved

With TLAPS, for all values of the constants. `PROJECT.json` ("theorems") lists
every theorem with the property it states; the lemmas are in the same modules.

| module | theorems | beyond the constants' `ASSUME`s |
|---|---|---|
| `FileTransferProofs` | `TypeCorrect` | - |
| | `OneLeftoverHolds`: one leftover per file and packet size | `"locked" \notin Faults` |
| | `IntegrityInvHolds`, `IntegrityHolds`: what is written and published is of one version | `NothingToMixUp` |
| | `LockstepHolds`, `CompletedIsPublishedHolds`: both ends in step; "completed" is on disk | `NothingToMixUp`, `Direct` |
| | `DeliversHolds`: `FileTransfer` implements `Delivery` | `NothingToMixUp`, `Direct` |
| | `ProgressIsThePrefixHolds`: the packets counted are the acknowledged prefix, the bytes too while `steady` | - |
| | `ConfirmedIsHeldHolds`: what the dashboard calls confirmed is in the receiver's file | `NothingToMixUp`, `Direct` |
| `SchedulerProofs` | `TypeCorrect` | - |
| | `HysteresisHolds`, `NoFlappingHolds`: flags between and across their thresholds | `RecoverLoss <= FlagLoss` |
| | `OneColourPerLaneHolds`: links, routers and lists agree on a lane's colour | `NodeDisjoint(Paths)` |
| | `GreenIsPreferredHolds`: traffic follows the colours | the same, `ProbeShare * LaneCount <= 100` |
| `PollingProofs` | `LogIsConsistent`, `ComesOnceHolds`: the log; each event is shown once and in order | - |
| `PacketLayerProofs` | `TypeCorrect` | - |
| | `OneDotPerPacketHolds`: a packet has one dot on the way, or none | - |
| | `AcksAreRealHolds`: an ACK dot is of an acknowledged packet and retraces a lane | - |
| `TopologyProofs` | `LockHasItsHolderHolds`, `NoGhostsHolds` | - |
| | `PageTypeCorrect`: ends, route, forwarders, hops and what is shown are of one graph | `LanesAreOfTheirGraph` |
| | `ReadyWhenStartedHolds`: a start that met no other request begins on a path that works | the same, `FirstLaneDelivers` |
| | `PickFollowsPresetHolds`: at rest the page's pick is of the graph in force, unless a switch passed it by | `LanesAreOfTheirGraph` |
| `NodeProcessProofs` | `TypeCorrect`, `NoOrphanHolds`, `CachesReachTheChildHolds` | - |
| `DashboardProofs` | `TypeCorrect`, `WayOnHolds`, `CancelStopsNothingLaterHolds`, `TestHasItsFaultsHolds` | - |
| `PanelsProofs` | `TypeCorrect`, `UnsavedIsMarkedHolds`, `DraftKeptHolds` | - |

### Assumptions

`NothingToMixUp` (`FileTransferInvariant`): one content per (name, size), one
packet size, no torn write, and either the FIFO path or a single file. The first
three are necessary: dropping one gives a counterexample of TLC's (the packet size
with `Claim_leftover.cfg`). The last is there because datagrams carry no transfer
id. `Direct` is the path without forwarders: on lanes an ACK of an earlier
transfer reaches a later one, and `Lockstep` is not checked there either.
`"locked"` is the fault by which a `.part` cannot be removed; with it a second
leftover stays beside the first.

`RecoverLoss <= FlagLoss`: the API accepts the opposite (`backend/api/models.py:63-64`),
and then flags do flap. `NodeDisjoint` is what `frontend/lib/canvas.ts:248` says of
lanes; TLC evaluates that it holds of the lanes of the tri-path preset and not of
those with a router as destination, for which `Claim_red.cfg` refutes the single
colour. `ProbeShare * LaneCount <= 100` holds of the default share up to ten lanes,
and of the largest the page offers, 30 per cent, for three. Above it a flagged
lane can have more than a healthy one.

`LanesAreOfTheirGraph` (every pick has a lane, and its lanes lead from one node to
the other over nodes of the graph), `FirstLaneDelivers` (with the hops of a pick and
every node up but the destination, frames on the first lane arrive) say of the
presets what `AllPaths` computes for them. It is a search, and what a search finds in
every graph is out of the provers' reach; TLC evaluates the two for all picks of the
presets that ship, and that the page counts the hops of the shortest path
(`HopsAreOfTheRoute`), which no theorem uses (`ShippedDeliver` in `MCRoutePick`).

`LayerAssumption` (`PacketLayer`): a lane that can be drawn is a sequence of nodes
from the source to the destination without a link from a node to itself, which is
what `AllPaths` hands over, and latencies are not negative. TLC evaluates it in
`animation`.

`Nodes` and the names of the other forms are distinct (`PanelsAssumption`), and a
session is no `None` (`SessionAssumption`, `NoneAssumption`): TLA+ has no types
that would say so.

### Arguments

*Integrity* is not inductive: appending a packet keeps a prefix only if the packet
is the right one. `IntegrityInv` adds

- `SessionFits`: the open `.part` has exactly the packets before the expected one;
- `DataMeetsItsFile`: a DATA datagram in flight is a chunk of a file, and every
  session it can meet is one of that file;
- on the direct path `TransfersInOrder` (the queue holds transfers in the order
  they were started; an ACK reaches only the transfer it answers) and
  `AnsweredIsAlone` (once START is answered, only the sender's file is on the
  way), which together give `DataMeetsItsFile` when a new START comes.

TLC checks it in `direct` and `lanes`; it is proved inductive with one step per
action. `Carries` makes the content of a datagram follow from its number, so no
induction over data is needed.

*Lockstep and completion.* `LockstepInv` is inductive on top of `IntegrityInv`:
`SessionOpened` (a session says where it began and never goes behind it),
`WireBehind` (what is on the wire is the past of the packet loop, in its order)
and `InStep`, which says for each phase of the sender what the receiver has:
while a START may still be handled the session takes it for a repetition
(`HandshakeHolds`); in the loop it expects the packet under way or the next
(`DataHolds`); at END the file is complete, and once there is no session it is
published (`EndHolds`). `InStep` is claimed while the session is `intact`, that
is while nothing but START and END took it away.

*The refinement of `Delivery`* maps `parts` away and `status` to the outcome. Each
action is a step of `Delivery` or a stutter: handling END publishes, the end of
the sender's loop reports, and `CompletedIsPublished` says that the report is one
`Delivery` allows. The other actions change neither.

*One leftover per file and packet size.* START removes the others before it
creates one, so only a failed removal leaves two. Invariant by itself.

*The counters* take no part in a transfer's steps: `ImplementsTransfer` lets every
invariant of `FileTransfer` be used. `CountOK` settles the account by where the
loop is (`LoopOK`): with packet *n + 1* under way *n* packets are acknowledged,
resumed or sampled, and those sampled have been sent. That much holds whatever the
receiver answered, since the packets of a resume are those the sender skips. Their
bytes are those of the prefix, and on the wire, while `steady`: a START taken for a
repetition by a session of another packet size is answered with that session's bytes
(`SamePackets`), and the bytes shown are then neither those held nor those skipped.

*The flags.* `Hysteresis` with `TypeOK` is inductive. What a window remembers after
an outcome is the window with the outcome appended, its first dropped when full
(`RememberedLemma`), so the number of losses moves by one at most (`Lost...`
lemmas). Hence a loss never takes a lane below `recover_loss`
(`LossNeverRecovers`), a delivery never takes a judged lane to `flag_loss`
(`DeliveryNeverReaches`), and with the order of the thresholds no window does both
(`NotBoth`). The three together are `NoFlapping`.

*The colours* follow from `TypeOK` alone. On disjoint lanes a link and a router
have one lane (`LinkLemma`, `RouterLemma`), whose colour the scheduler gives. For
`GreenIsPreferred` the loss shown and the base of a weight round the same ratio in
different directions and differ from a hundred by one at most (`RoundingLemma`,
`BaseLemma`); a green lane is within the tolerance of the best loss
(`GreenLemma`); so no base exceeds its own by more than three, the sum of the
bases is bounded by their number times that (`SumLemma`), and the bound on the
probe share does the rest. The sum of a set is defined by a recursive function:
`SumExists` shows that the function exists, and `SumLemma` what it is bounded by,
each with a least counterexample.

*The log and the polls.* The ring is always the last ids in a row (`LogInv`), and
the order never longer than the table may be, so the row that leaves is not the
one just written. An answer on its way is one to the cursor the page still has
(`TickInv`).

*The dots.* A retransmission takes away the first dot of its packet, which need not
be the one on the way. So one dot per packet rests on what came before it, and
`LayerInv` says what that is. The log is `GoodBatch`: ids ascend, a retransmission
comes straight behind its timeout or opens the batch, and who is called acknowledged
is (`LogInv`). The batch shown is older than the log and has been drawn, unless
nothing is (`ShownInv`). And when the next event is a retransmission whose timeout
has been taken, `OwedIsRed`: its dots have turned red already, and a batch that
would be drawn again ends with that timeout. By its ids a batch is drawn whole or, the
second time, not at all (`DrawnKnown`), so along a batch an event meets either the dots of its
predecessor or those of the last batch. A batch is drawn stage by stage; that the
stages exist is a least-counterexample argument (`StagesExist`).

*The way back.* `Ending` sums the times of the links; the sums of a reversed way are
those of the way itself, taken from its end (`MirrorLemma`). So at every moment both
dots are on the same link at the same point (`SameLink`) or at the node where two
links meet (`SameEnd`), and `SamePoint` compares shares of links, since the times of
the two links there may differ.

*The topology manager.* `ManagerInv` is inductive under every step of the page
(`TopologyInv` adds the page's own part). `LockIsHeld`: the lifecycle lock is with
exactly the preparation between taking and giving it. `ReceiversAreStopped`: a
receiver that runs is the controller's, or a call under way will stop it.
`NodesAreStopped`: forwarders without a receiver have a call that will stop them,
or are known to be `late`. Without calls the last two are `NoGhosts`.

*What a preparation keeps.* `PrepInv` goes on from there: only under the lock do
the graph and the forwarders change, so a preparation that has it keeps the pick it
has checked and the port it has freed (`PreparedFits`), and nobody can take back
its receiver but a stop (`ServersAreFresh`, `ReceiverIsOn`). With it `GraphFits` is
inductive: everything is of the graph in force and no forwarder has a receiver's
port. `AloneIsPrepared` follows a start that met no other request step by step, up
to the receiver, the forwarders and the hops that `FirstLaneDelivers` is about.
*The page's pick*: `PickInv` says that, unless a switch has passed the page by, every
graph that is shown or on its way to the page is the one in force and the pick is of
it, or a press still owes the refresh that takes the pick away (`Pending`).

*A node's process.* `NodeInv` has a part that always holds (a living child has its
reader; children are spawned in order) and `Apart`, claimed while `apart` is true:
one call at a time, the one who stops a child stops the one the handle knows, and
at each step of a call it is settled which of the remembered values the child
has, has in its pipe, or is about to be sent (`StartsUntold`, `SendsTheCaches`,
`WillHaveTheCaches`). Who waits for room has a write to make and will make it to the
child it began with (`WaitsAreWrites`); a child spawned anew has been told nothing but
to say its counters (`Untold`), which changes neither settings nor route.

*The buttons.* `DashboardInv`: while the lock is on a call waits for its answer
(`LockHasACall`), without a test an open call is the one of the last press
(`OpenIsLast`), and a test's start comes after its faults were applied
(`TestsAreApplied`).

*The forms.* `PanelsInv` is `UnsavedIsMarked` with what calls may carry
(`CallsHaveTheirForm`, `OnlyNodesFollow`, `LabIsValid`).

### Only model-checked

Every invariant a run checks is a theorem. What is left to TLC:

- Liveness and everything with fairness or `ENABLED`: `TransferEnds`, `CancelIsReported`,
  `ShowsOutcome`, `FlagsClear`, `AckComesBack`, `Drains`, `LockIsLifted`,
  `FormsConverge`, `CallsReturn`.
- What `AllPaths` and the page's `Hops` compute: of `AllPaths` the theorems about
  picks assume what they need (above).

## 7. Disagreements between texts and code

Each is reproduced by `tlc -config Claim_X.cfg M`, which finds the statement
violated; the comment at the property quotes the text. Where a configuration has
two statements TLC stops at the first it refutes: leave that one out of the
configuration to see the other.

| config, module | property | what TLC finds |
|---|---|---|
| `Claim_leftover`, `MCFileTransfer` | `IdenticalFile` | a session without DATA left by a failed attempt serves a START of another packet size; the published file is not the file sent (the repository's `README.md:139`) |
| `Claim_leftover`, `MCFileTransfer` | `StartOverStartsAtOne` | `resume=false` is answered with the resume point of such a session |
| `Claim_end`, `MCFileTransfer` | `CompletedIsOnDisk` | a receiver restarted before END acknowledges it; "completed" without a file |
| `Claim_end`, `MCFileTransfer` | `NoZombieReceiver` | a failed rename leaves a session with a closed file; the next END ends the receiving thread while `server_status` is running |
| `Claim_progress`, `MCTransferProgress` | `NothingDoubleCounted` | a repeated START or END is counted as retransmitted and as sent |
| `Claim_progress`, `MCTransferProgress` | `ReusedIsSkipped` | a first attempt leaves a `.part`, a second resumes it and fails before DATA, a third with another packet size is taken for its repetition: "already at the receiver" and the confirmed bytes are those of the old packets, not those the sender skips (`transfer/manager.py:378-380`, `udp/client.py:184-186`) |
| `Claim_gap`, `StatusPolling` | `NoSilentGap` | an answer cut to its limit loses events and says `gap: false` |
| `Claim_inspector`, `Panels` | `ShowsTheNode` | the draft meant for one node is shown, and saved, for the node selected next |
| `Claim_red`, `MCLaneHealth` | `RedIsFlagged` | a link of two lanes (a router as destination) takes the colour of one of them |
| `Claim_offer`, `Dashboard` | `OfferIsForTheFile` | two resume checks answered out of order: the banner offers another file's resume |
| `Claim_routes`, `MCRoutePick` | `EveryLaneDelivers` | a router that two lanes share keeps the hop of the last; on 36 of the 56 picks of the tri preset some lane leads nowhere (docstring at `topology/manager.py:411-414`) |
| `Claim_routes`, `MCRoutePick` | `NoGhostForwarders` | a preparation overtaken by `stop_server` boots forwarders nobody stops (`topology/manager.py:497`) |
| `Claim_orphan`, `MCNodeProcess` | `NoneLeaked` | saving a node's settings while the receiver's start boots it: two children, one of which the handle has forgotten and which keeps the port (the repository's `README.md:359`) |
| `Claim_child`, `MCNodeProcess` | `StopEnds` | a child hangs with its pipe full: `stop()` waits at line 128 for room, with `_io_lock`, before it waits for, terminates or kills the child (`topology/process_node.py:12`) |
| `Claim_child`, `MCNodeProcess` | `BindFailureIsRaised` | a child that has told of its failure and not yet exited counts as running: `start()` returns without raising (`topology/process_node.py:13`) |

Seen while modelling, without a configuration of their own:

- a cancel that lands before `send_file` clears the stop flag does not stop the
  sending (`udp/client.py:138`); a write that fails half way leaves its first part
  in the file and the retry appends the packet behind it (`udp/server.py:162`); a
  file edited under its name and size is continued behind its old content
  (`udp/resume_fs.py:39`); `send_file` raising after a cancel is reported as
  failed (`transfer/manager.py:370`);
- `start_server` that was overtaken stops the forwarders of the receiver started
  after it (`transfer/manager.py:199`); of two starts that overlap the first may
  begin on the route of the second; a transfer may begin on a graph that was
  replaced between its preparation and its status;
- a dead child is not revived by a snapshot, as the repository's `README.md:361` says, but by the
  next `start_all`; two writers of a node's settings may write the older ones last;
- a `probe_share` above about a third gives a flagged lane of three more than a
  healthy one;
- START is offered again between the answer of a start and the refresh behind it;
  a stale pick, which the server refuses, is left not only by another client's preset
  switch or a lost answer: a tick that was given the topology before the page's own
  switch may show it after the refresh that cleared the pick
  (`useStatusPolling.ts:85-93`; `page.tsx:196-202` says the switch invalidates the
  pick), and what is picked then is of the old graph. `PickFollowsPreset` names these
  as its exceptions.

## 8. What is not modelled

- **Forwarders** in time: due times, latency changed in flight, simulated loss and
  corruption. `Datagrams` lets lanes do more than forwarders can.
- **Resume store**: two files of one name and different sizes that begin in the same
  second share a path (`udp/server.py:264-267`).
- **Lock order.** Joins are taken as done: `stop_server` joins a thread whose
  callbacks want the manager lock.
- **TopologyManager**: disabled nodes, ports taken by other programs (the error
  path of `topology/manager.py:475-488`), deaths of nodes during its calls,
  snapshots, node logs, the unlocked read in `dest_port`.
- **NodeProcess**: what the counters are, tags and replies, log lines, the time limit of the
  parallel boot, the end of a child whose parent dies (end of stdin).
- **Controller**: snapshots, smoothed times, the feed of log lines, plain
  assignments of the configuration.
- **API**: parsing, uploads on disk, serving of the page.
- **Page**: camera, banners, markers and reduced motion of the canvas; widths of
  panels and what is kept in storage; the telemetry sidebar; node logs, packet
  monitor and trace console (lists with filters); a backend that restarts under an
  open page, which numbers its events from 1 again.

## 9. Plan

What is left, in this order:

1. `Forwarder` with learnt client, due times and changing latency, then `Lanes`, a
   `Datagrams` made of forwarders, and the question which of `lanes`'s behaviours
   it has.
2. `NodeProcess` under `TopologyManager`: handles that fail, die and are disabled
   during a preparation.
3. The lock order as a module of its own: manager, topology, lifecycle, session.
4. Presets other than those that ship: all small graphs for `AllPaths` against a
   reference definition.
