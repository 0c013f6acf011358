# Verification of the COMP 556 projects

The repository holds three independent programs. This directory specifies them
in TLA+, checks the specifications with TLC and proves theorems about them with
TLAPS:

- **project2**, a reliable file transfer over UDP (`sendfile`, `recvfile`);
- **project3**, a routing simulator with a link-state and a distance-vector
  protocol;
- **project1**, a `select` loop that serves web pages.

## 1. Inventory

### project2: reliable file transfer

| part | state | operations | interacts through |
|---|---|---|---|
| `sendfile.cpp` | `send_window` (usable, to_be_send), the ring buffer `queue` (`queue.h`), `is_ack[]`, `initAck` (last repeated ack and its count), read position of the file | send the path until acknowledged; fill and send the window; take an ack (cumulative and selective); fast retransmit; timeout resend; FIN/FINACK | datagrams to and from `recvfile` |
| `recvfile.cpp` | `ack`, `endFile`, `LinkList` of early packets, output file | take the path and create the file; take a data packet (ignored, in order, buffered, corrupt); send FIN until a FINACK | datagrams |
| `linkList.h` | a sorted singly linked list with a head node, `count` | `add`, `pop`, `isEmpty` | called by the data loop of `recvfile`, which deletes what `pop` returns |
| `queue.h` | ring of `QUEUE_SIZE` packets that are allocated once and reused | `InitQueue`, `Enqueue`, `Rear`, `Dequeue`, `Front` | called by `sendfile`; `is_ack[]` runs parallel to it |
| `utils.*` | none | checksum, `fillackPacket`, file length, read | called by both |

Hard behaviour: the network loses, repeats, reorders and corrupts datagrams in
both directions; acks carry a cumulative and a selective number; marks live in
slots that are reused; three loops on each side must leave in step although any
message that says so may be lost; struct overlays of different size are read
from one socket. What makes it correct: the output is a prefix of the file at
any time, a packet is kept until delivered, nobody reports success early, and
under a fair network the transfer ends.

### project3: routing simulator

| part | state | operations | interacts through |
|---|---|---|---|
| `Simulator`, `Event`, `Link`, `Node` | queue of timed events, links with a delay | dispatch, send over a link, links that die, come up, change delay | calls `recv` and `handle_alarm` of each router |
| `PINGPONG.cc` | `port_map` | ping every 10 s, pong, expiry after 15 s, forwarding of data | calls the protocol when a neighbour or its cost changes |
| `DV.cc` | `dv_cost_map`, `dvp_refresh_time_map`, `forwarding_table` | updates from messages, from pongs and from expiry; table every 30 s; poison reverse; 45 s expiry | reads `port_map`; packets |
| `LS.cc` | `lsp_topology_map`, `lsp_seq_set`, a sequence number that all routers of the process share | flooding, 30 s alarm, expiry, Dijkstra | reads `port_map`; packets |

Hard behaviour: timers against late messages, stale routes, ties, 16-bit costs,
entries that `operator[]` inserts and nobody initialises. Correct means: a
connected neighbour always has a route, routes over a dead link disappear, tables
converge to the shortest paths after the last change, the forwarding table says
what the routes say, a flood leaves no router out.

### project1: number client and server, web server

`server_num.c` is a `select` loop with a list of clients and one buffer for all;
with a mode, `web_server.c` reads two words of a request, sends a header and a
page, and the loop closes the connection. `client_num.c` exchanges messages of a
given size and measures. Hard behaviour: sockets closed and accepted while the
list is walked, numbers of descriptors that are used again, requests in pieces,
clients that leave between two sends. Correct means: the list is what is open,
each client gets the answer to its own request, and nobody is hung up on or
passed over.

Left aside for good: `cmake-build-debug`, logs, data files and binaries, which
are generated, and `compare.cpp` and `name_addr.c`, which are input and output
only.

## 2. Modules

| module | what it is |
|---|---|
| `Datagrams` | formats of `utils.h`, the two directions of the network |
| `Sender` | `sendfile.cpp` and `queue.h`: one action per branch of each loop |
| `Receiver` | `recvfile.cpp`, with the list as a set |
| `Transfer` | both with the network; fairness; properties; refinement mapping |
| `FileTransfer` | abstract: the output grows block by block, is announced complete, is confirmed |
| `TransferInv` | the inductive invariant `IInv`, and `LoopInv` and `GapInv` beside it |
| `MCTransfer` | values of constants for TLC |
| `TransferProofs` | proofs of `IInv`, `GapInv` and what follows from them; that `Transfer` implements `FileTransfer` |
| `LinkList` | `linkList.h` node by node, driven by the data loop |
| `LinkListProofs` | the nodes can be numbered along `next`, none leaks; that `LinkList` implements `Reassembly` |
| `Reassembly` | abstract: a set of early packets that leave without gaps |
| `Checksum`, `ChecksumProofs` | `cksum`, filling, verifying, over datagrams of few short words; what the sum is, that a filled datagram verifies and damage of one word is noticed |
| `FileSplit`, `MCFileSplit`, `FileSplitProofs` | file length, `total_count`, `left_filesize`, `isEnd`, in unsigned arithmetic; the packets are the file |
| `LinkState`, `MCLinkState` | project3 under `P_LS`: pongs, expiry, flooding, links that die and come up |
| `LinkStateProofs` | types, flooding leaves nobody out, numbers are unique, announcements are current |
| `Dijkstra`, `MCDijkstra`, `DijkstraProofs` | `Dijkstra` and `find_ls_parent` of `LS.cc`, one pass of the main loop a step; all graphs of four routers; the ways found are the shortest |
| `DistanceVector`, `MCDistanceVector` | project3 under `P_DV`: `PINGPONG.cc` and `DV.cc` with their timers |
| `DistanceVectorProofs` | types, forwarding table and routes agree, a neighbour always has a route; in networks without cycles dead links are left and the best paths are recorded |
| `WebServer`, `MCWebServer` | project1: the `select` loop, its list, the answers, clients that come, ask and leave |
| `WebServerProofs` | the list is what is open, nobody is hung up on, answers belong to their requests, what the server survives |

`FileTransfer` and `Reassembly` are the abstract specifications; `Transfer`
implements the one and `LinkList` the other, both checked and proved.

How they correspond to the code:

**project2**

- A file is `N` blocks, block `k` travels as packet `k`. `data` says which block
  (or path, or memory nobody filled) the payload really holds, and is kept apart
  from `seq`, so that a wrong payload under a right number would be seen.
- `spc` and `rpc` say which loop of `main` runs. One action is one pass of a
  loop body up to the next look at the socket. A reply, the ring operations,
  `usable`, `is_ack`, and leaving the loop belong to the action.
- `SendData` is only enabled by the condition of the inner send loop, and
  receiving only when that is false: `sendfile` fills its window before it looks
  at an ack. Ack processing is split by outcome: `AckAdvances` (inside the
  window, with cumulative dequeue, mark, and the pop of marked slots),
  `AckCounted` and `FastRetransmit` (outside), `RecvFin`, `AckCorrupt`.
- The three `while` loops of the ack branch are given by what they compute:
  `Freed`, `Marked`, `MarkedRun`. `slot[front].seq` is read even when the window
  is empty, as `Front(queue)` is.
- `ReplyAndLoop` sends the reply and, if the condition of the data loop fails
  after it, also sends the first FIN: the code does both without looking at the
  socket in between.
- `recvfile` acknowledges the path before it creates the file; `OpenOk` says
  whether creation may fail (`rpc = "failed"`, the process exits).
- Undefined or machine-dependent points are nondeterministic: the acknowledgement
  of the path is sent without filling its checksum and its `isFin` (recvfile.cpp
  104-106; `Unfilled` says what they may read as: the runs take an ack that
  verifies, and a FIN that does not); slots never filled hold `UnfilledSlot`.
- In the closing loop `last_send_tstamp` is the time of the last FINACK. `overdue`
  says that more than `FIN_TIMEOUT` has passed since: `FinTimeout` sets it,
  `FinAgain`, which answers a FIN once more, clears it, and `SenderExit` needs it.
- The network (`Carry`, `Left`) is external. It holds a set of datagrams in each
  direction, at most `NetCap` of them, loses any, delivers in any order, delivers
  again if `Dup` (two equal datagrams under way count as one, so a copy is another
  delivery), and corrupts if `Mangle`. A corrupted datagram is modelled where it
  is received: where the code verifies the checksum it is refused, where the code
  looks at a field without verifying (the wait for the path's ack, both closing
  loops) the test may come out either way.

**project3, link state**

- A state of `LinkState` holds all routers of the process. `port[r][n]` is the
  cost in `port_map`, or `Unconnected` for a neighbour that is absent or has
  status `UNCONNECTED`: under `P_LS` the code treats the two alike. `topology`
  says which packet of each source `lsp_topology_map` holds, as its index in
  `packets`, a history of all packets made; `seen` is `lsp_seq_set` and
  `ls_seq_num` the static counter, which comes round at `SeqNums`. Three
  more histories, which no action reads, serve the properties: `lost`, the copies
  that the network dropped, `sent`, those that were ever handed to it, and `resent`,
  those that were handed to it again.
- One action is one call of a handler. `RecvPong`, `ExpireAlarm` and `LSAlarm`
  change the ports and flood in the same step, with the ports as just changed.
  `RecvKnown` and `RecvNew` are the two branches of `LS_message_handler`. The
  drop of a copy on a dead link belongs to sending, because the simulator
  decides it at the time of the send.
- Time is left out. An expiry may happen to any connected neighbour (its pings
  may be lost), the age of a stored packet may run out at any time (`Aging`),
  and a PONG may bring any cost of `Costs`, for the delay of a link may change.
  A PONG comes over a link that is alive, or was under way when the link died
  (`late`). PINGs have no other effect and are part of `RecvPong`.
- In `Dijkstra` row `router_id` of `cost` stands for `port_map` and the others
  for `lsp_topology_map`, so a link may be known in one direction only or cost
  something else in the other. `entries` are the sources in `lsp_topology_map`,
  into which reading (LS.cc:221) puts an empty one. A step is one pass of the `while` loop with the
  scan for the next router; `Finish` writes the forwarding table.

**project3, distance vector**

- Time goes in ticks of 5 s: pings leave every second tick, tables every sixth, a
  neighbour is lost at age 3, an entry at age 9 or 10 (the alarm of the code goes
  off every second, so 45 s may fall into either tick). The expiry alarm goes off
  once in a tick, at its end. Packets arrive within their tick in any order, for
  delays are below half a second. Alarms of one time do not see what the others
  did, so one order of them stands for all (`GoesOff`).
- A PING and its PONG are one packet, sent by the PING; the round trip is the
  delay at the time of the PING plus that delay or the one of now.
- `table[r]` holds `dv_cost_map`, the ages and `forwarding_table`, each written
  where the code writes it: the five functions that touch two of them are
  operators of their own with the names of the code. `PongTakes` calls
  `updateLocalDVTable` once for a neighbour that was not connected
  (`NewNeighbour`) and once for a cost that changed (`NewCost`), as the handler
  does, and both send with the ports as they were.
- What `port_map[...]` inserts has a status of its own, `Unset`, and a cost of
  `Garbage`: `RecvTable` makes such a port when a table comes before any PONG
  (DV.cc:36), and `PongTakes` compares with such a cost (PINGPONG.cc:55), so that
  the entry just inserted is corrected a second time. The wrong cost stays until
  a better one comes or the entry grows old; `BestPathIsRecorded` says that it
  does.
- Costs are 16 bits in the code and `0..Infinity` here, with sums modulo
  `Infinity + 1`. `INFINITY_COST` is the largest of them in both.
- A packet that is lost, a link that dies, comes up or changes its delay each
  takes one of `MaxChanges`; `quiet` counts the ticks since.

**project1**

- A request is the two words that are read of it, `action` and `file`, and whether
  they fit (`fits`): both are read and joined without a bound, into 10 bytes and
  behind the root directory into 256. Words that do not fit may end the process
  as they are read (`Overflow`), in a call before the page is sent, or when they
  are freed (`SendPage`), or do no harm. A name stands for one of six kinds of
  file. A request that comes in pieces is cut
  between the words, and the second is read from what any earlier request left in
  `buf`. What arrives after the first piece was read is never read.
- The server is one process; one action is what it does between two system
  calls, and clients act in between. `list` is the list behind `head`, `current`
  the node the loop is at; `Select` leaves in `read_set` what was ready.
  `CloseCurrent` is `close`, `dump` and the step to `next`, which the code fetched
  before.
- Descriptors are numbers, and `accept` and `fopen` take the lowest free one. A
  file is never closed, so each answer takes a descriptor for good. When none is
  free the process aborts.
- `peer` is the connection as the server sees it: the client has closed (`fin`),
  has been sent something after that (`dying`), has reset (`rst`), or the next
  send raises SIGPIPE (`pipe`). SIGPIPE is not handled, and ends the process, as
  do a failed `fopen` or `fread` and `strcmp` of a mode that was not given
  (`Dies`).
- Clients, the network and the kernel are external: clients are numbered as they
  connect, at most `MaxLeaving` leave, at most `MaxCut` requests come in pieces.

## 3. Runs

| run | instance | checks |
|---|---|---|
| `safe` | N=5, W=3, NetCap=2, Dup, Mangle, path ack either way, creation may fail | all safety properties, the inductive invariant, the reuse of slots, the refinement of `FileTransfer.Spec` |
| `live` | N=3, W=2, NetCap=1, fair, no corruption | the sender exits; the receiver exits only after the sender answered; refinement of `FileTransfer` with its fairness |
| `list` | W=5, packets 1..11 | the list is the set; no leak, no dangling node |
| `checksum` | 4 words of 3 bits, every content, one word damaged or two exchanged | the sum, acceptance, what damage is noticed |
| `split` | packets of 5 bytes, lengths 0..63, 6-bit unsigned | the packets are the file, the last is marked |
| `finlike` | N=2, the last block starts with 2, 0 | fails: see findings |
| `links` | a chain of three, costs 1 and 2, one link that dies and comes up, losses, 2 packets, fair delivery | floods leave nobody out, go out of each router once and end; announcements are current |
| `newest` | three routers in a ring, entries grow old | fails: see findings |
| `dijkstra` | four routers, `router_id` = 2, costs 1 and 3, every graph | shortest distances and next hops; tight at the end |
| `dv` | a chain of three, one link that dies, comes up and takes delay 1 or 2, losses, 2 changes | types; forwarding is the next hop; a neighbour has a route; dead links are left; best paths in the end |
| `tie` | a triangle, one link changes once | fails: see findings |
| `server` | three clients, three descriptors, three ways to start | the list is what is open; answers are one's own; nobody is hung up on or passed over; what the server survives |

Bounds of project2. A slot can hold a mark only from packet 2 on, and the slot of
packet 2 is filled anew by packet `W + 2`: `safe` needs `N >= W + 2` for the
hazards of reuse to happen at all, and `W = 3` for a marked packet behind a gap
behind the front. `live` lets the ring wrap (`N > W`) as well. Two datagrams in
each direction are enough to overtake; what is lost and sent again gives long
histories in spite of the small network, and `Dup` lets one datagram arrive any
number of times. `RESENDLIMIT` is the code's 3. The proofs cover all other values
of N, W and NetCap.

Bounds of project3. Two link-state packets are the least for which numbers can
clash and an old one can overtake a new one. A chain of three is the smallest
network in which a packet is forwarded, and in which it comes back to where it came
from. Cycles, in which a copy comes back by another way, are in `newest` and in the
theorems: a triangle with losses has too many states for a passing run, and
`LeavesOnce` says for every network that no copy leaves twice. `MaxPackets` stops
what would flood once more; after two packets an expiry that leaves a neighbour can
no longer flood, and what holds of those that come later is again in the theorems,
as are entries that grow old. In `dijkstra` four routers
allow a first find to be improved twice, costs 1 and 3 make the way over two links
cheaper than one, and with `router_id` = 2 there are ids on both sides of it.

In `dv` a chain of three has a router that only hears of a link from another, and
poison reverse acts in it. Two changes let a link die and come back with the same
delay, change its delay while packets are under way, or be silent by loss. `Forget`
= 11 ticks (55 s) and `Settle` = 19 ticks (95 s) are the least numbers for which
the two properties hold in this instance: a dead link is left 45 s after the last
time it was heard of, and what was learned through it takes as long again. The
longest part of `Settle` is that a cost which has grown is given up only by age:
`updateDVTableByPortMap` takes nothing that is dearer. `Garbage` has a value below
and one above the costs of all links, so that corrections go below zero and wrap.
`Infinity` = 31 is far above all real sums.

In `server` three clients and three descriptors are the least for which a list has
a middle node and files can use up the descriptors. One client leaves, one request
is cut; of the files, `page` can be opened, `folder` either way, and a third
request (`TooLong`) has words that do not fit. `BACKLOG` is the
code's 5 and is never the limit. The three setups are the proper one, one without
a mode, and one in another directory with `../` in the root.

Deadlock is checked in `live`, `dv` and `tie`. It is off in `safe`: when the FINACK
test is passed by a corrupted datagram the receiver leaves, and a sender that then
has nothing to resend waits for ever. `LinkList` stops at the bound `Last`,
`LinkState` at `MaxPackets`, `Checksum`, `FileSplit` and `Dijkstra` when they are
done, and `WebServer` when all clients are served or the process has died.

Fairness. Both processes of project2 poll a socket with a timeout of one
microsecond and do not block, so sending, receiving and leaving are weakly fair.
Timeouts are steps that stay enabled, and the network is fair to them: a datagram
that is sent again and again is carried again and again (strong fairness of the
resend that gets through), and the same for its answer. Without the last two
nothing can be promised by any protocol. `FIN_TIMEOUT` is another matter: each FIN
starts it anew, and a receiver repeats its FIN every 1.5 ms, so it is sure to run
out only when FINs have ceased (`FinsCeased`: the receiver has left its closing
loop and no FIN is under way). FINs cease because one of the many FINACKs that
answer them is carried (`FinAnswered`, strong fairness), not because the sender may
leave: a sender that answers no second FIN (the mutant of `SenderExits`) waits for
ever. `FileTransfer.FairSpec` asks only that
its next step is taken at last.

`LinkState` assumes of the simulator only that a packet under way arrives: it is
an event in the queue, and `Simulator::run` takes events until there are none.
That floods end is meant for the packets that are made, of which there are
finitely many by `MaxPackets`; the alarm makes new ones every 30 s.

`WebServer` assumes that the process runs on when it can (`WF(ServerNext)`), and
nothing of clients. `DistanceVector` needs none: its time properties count ticks.

Each property of a passing run is shown to depend on the code: the definitions
named `...Unchecked`, `...Forgotten`, `...Never`, `...Plain` and the like state a
plausible mistake in the definition below them, and with it the property fails.

### Findings

- `finlike` (recvfile.cpp:220): the last loop tests `isFin` in a datagram cut to
  12 bytes and verifies nothing; a late data packet whose block starts with the
  bytes 2, 0 ends it. The receiver has the file; the sender resends for ever.
- `newest` (LS.cc:42): a packet is stored if its number was not seen, even when a
  greater number of the same source was. In the trace the newer packet overtakes
  the older on their link, as it does when the delay of the link has shrunk
  (`Event_Change_Delay`); a copy that comes by a longer way can do the same. Until
  the next flood of the source (30 s) the older topology is used.
- `tie` (DV.cc:314): the age of an entry is renewed if its cost equals that of the
  direct link, whatever its next hop is, and a route through another router wins a
  tie (DV.cc:92). When the link behind that router dies, the entry is never given
  up, and what is sent by it is dropped there for ever, though the direct link is
  up. It may also be the link to that router: if a lost PONG made it
  `UNCONNECTED` just before a table of its made the tie, its death is no loss of
  a neighbour, and the entry over the dead link is renewed for ever. So
  `DeadLinksAreLeft` fails in a triangle too, and is proved where there is none.

Also seen, and in the model unless it says otherwise, without a run of their own:

- sendfile.cpp:297: a file of length 0 makes no packet, none with `isEnd`, and
  both sides wait for ever (`live` with N = 0 fails).
- sendfile.cpp:361: the loop that pops marked slots from the front of the window
  never finds one (`FrontStaysUnmarked` and the lemma `GapAdvancesStep`): a
  cumulative ack always ends below a gap.
- sendfile.cpp:385: fast retransmit takes the front of the ring even when the
  ring is empty, and may send memory that was never filled. `safe` shows that
  this never reaches the output.
- sendfile.cpp:325: the comment says that only the smallest ack is accepted; the
  code accepts every ack inside the window.
- utils.cpp:25: of a file of 2^32 bytes or more only the remainder of the length
  is sent, and both sides leave as after a success. (Between 2^31 and 2^32 the
  `int` turns negative and the unsigned length is right again.)
- LS.cc:47: the comment says that a packet is not forwarded to the source; the
  code sends on every port, and the source refuses it.
- LS.cc:183 and 200: the arrays of `Dijkstra` end at the largest id stored, a
  router stores no packet of its own, and so the router with the largest id always
  writes behind its own arrays. `Dijkstra` takes routers that have a place.
- server_num.c:324: without a mode the first message ends the process, and with
  one, whatever it is, every message is a web request: the branch that echoes,
  which the help text promises (69-73), is never reached. So is what
  `pending_data` guards, which is never set.
- web_server.c:59: the case of 501 falls through to that of 500: both numbers go
  into the header.
- web_server.c:72: no `fclose`; each answer costs a descriptor.
- web_server.c:85: of a directory without a slash at its end `fread` fails, and the
  process aborts after a header that says 200.
- web_server.c:100, server_num.c:310: a request is read by `sscanf` without a bound
  into `action` (10 bytes) and its second word joined by `strcat` to the root
  directory in `fullFilePath` (256 bytes): a long word writes past them, and may
  end the process for all clients. `Survives` asks for words that fit.
- web_server.c:92 (not modelled): one `send` may take only a part of the page, and
  the rest is never sent, although server_num.c:285-289 says that the count must
  be checked.
- client_num.c:362 (not modelled): `recv` of 0 does not end the loop, so that a
  client whose server has closed the connection runs for ever; client_num.c:288
  cuts a size to 16 bits.

## 4. Proofs

Assumed: the `ASSUME`s of the constants only, each in the module that declares
them (sizes are naturals, sets of the right kind, delays that fit). Everything is
proved for every such value. A theorem that needs more says so in its
`ASSUME`: lengths that fit 32 bits (`Fits`), no corruption (`FinLike`, `Mangle`),
networks without cycles (`Forest`) and enough time in them.

### The transfer

`WrittenInOrder` alone is not inductive: what is written depends on what a
datagram under way may hold, that on what the slots of the ring hold, and that
on the counters; and the marks in `is_ack` are right only because no ack names a
packet that was not received. `IInv` says all of it together:

- `SenderInv`: slot `front + j` holds packet `Base + j`, counters agree, every
  slot holds a packet that was sent or was never filled;
- `ToRecvInv`: under way to the receiver are only sent packets, the path, stale
  slots, and FINACKs of a sender that has left its data loop;
- `ReceiverInv`: the output is blocks 1..ack, the list holds right packets above
  `ack + 1` and inside the window, `endFile` implies that the last packet is here;
- `ToSendInv`: no ack promises more than was received, a FIN means complete;
- `AgreementInv`: the window starts at or below `ack + 1`, marks are true, and
  the two program counters move in step.

`TransferProofs` has one lemma per action (`SendDataStep`, `AckAdvancesStep`,
`RecvBufferedStep`, ...), brought together by `SenderMove`/`ReceiverMove`, which
say what a step of one side has to show. The `CHOOSE`s that stand for loops are
settled once (`FreedValue`, `MarkedRunFact`, `RunEndFact`) from the least
element of a set of naturals. Theorems: `Invariance`, `TypeCorrect`,
`OutputIsPrefix`, `NothingLost`, `WindowsStayInReach`, `RingIsWindow`,
`CloseIsComplete`, `PathNamesTheFile`.

Three more results stand on `IInv`, each with a small invariant beside it:

- `AcksEndAtGaps` proves `GapInv`: no cumulative ack, under way or taken, stops
  just below a packet that some ack, or a mark in the window, reports as received.
  It holds because `LinkList::pop` takes the whole run, so that `ack + 1` is never
  in the list (`NextInOrderMissing`); acks of the past ended at gaps of the past,
  and a packet is reported only while it lies behind a gap. `FrontStaysUnmarked`
  follows.
- `ReuseIsSafe` proves `SlotReuseIsSafe` by `AgeInv`: a slot `j` behind `rear`
  holds the packet sent `j` packets ago. What `SendData` overwrites is `W` packets
  old, and so below the window. It speaks of `rear` and not of `front`, so that
  only one action can disturb it.
- `ExitNeedsFinAck` proves `ExitAfterFinAck` from two assumptions that the code
  needs: no corruption (`~Mangle`) and no block that starts like a FINACK
  (`FinLike = {}`).

The refinement adds `LoopInv` (the receiver notices that it has everything)
and proves `Implements`: `Spec => FileTransfer!Spec` under the mapping. `IInv`
bounds what a step may claim and `LoopInv` bounds what it may leave out: a step
that writes the last block must also announce the end.

`FileSplitProofs` shows for every packet size that the packets are the file,
from `Fits` (every length below `Modulus`), with `SplitInv`: before the last packet
`(to_be_send - 1) * DATASIZE` bytes are written, after it all. Without `Fits` it is
false: a length of `Modulus` or more is cut to the remainder.

`ChecksumProofs` rests on `LoopSumIsRemainder`: what the loop of `cksum` has summed is
the sum of the words less a multiple of `Ones` (all bits set), is at most `Ones`, and
is 0 only while all words are: a carry takes `Ones` away only from what is greater. `CksumOfTotal` and
`SumIsRight` are that fact. For `OneWordNoticed` the sums of two datagrams that
differ in one word differ by what the word does (`OneWordInTotal`); if they have the
same rest, the words differ by a multiple of `Ones`, so one is 0 and the other
`Ones` (`MultiplesApart`, `SameSumSameWord`). `SumInv` keeps a filled datagram valid
until it is damaged. The constant is `Base`, the number of values of a word (2^16 in
the code), because the provers know no powers of two. Sums and loops are functions on
indices; `Iteration` shows that such a recursion has a solution and `Induction` works
with a set of indices in place of a predicate.

`LinkListProofs` numbers the nodes. `ListInv` says that there is a sequence of all
allocated nodes that begins at `head`, follows `next` to the end, has its packets
in increasing order, and is one longer than `count`. The walks of `add` and `pop`
are iterations of one step along `next` (`Walk`), stopped by a condition, so that
a lemma says where each ends: the first node of that sequence with a greater
packet, or the end of the run. `NodesAreKept` and `CountIsRight` read the invariant
off. `ListReassembles` is the refinement: an insertion in the middle of the
sequence is the addition of one element to the set of packets, and what `pop` takes
is the run above the acknowledged packet.

### Routing

`LinkStateProofs` rests on `FloodInv`: the counter has counted the packets, as long
as it has not come round, and each has the number that was next when it was made; a
source knows its own packets (so that refusing them by id loses nothing); a router
has sent on every port just the packets it knows; and what it knows its neighbours
know, or it is under way or dropped. That packets have different numbers
(`NumbersNameOne`) follows from the counter being one for all and never falling,
and needs the bound `MaxPackets <= SeqNums`. `FloodHasNoHole` speaks of packets that
were sent and not of numbers, and alone is not inductive: with two packets of one
number, or a source that did not know its packet, `RecvKnown` would make a hole.
`LeavesOnce` (`SentOnce`) speaks of the network: no copy is handed to it that was
handed to it before, whatever cycles there are; it holds because a router enters a
packet into `lsp_seq_set` in the step in which it sends it. `MayFlood` handles the three handlers that flood, `RecvNewKeepsInv` and
`RecvKnownKeepsInv` the message handler. `AnnouncementsAreCurrent` needs one
thing more, that a handler that changes the ports of a router floods with the
new ones or leaves it without neighbours. `LinkTyped` adds types and that no copy
is both under way and lost. Assumed: `LinkAssumption`, that is, any set of routers
and links, any costs.

`DijkstraProofs` shows `DijkstraInv`: visited routers are at most as far as the
others, the links of visited routers make nothing shorter, parents are visited.
`NearestIsNearest` settles the scan, `VisitStep` a pass of the loop, and
`WaysAreTight` says what holds at the end. That tight distances are those of the
shortest ways is induction over ways: no way of any length is shorter, because its
next link would shorten one (`SearchFindsShortest`), and the distance is that of a
way, because parents lead up to `router_id`. The latter needs `ParentInv`: every
visited router has a depth, one more than that of its parent, and depths are less
than the number of visited routers. Without a depth a ring of parents over links
of cost 0 would be as tight. It also bounds the climb of `find_ls_parent`, and
`TableIsShortest` follows: the router at its end is a neighbour that begins a
shortest way. Assumed: costs are naturals below `Infinity`, ids are inside the
arrays.

`DistanceVectorProofs` shows `TableInv`, which is `TypeOK`, that PONGs travel on
links, and two facts of each router: `AllAgree`, the forwarding table is the next
hops, and `AllCover`, a connected neighbour has a route that is no dearer than its
link. Within a handler neither holds all the time: `Erase` takes direct routes
away, `Corrected` may raise a cost or wrap it, and `WithRoutes` leaves
`forwarding_table` behind. What restores them is that every change of a table ends
in `updateDVTableByPortMap` (`PortMapKeeps`), and that a new cost never leaves the
direct entry above it (`NewCostKeeps`). One lemma for each of those operators
carries the proof, and the handlers only put them together. It holds for every
network, every garbage and any losses.

`DeadLinksAreLeftInForests` is about time. `Forest` says that the links make no
cycle, by a function `toward` that gives for each router the neighbour that leads
to another; `Forget >= 11` is 55 s. Both are needed: a link that goes up is not
known to be heard of before 15 s, an entry lives up to 50 s after it was last
renewed, and with a cycle the property is false (finding `tie`). `LeavingInv` has
four parts. `WayInv`: routes point along the only way there is, and no table under
way offers its receiver a destination behind that receiver. Poison reverse is what
makes it hold, and it is why only the neighbour behind a link can renew the entries
over it. `OrderInv`: PINGs and PONGs come before the expiry of their tick.
`SilentInv`: over a link that is down, the age of the neighbour, and once it is not
connected the age of each entry over it, is at least `quiet`, the time since the
last change; expiry takes what reaches its limit. `AnsweredInv`: over a link that
is up the neighbour is connected, or a PING or PONG will make it so in this tick.
A change or a loss makes `quiet` 0, where the last two claim nothing. `AnsweredInv`
also says that the round trip measured is that of the link (`Heard`).

`BestPathInForests` goes on from there. It assumes besides `Forest` that no way has
more than `Far` links (`Closer`: a number of 1 to `Far` for each pair of routers that
falls along the way), that `Far` round trips stay below `Infinity`, for a sum of
`INFINITY_COST` would be read as poison, and that `Settle` is at least
`3 + 10 * Far`: 15 s and 50 s for each link. `SettledInv` says why. Ports are right
at 3 (`QuietPorts`). A route to a neighbour that is cheaper than its link, left over
from an earlier delay or made of garbage, is renewed by nobody, so it ages with
`quiet` and is gone at 13 (`DirectInv`, `Fading`). Further out, `FollowInv`: once
the neighbour on the way has settled on an entry, ours is what it says and not old
(`Follows`), or its next table will make it so, or it knows no route and ours ages
(`FollowsSoon`). `SentInv` has the tables under way say what their senders know, and
leave before the expiry of their tick. `NearInv` bounds the costs, so that no sum
comes to `INFINITY_COST`. One step is delicate: an entry that is replaced must not
change for those who follow it. `SettledEntry` says that an entry that has settled
is determined by that of the neighbour it goes over, before a step and after it, so
a step of one router leaves its settled entries as they are (`SettlesOneNext`); and
expiry takes none that its neighbour still offers, for those are at most 25 s old
then (`ExpiresFollows`). That the neighbour's table speaks of the destination, and
is not poisoned, is the other half of `toward`: of two neighbours one is on the way
of the other.

A chain of three routers satisfies the assumptions with `Far = 2`, and asks for
`Settle >= 23`. Run `chain` has 19 and shows that this is enough there, for its two
changes and one flaky link; the theorem is for any number of either.

### The web server

`ServerInv` has the list without repetitions and equal to what is open
(`ListIsOpenSockets`), each connection in one place (`PlaceInv`: nowhere, in the
backlog, at one descriptor, or closed), what `select` left in `read_set` still
ready when the loop comes to it (`ReadyInv`), and what the one being served was
sent so far (`AnswerInv`). `ReadyInv` is why `recv` never fails on a client that
stays: a socket accepted after `select` may have the number of no old node in
`read_set`, for that was watched and is open. `DumpFact` and `AddFact` settle the
list. `AnsweredInv` adds that the words in the loop are those of the client it is
at. `SurvivesTheCareful` counts: a file that stays open is the page of a connection
that is closed (`CountInv`), so that descriptors in use are no more than clients
that came (`UsedAreFew`), and `NothingEndsIt` shows each of the ways to die closed;
`PageSparesTheCareless` adds that a step which ends the process does not turn the
client it serves into a careful one.
Assumed: `ServerAssumption`, of which the finiteness of `Fd` is the one that
matters.

### Only model-checked

- Liveness and what rests on fairness: `SenderExits`, `DeliversTheFileFairly`,
  `FloodsEnd`, `AskingIsAnswered`.
- What the tables are in networks with cycles: `BestPathIsRecorded` and
  `DeadLinksAreLeft` are false in a triangle (finding `tie`).

Proved and in no run: `RingHoldsWindow`, `FloodInv`, `NumbersAreUnique`, `SendsWhatItReads`,
`DijkstraInv`, `ParentInv`, `GapInv`, `ListInv`, `SumInv`, `LeavingInv`,
`SettledInv`, and the types of `LinkState` and `WebServer`.

## 5. Not modelled

Project2: byte contents (a block is a value, a length a number); wall-clock time
(a timeout may happen whenever nothing was read); command line, sockets and name
resolution; a second peer (both sides take the address of whoever wrote last);
`sendto` failing, which the code repeats until it succeeds; overflow of the 32-bit
packet number, which a 32-bit file length cannot reach; an acknowledgement of the
path whose unfilled memory reads as a FIN and verifies too (`UnfilledAssumption`),
which a fresh heap does not hold.

Project3: the event queue itself (`Simulator::run` dispatches the event on top and
pops after the handler returned, Simulator.cc:323; the models take any order that
time allows) and the configuration file; time in `LinkState`; costs of 65536 ms
and more in `LinkState`, of which a packet carries 16 bits (`LinkAssumption`); data
packets on their way (`NextHop` says where
one would go); packets after the shared 32-bit number has come round; several links between two
routers, two routers with one id. That distance-vector costs of real links wrap
(65 s of round trip) does not fit ticks of 5 s; garbage costs do wrap. Loops of
three routers, which could count up to infinity, need four routers, and TLC does
not finish them.

Project1: how much of a page one `send` takes, and the branches no state reaches
(section 3); what words that do not fit may do to other memory besides ending the
process, now or when they are freed; the contents of pages and headers; `client_num.c` beyond connecting,
sending and leaving, since the echo it measures does not happen.

`compare.cpp`, `name_addr.c`, pages, makefiles and generated trees: input, output
or nothing that runs.

## 6. Plan

Done: project2, both protocols of project3, and the server of project1, as above.
What is left, in this order:

1. `EventQueue`: `Simulator::run`, with the property that what is popped is what
   was dispatched, among equal times.
2. Partial sends: pages of several pieces in `WebServer`, and a property that says
   what a client can rely on.
3. Four routers in `DistanceVector`, perhaps with ticks of 15 s, for loops that
   poison reverse does not break.
4. Data packets over the tables of either protocol: no lasting loop once the
   tables are right.
5. Routing in networks with cycles: what still holds there of `BestPathIsRecorded`
   when no two routes cost the same, for the ties are what keeps old routes alive.
