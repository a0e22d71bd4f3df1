# Verification of the lwIP stack and its FreeRTOS port

TLA+ models, TLC runs and TLAPS proofs about the TCP/IP stack in
`src/Lwip/src`: lwIP 1.1 with the FreeRTOS port in `arch/FreeRTOS`, which an
embedded application links into its firmware. The rest of the repository
(kernel, board support, drivers, the demonstration application) is used by
the stack or uses it, and is modelled only where the stack touches it.

Line numbers below are those of the source files. Short names stand for their
paths: `mem.c` is `src/Lwip/src/core/mem.c`, and so on. `PROJECT.json` says
for every definition which lines it translates, and for every property which
mutant of the code it catches.

## 1. The system

### How it runs

One thread, `tcpip_thread`, runs the protocols. It waits for messages in a
mailbox, and while it waits it handles timeouts. The network driver's task
(`vMACTask`) minds the cable and gives it packets with `tcpip_input`.
Application threads call `netconn_*` or the socket layer on top of it, which
allocate an API message, post it to the thread and wait on a mailbox of the
connection for an answer. The protocols call back into `api_msg.c` when data,
acknowledgements or errors come, and that posts to the mailboxes and
semaphores the applications wait on. PPP has a thread of its own that reads
the line. Mailboxes, semaphores, critical sections and the list of timeouts
come from the port (`SYS_ARCH.C`) and from `sys.c`.

    application threads ── sockets.c ── api_lib.c ──┐  API messages
                               ▲                    ▼
                     event_callback          tcpip_thread (tcpip.c) ◄─ pppMain (pppif2.c)
                               │               │   ▲        ▲              ▲
                          api_msg.c ◄──────────┘   │        │ packets      │ serial line
                               ▲                   │   vMACTask (ethernetif.c)
                  callbacks    │                   │        ▲ frames, link
       tcp, udp, raw, ip, icmp, arp, dhcp, ppp     └─ timeouts (sys.c)
                               │
                   pbuf, memp, mem ── mailboxes, semaphores (SYS_ARCH.C)

### Inventory

| Component | State | Operations | What is hard | What makes it correct |
|---|---|---|---|---|
| Mailboxes, `SYS_ARCH.C` | ring, two indices, three semaphores | post, fetch, fetch with a limit | any number of posters and takers between any two semaphore calls; a limit that runs out halfway | it is a bounded FIFO; what is posted is fetched |
| Semaphore pool, `SYS_ARCH.C` | list of kernel semaphores that are never deleted | new, free | several kinds of users hand items to each other | one owner for each item, no unbounded growth |
| Heap, `mem.c` | headers in an array, `lfree`, `mem_used` | malloc, free, realloc, reallocm | joining on both sides, shrinking, moves in several critical sections | headers tile the heap, free blocks are joined, blocks keep their bytes |
| Fixed pools, `memp.c` | a free list for each type | malloc, free | a block freed twice | no block is both free and in use |
| Timeouts, `sys.c` | list of time differences, `lasttime` | timeout, untimeout, clear, callback | times are relative to a callback that was some time ago; handlers set timeouts themselves | none is early, none is lost, none disturbs another |
| API messages, `tcpip.c`, `api_lib.c`, `api_msg.c` | message pools, the thread's mailbox, for each connection a mailbox, a semaphore and an error | new, connect, recv, write, close, delete | caller and thread share a message; callbacks for a connection that is being deleted; short pools | a call gets its own answer, messages are not used after they are freed, calls return |
| Select, `sockets.c` | sockets with event counts, a list of waiting selects | select, recvfrom, accept | events between a look and a wait; the list used by two threads; a connection that gets data before it has a socket | no wakeup is lost and none made up |
| TCP connection, `tcp_in.c`, `tcp_out.c`, `tcp.c` | queues `unsent`, `unacked`, `ooseq`, windows, state | connect, write, recved, close, abort, input, output, timers | loss, duplication, reordering; simultaneous close; retransmission of what is acknowledged meanwhile; short memory | the stream arrives once and in order, its end after it, windows and queues agree, connections end |
| TCP control blocks, `tcp.c`, sockets over them | two pools, three lists, ports, priorities | socket, bind, listen, accept, connect, options, close, slow timer | blocks taken from others when there are none left; pointers to what is freed | lists, pointers and ports agree; only the quietest gives way |
| Buffers, `pbuf.c` | chains with reference counts | alloc, realloc, free, ref, cat, take | shared chains, pools that run dry | each buffer freed once, by its last user |
| IP, `ip.c`, `ip_frag.c`, `icmp.c`; UDP, raw | one datagram that is being put together; lists of pcbs | input, output, fragments, reassembly, echo | fragments lost, doubled, in any order, with a timer | whole datagrams only, to the right socket |
| ARP, `etharp.c` | a table with one queued packet for an entry | find, update, query, output, timer | two threads without a lock, a packet that waits, reuse of entries | a packet reaches the host that has the address |
| DHCP, `dhcp.c` | state machine with timers, options in three areas | discover, select, check, bind, renew, rebind, decline, release | lost, late and foreign answers, a server that forgets | an address is used only while it is leased and unique |
| Driver, `ethernetif.c`, `ethernet_phy.c` | frame semaphore, link, mode, state of the task | input, link watch, negotiation, reset | frames and link changes while the task is busy; failed accesses | no frame waits unnoticed, the interface is what the cable says |
| Interfaces, `netif.c`, `ctrl.c` | list, default, addresses | add, remove, up, down, set addresses | connections and listeners bound to an address that changes | nothing is routed to what is not there |
| PPP: `fsm.c`, `lcp.c`, `ipcp.c`, `auth.c`, `pap.c`, `chap.c`, `pppif2.c` | two automata with retry counters, phases, timers | open, close, hang up, packets, timeouts | two peers over a link that loses frames; callbacks from layer to layer | up means that both sides agree and have proved themselves; a close ends in time |
| PPP framing, `pppif2.c` | receiver state, accm, pbufs | output, `pppInProc` | damaged bytes, flags lost and made up, pbufs that run out | whole frames only, and only the hit ones lost |
| PPP over Ethernet, `ppp_oe.c` | softc, timers | discovery, session, end | concentrators that refuse, forget, are late | the session is the one agreed on; softc and timers go with it |
| VJ compression, MD5, SLIP, checksums, statistics | | pure computations | none that interleave | not modelled |
| IPv6 | | not built by the port | | not modelled |

`PROJECT.json` lists the components with their files, and says of each which
module models it or why none does.

## 2. The modules

| Module | Models | Run | Proved about in |
|---|---|---|---|
| `Fifo` | what a mailbox promises: the abstract specification | `mem_mbox` | |
| `Mbox` | mailboxes of the port, one step for each semaphore call | `mem_mbox` | `MboxProofs` |
| `Mem` | the heap | `mem_mbox` | `MemProofs` |
| `SemPool` | the port's pool of semaphores | `sys` | `SysProofs` |
| `Timeouts` | the timeout list and the callback of the loop | `sys` | `SysProofs` |
| `Mac` | the Ethernet driver's task and the PHY | `sys` | `SysProofs` |
| `Lists` | lists that are put in front of and taken off from | | `Lists` |
| `Netif` | the interfaces and who is at their addresses; uses `Lists` | `sys` | `SysProofs` |
| `Netconn` | applications, API messages and their pool, `tcpip_thread` and the callbacks | `netconn`, `netconn_twice` | `NetconnProofs` |
| `Select` | `lwip_select`, `event_callback`, `lwip_accept`, reads; uses `Lists` | `select` | `SelectProofs` |
| `TcpPcb` | what TCP does to one pcb, as operators from record to record | | |
| `Tcp` | two hosts, their applications and the network; uses `TcpPcb` | `tcp`, `tcp_leaks` | |
| `TcpOoseq` | reassembly of segments of any size | `tcp` | `TcpOoseqProofs` |
| `TcpPcbs` | pools, lists, ports and priorities of control blocks, as operators | | |
| `Sockets` | the life of TCP sockets; uses `TcpPcbs` | `sockets` | |
| `Pbuf` | packet buffers, as operators on a heap of them | | |
| `Ip` | IP, ICMP, UDP and raw IP of one host; uses `Pbuf` | | |
| `Datagram` | programs, hosts and an Ethernet that exchange datagrams; uses `Ip` | `datagram` | |
| `Etharp` | the ARP cache, as operators on an interface | | |
| `DhcpOptions` | the options of DHCP messages | | |
| `Dhcp` | the DHCP client; uses `Etharp`, `DhcpOptions` | | |
| `Lan` | driver's task, tcpip thread, hosts and a server; uses `Dhcp` | `lan` | `LanProofs` |
| `PppFsm`, `PppAutomaton` | the automaton of `fsm.c` with the options of LCP and IPCP | | |
| `PppLink` | phases, PAP, CHAP, echo and the interface; instantiates `PppAutomaton` twice | | |
| `Ppp` | two units, their programs and the line; uses `PppLink` | `ppp` | |
| `PppHdlc` | frames to bytes and back | | |
| `Pppoe` | discovery and sessions | | |
| `PppLine` | a serial line with `PppHdlc`, an Ethernet with `Pppoe` | `ppp_line` | |

`MC*.tla` and `MC*.cfg` are their instances. Operators whose comment begins
with "Mutant" or "A mutant" are what the operator of the code could have
been with a plausible slip. No specification uses them; with one of them in
place of the original TLC finds the property named for it in `PROJECT.json`
violated.

Two conventions recur. A C structure that several functions change is a
record, and the functions are operators from record to record, in the order
of their calls; a module above turns them into actions. And what may happen in
a run is a *plan*, *setup*, *scenario* or *course*: a record chosen in the
initial state with what the programs will do and a budget of what may go
wrong. Everything else interleaves freely.

### Mbox and Fifo

`sys_mbox_post` waits on `space`, then on `mutex`, writes, and signals `mail`
and `mutex`; `sys_mbox_fetch` mirrors it. `pc[t]` says between which calls a
thread is, `first`, `last` and `msgs` are the fields of `struct sys_mbox`.
The accesses to the ring under the mutex are one step. `sys_mbox_fetchT` may
run out of time while it waits for mail. `sys_mbox_drain` and
`sys_mbox_msgnum` have no caller in the repository and are left out.

The refinement to `Fifo` maps the queue to the slots from `first` on, with
the message appended when `last` moves, and taken off when `first` does.

### SemPool

`items` is the list at `g_pTSemHead` in its order, `sems[o]` the positions of
an object's semaphores. `sys_sem_new_m` takes the first unused
item or makes one; an unused item of another length is handed out as it is.
`sys_mbox_new` makes three calls, `sys_mbox_free` three more, with others in
between. `peak` is a history variable.

### Mem

`hdr` maps the offset of each live header to its `next`, `prev` and `used`; a
header that `plug_holes` absorbs leaves the domain, so that a read of it is
an error TLC reports. Sizes, alignment and `MIN_SIZE` are real bytes, with
the rounding of `mem_malloc` as written. `room` remembers what each caller
was promised. Each routine is one action, because it holds `mem_sem`
throughout; `mem_reallocm` is a copy step and a free step.

### Timeouts

Each entry holds the time after its predecessor, as in the code; `past` is
`now - lasttime`. `left` is what remains of the time asked for, which only
the properties use. `sys_timeout_callback` sets `lasttime` whenever it is
called and handles one entry at most; the handler runs while its block is
still taken. `TIMEOUT` is PPP's macro, which first takes its timeout back.

### Mac

`task` is where `vMACTask` is: not started, waiting for the frame semaphore,
reading, or negotiating; `left` says how many more frames it reads before it
waits again. `ring` holds the frames the EMAC library has stored, each TRUE if
the library called back for it, which it does once `callback` is set; `sem` is
the counting semaphore the callback signals. `cable` is the other end and the
modes it knows, `phy` the registers of the PHY that matter, `mac` the mode the
controller is set to. `fLinkUp` and `flags` are the driver's and the
interface's, `reset` is `INFO_MAC_RST`, and `sending` holds off a reset. The
library and the PHY are outside the repository: the first calls back for each
frame, the second follows IEEE 802.3, with a link bit that stays low until it
is read. Failed accesses to the PHY are choices, and so is whether the power
is off when a reset is due, which `ReInitMac` then passes over.

### Lists and Netif

`netif_list` is put in front of and searched as a C list; `Lists` has the
insertion and the unlinking that `netif.c` and `sockets.c` both write out.
The state is the list, `netif_default`, for each interface its flags and
address, and for each connection and listener the address it is bound to
(`local_ip`) and the list it is on (`on`): none from `tcp_bind` until
`tcp_listen` or `tcp_connect`, and TIME_WAIT's in the end. The actions are what
`ctrl.c`, DHCP and IPCP call: each runs the whole of `netif_set_addr` with its
walk over the lists of active and of listening blocks, which does not meet
those that are only bound. `late` is a history variable: the blocks that were
put on a list at an address that had gone since they were bound.

### Netconn

The pool is a function from each block to its successor and a head, so that
a block freed twice closes a circle as it does in memory; its free blocks
are the least set that is closed under going along the list. `app[c].pc` is
where an application is, `mbox` the mailbox of the thread, `conn[c]` the
`struct netconn`. `tcpip_thread` takes one message: `api_msg_input` makes
the whole handler `do_*`, and `FreeHandled` is what comes after it, a step of
its own because the caller wakes in between. Packets and timers reach
connections as the callbacks `recv_tcp`, `sent_tcp`, `err_tcp`, `poll_tcp`
and `do_connected`. An answer, a NULL message in the code, carries the call
it answers: only properties look at it. `twice` is a history variable: some
write has gone round its loop again, and so has a message that it has
already had freed (section 6).

### Select

A socket's `rcvevent` counts events, `recvmbox` what is there to be read.
`event_callback` is a step for each of: looking up the socket, counting the
event, going through the list until an entry wants it, signalling that entry.
`lwip_accept` is `Allocate`, `TakeOver`, `SetSocket`. `CountDown` may use the
number of the connection that was read before, or read it again: that is a
data race in C.

### TcpPcb, Tcp and TcpOoseq

`TcpPcb` translates `tcp_enqueue`, `tcp_output`, `tcp_rexmit*`,
`tcp_receive`, `tcp_process`, `tcp_input`, the timers and `tcp_close`,
`tcp_abort`, `tcp_recved`, each as an operator on a pcb record with the
fields of `struct tcp_pcb`. Three more fields collect what a call sends and
what it tells the application; they are empty between calls. Data is counted
in segments; an mss is two units so that it can be halved, and SYN and FIN
take one.

`Tcp` makes each call into the stack an action: a segment arrives (for an
active pcb, one in TIME_WAIT, the listening pcb or none), a timer ticks, the
application connects, writes, reads, closes or deletes. A timer runs out for
free when no segment is on the way and nobody waits to send a delayed ACK,
and costs some of the budget otherwise: retransmission takes seconds in a
network of milliseconds.

`Tcp` has segments of one size. In `TcpOoseq` segments of a stream overlap in
any way: `tcp_receive` trims the front of what is partly known, puts it in
the queue, replaces, cuts, delivers and drains. Lengths are sixteen bits.
`lost` counts the `tcp_seg`s that were replaced and not freed, and `overlapped`
says that a piece reaches into the next one or that one which was cut has kept
its FIN: things the code does that the properties must except (section 6).

### TcpPcbs and Sockets

A *world* is a record with the control blocks, the lists `active`, `tw` and
`listen`, the last ephemeral port, the netconns and the number of mailboxes.
Its operators are `tcp_alloc` with `tcp_kill_timewait` and `tcp_kill_prio`,
`tcp_bind`, `tcp_listen`, `tcp_connect`, `tcp_close`, `tcp_slowtmr` with
retransmission and keepalive limits, what a segment does to a state, and the
callbacks of `api_msg.c`. `STALE` stands for a pointer to what is freed. In
`Sockets` a call is the step the tcpip thread makes for it, and what the call
does afterwards is another: a close drains the mailbox of accepted
connections, finds it empty (`drained`) and frees it, and a connection may be
put into it in between. A block's `fin` says what becomes of its FIN: sent,
held back by the peer's window (where the plan is `full`), or taken back by a
timeout, which rewinds `snd_nxt`, so that no acknowledgement can end CLOSING,
LAST_ACK or FIN_WAIT_1 any more.

### Pbuf, Ip and Datagram

A heap of pbufs is a function from numbers to records with chain, length,
offset and count; whether a pbuf is from the pool, from the heap or refers to
memory of somebody else shows in its number. `Ip` has a host with its
interface, ARP's answer, the buffer for reassembly with its bitmap and timer,
and the pcbs; contents are abstracted to which part of which message a
packet is, and whether it is damaged. `Datagram` adds programs that carry out
scripts of socket calls, each of them the sequence of netconn calls of
`sockets.c`, and the Ethernet. A host has `missed` something, a history
variable, when a packet was dropped because another one already waited for
ARP's answer, or a fragment because the buffer for reassembly was another's.

### Etharp, DhcpOptions, Dhcp and Lan

An interface is a record: addresses, the ARP table with states, ages and a
queued packet, the DHCP client with its state, timers and tries. `Lan` runs
the driver's task and the tcpip thread on it. The driver's handling of one
frame is several steps, between which the thread may run where the scenario
has `preempt`; the thread gives way only where it waits for the transmitter
(`yields`). The options of a DHCP message lie in three areas and are found as
`dhcp_get_option_ptr` finds them, over the cut of a pbuf chain as well.

### PppFsm, PppAutomaton, PppLink and Ppp

A unit is a record with the two automata `lcp` and `ipcp`, the phase, the
state of PAP and CHAP and the interface. C's callbacks are parameters and
constants, stacked in the order of who calls whom. LCP's options are cut down
to authentication, magic number and one that stands for all that are simply
granted or not. `Ppp` has the thread that called `pppOpen` and waits, the one
PPP thread with `pppMain`, and the tcpip thread with its timers. The mailbox
between the latter two is folded into the line.

### PppHdlc, Pppoe and PppLine

`PppHdlc` works on bytes: escapes, the accm, the FCS with the polynomial of
the source, and the fields left out when agreed; a write may be cut at any
byte. `Pppoe` has a unit with its softc, timers and phase, and LCP's state,
timer and count of Terminate-Requests, of which `PppFsm` has the detail. The
softc's memory stays what it was after it is freed (`listed` says whether it
is in use), since `pc->pppoe_sc` is never cleared: what LCP sends then goes
through it. A tick is `PPPOE_DISC_TIMEOUT` (5 s), so that 12 ticks are the 60 s
of the opener and 3 those of `pppClose`.

`PppLine` runs one of them on a line with faults. Three tasks use a unit: the
program, the tcpip thread (timers, messages, what the driver handed to it) and
the driver's task (discovery). `pppoe_destroy`, which has no lock, is three
steps of a task: it finds the softc, takes back the timer, frees (`inside`).
`pppOverEthernetClose` closes LCP, destroys, sleeps and clears the timers;
`pppClose` closes LCP, waits, clears the timers, and destroys. `past` is a
history variable: two tasks have `met` in `pppoe_destroy`, the program has
`called` `pppOverEthernetClose`, a session was confirmed too `late`, while
`pppClose` waited.


## 3. The runs

Times are for two workers on an idle machine.

| Run | Instance | What it shows | Time |
|---|---|---|---|
| `mem_mbox` | heap: 72 bytes, real header, alignment and `MIN_SIZE`, 5 sizes. Mailbox: 2 posters, 2 takers, 2 slots, 2 posts each | `HeapIsSound`: the headers tile the heap, free blocks are joined, `lfree` is free, callers keep their bytes, through every order of calls, concurrent moves included. `RingIsSound`: indices, slots and semaphores agree at every point of every call. `ImplementsFifo`: a mailbox is a bounded FIFO, limits that run out included. `EverythingDelivered`: what is posted is fetched. | 1:20 |
| `sys` | a mailbox and a signal; 2 handlers (one periodic), 3 timeouts; driver with 2 buffers, 3 kinds of partner; 2 addresses, 2 connections, 1 listener | `PoolIsSound`: one owner for a semaphore, no more of them than needed. `TimersAreSound`, `OthersKeepTheirTime`: no block lost, no entry early by more than a round of the loop, none moved by calls about others. `DriverIsSound`: no frame waits unnoticed, both ends are in one mode. `RoutesAreSound`: what is routed to is listed, and nobody on TCP's lists is at an address that is gone, but those who came late (section 6). `AllIsServed`: every timeout is handled, and the interface becomes what the cable says. | 2:50 |
| `netconn` | 2 applications, 2 API messages; setups with 2 and 3 tcpip messages; a reset, a shortage, a write in two parts | `MessagesAreSound`: messages and connections outlive their use. `AnswersMatch`: a call gets its own answer. `Return`: calls that do not wait for data come back. | 1:40 |
| `netconn_twice` | writes in two parts | violation: see section 6 | |
| `select` | 2 threads, one with time limits; 2 sockets, one of which is accepted; 3 events | `NoLostWakeup`. `WakeupsAreTrue`: what is there to be read is counted, a signal finds a select that waits, a woken select finds something. `DataWakes`: it is woken in the end. | 2:50 |
| `sockets` | 9 plans; 2 pcbs, 1 listening pcb, 3 netconns, 3 ports | `PcbsAreSound`: lists, ports and pointers agree. `NothingElseIsLost`: nothing is lost but what section 6 names. `OptionsHold`. `GivesWay`: a block is taken only from the quietest. `EndsAreReached`: connections end, closed ones come back, but those that no timer looks after (section 6). | 2:05 |
| `tcp` | 5 courses, window and buffer of two segments; reassembly of 5 bytes in pieces of one and two, 4 `tcp_seg`s; its FIN alone or with two bytes | `StreamIsWhole`: in order, the end last, what is acknowledged was delivered, the window is free space. `SenderAccounts`: queues, `snd_buf` and `snd_queuelen` agree. `ReassemblyIsSound`: the same of pieces that overlap. `StreamsArrive`: where nothing goes wrong all arrives and both pcbs are given back. | 2:30 |
| `tcp_leaks` | the server closes last | violation: see section 6 | |
| `datagram` | 7 plans; 3 hosts and their programs, datagrams of up to four fragments | `RefsAreHeld`: no pbuf leaks or is freed while it is held. `ReceivedIsWhole`: sockets get whole messages meant for them. `Arrives`: all of them where the network loses nothing and no host has missed one, ARP asking first and programs waiting for each other. `BufferIsFreed`: the one buffer for reassembly comes free again. | 2:45 |
| `lan` | 6 scenarios of the cache, 7 of leases; 3 hosts, a server, a table of 2 | `FramesReachTheirHost`. `CacheIsSound`: a packet waits exactly for an answer that is due. `AddressIsOurs`: an address is used while it is leased and nobody else answers for it. `GetsAnAddress`. | 0:45 |
| `ppp` | 20 scenarios of two units | `ConnectionsAreSound`: an interface is up over layers that agree at both ends, and after a proof where one was asked for. `UndisturbedComesUp`. `NoStandstill`: somebody can always act who will. `CloseEndsInTime`. | 2:05 |
| `ppp_line` | 10 scenarios of a serial line with pbufs of 12 bytes; 12 of PPPoE with concentrators that refuse, forget, are late and end the session | `FramesAreSound`: whole frames only, and only the hit ones lost, buffers balance. `SessionIsSound`: the session is the one agreed on, softc and timers go with it, once, and LCP is ready for the next time, with the exceptions of section 6. `OpenComesUp`: three losses do not keep it from coming up, the first time or after `pppClose`. | 2:30 |

`mem_mbox` and `sys` run parts that do not meet: `part` says which of them a
behaviour is about, and the variables of the others rest.

### Bounds, and why they are enough

* `mem_mbox`: two slots are the smallest ring in which the indices differ, meet
  when it is full and meet when it is empty; four posts go round it twice. Up
  to four blocks fit in the heap, so that a block can be freed between two free
  ones and two moves can be under way. Sizes 0 and 1 are rounded up to less
  than a header, 44 leaves a rest too small to split. `MaxDrift` bounds how far
  `mem_used` may fall behind: a shrink that does not split is counted as if it
  had, so the counter drifts for ever. For all sizes the proofs take over.
* `sys`: a mailbox asks for three semaphores of two lengths, a signal for one
  of one length, so that items change kind. Three timeouts are enough for an
  entry with one before and one behind, and for the pool to run out; a delay
  of 1 is less than the gap between callbacks, 3 is more; `MaxLate` is where
  `left` stops counting, and no property depends on how late an entry is. The
  driver has two buffers and a semaphore that counts to 1 (255 in the port), so
  that frames outnumber counts. Two connections and a listener over
  two addresses meet each way of losing an address: taken over, given up,
  interface down, each before and after the block is put on its list. For all numbers the proofs take over.
* `netconn`: two API messages for two applications, and two tcpip messages for
  both and a driver, are fewer than the real 8 and 8 for 4 connections, so that
  both pools run out. With a reset `AnswersMatch` fails (section 6), so that
  the crowded setup has none. The other setup has a send buffer of one unit
  that a write wraps round, and three tcpip messages for one caller, since a
  call is lost when they run out.
* `select`: two selects and two sockets are the least for a callback to find
  an entry it does not want before one that it does. Events come to 3: one
  that wakes, one in between, one to be read later.
* `sockets`: two pcbs (as in `lwipopts.h`) and three netconns, so that one has
  to give way. A port range of three ends and begins again. Each limit is one:
  a try of a retransmission is one tick of the slow timer, so that a peer that
  is silent is given up in few steps. The heap and the API messages suffice:
  what happens when they do not is `netconn`'s subject.
* `tcp`: the window and the buffer are of two segments, so that a segment can
  be overtaken and one be lost while another arrives. Each course is one cause
  of trouble alone or paired with the one it interacts with: a loss with an
  overtaking, a loss with data both ways and a half-close, a shortage of
  memory with a timer that is early, and three copies, the number of
  duplicates that starts a fast retransmission. `TCP_MAXRTX` is 2 and
  `TCP_SYNMAXRTX` 1 so that connections are given up as well. Five bytes in
  pieces of one and two can leave two holes with a piece that overlaps on
  either side; the FIN comes alone or with the last two bytes, so that a piece
  that has it can be cut. Once `overlapped` is set the length of what is
  delivered is bounded (`Arrives`): a stream longer than was sent is not
  followed.
* `datagram`: pbufs of 64 bytes and an MTU of 84 make two and three fragments
  of some 100 bytes, over chains of several pbufs. The buffer of 192 bytes
  (2048 in `ip_frag.c`) is exceeded by one plan. Each plan has the faults it is
  about: parts lost and doubled, two hosts at once, holes, silence, pools
  that run dry, or none: then programs send to each other before ARP knows
  anybody, and wait for what they are sent.
* `lan`: two entries for three hosts and a server, so that entries are used
  again. One renewal, one rebinding and two tries of each message pass through
  every state of the client; ages are a few ticks, in the order of the real
  ones.
* `ppp`: each limit is two tries (10 in the code), enough for the first to be
  lost and the second to succeed, or both lost. Scenarios have one or two
  losses, one open after another, and each way to prove oneself in turn.
  `pppClose` waits for 15 s, which are counted against LCP's own retries.
* `ppp_line`: a frame takes one or two pbufs of 12 bytes. Four PADI and two
  PADR as in `ppp_oe.c`, two Terminate-Requests as in `opt.h`; a tick is 5 s,
  so that 12 are the opener's minute and 3 the wait of `pppClose`. LCP's 6 s
  are due within the second tick. The second open of a scenario finds what the
  first close has left.

### Deadlock

It is an error in `mem_mbox`, `sys` and `sockets`: a taker tries again and
again, timers tick, sockets are closed and made again. It is not in
`datagram`, `lan`, `ppp` and `ppp_line`, whose plans come to their ends (where
they may end is what `BufferIsFreed`, `GetsAnAddress`, `NoStandstill` and
`SessionIsSound` say), in `select`, where applications may stop calling and
events are bounded, in `netconn`, where a caller whose message was refused
waits for ever, and in `tcp` and `tcp_leaks`, where a pcb can stay in CLOSING
for ever (section 6; of sockets `Unattended` says it); `StreamsArrive` says that it does not where nothing goes
wrong.

### Fairness

* `Mbox`: weak fairness of each thread's next step, and takers fetch again. A
  FreeRTOS task that can run does run; which of several waiters a semaphore
  wakes depends on priorities, so nothing stronger is assumed.
* `sys`: time passes and the tcpip thread goes round its loop; nothing says
  that timeouts are set or taken back. The driver's task takes its steps, the
  PHY links, a transmission ends. A reset is strongly fair: it waits for
  the semaphore of the transmitter, which the tcpip thread takes again and
  again but never keeps.
* `Netconn`: threads take their steps, the driver gives packets, the other
  side acknowledges, and the 250 ms timer runs. The last three are strongly
  fair: each is one of many things the one thread does, and
  `sys_wait_multiple` looks at the mailbox before it looks at the timers.
* `Select`: a callback that has begun and a select that was woken go on.
  Applications are not obliged to read, and time limits need not run out.
* `Sockets`: a close that has begun goes on, the slow timer ticks.
* `Tcp`: as long as nothing has gone wrong (`Undisturbed`) the thread takes
  what arrives, its timers go on, the applications read, write and close.
  `TcpOoseq`: each piece of the stream arrives again, because the sender
  repeats what is not acknowledged. Nothing is assumed about the pool.
* `Datagram`: a host deals with what arrived and goes on with its program, and
  a timer of reassembly that has nothing left to wait for runs out.
* `Lan`: the driver's task takes its steps, the cable is plugged in again, the
  network delivers or loses what is on it, and the tcpip thread runs, its
  timers when no answer is on its way.
* `PppLine`: on the Ethernet side the unit, its timers and the concentrators
  go on. `Ppp` states its liveness as invariants of states in which nothing
  more can happen without outside help, and assumes no fairness.

## 4. What is proved

TLAPS checks the proofs for every value of the constants that satisfies the
named assumption of the module. The assumptions say no more than what the
types of C and the port's settings say: numbers are natural, sets that stand
for different things are disjoint, a ring or a pool for which the code needs a
place has one. TLC evaluates them in the runs.

| Theorem | States |
|---|---|
| `RingStaysSound` | `MboxSpec => []RingIsSound`: indices, slots and semaphores agree |
| `MboxImplementsFifo` | `MboxSpec => ImplementsFifo`: every mailbox is a bounded FIFO |
| `HeapStaysSound` | `Spec => []HeapIsSound` of `Mem`, made of `HeapTypes`, `HeapStaysTiled`, `HeapStaysJoined`, `LfreeStaysFree`, `BytesStayKept` |
| `PoolStaysSound` | `SemPoolSpec => []PoolIsSound`: semaphores have one owner, and there are no more than were needed |
| `DriverStaysSound` | `MacSpec => []DriverIsSound`: no frame waits unnoticed, both ends are in one mode |
| `RoutesStaySound` | `NetifSpec => []RoutesAreSound`: the default is listed, nobody on TCP's lists is at an address that is gone, but those who were put on them late |
| `TimersStaySound` | `TimeoutsInit /\ [][TimeoutsNext] => []TimersAreSound`: no block is lost, no time below zero, none early by more than a round |
| `OthersAreKept` | the same `=> OthersKeepTheirTime`: a call moves no timeout but its own |
| `MessagesStaySound` | `Spec => []MessagesAreSound` of `Netconn`: messages and connections outlive their use |
| `AnswersStayMatched` | `Spec => []AnswersMatch` of `Netconn`: a call gets its own answer |
| `NoWakeupIsLost` | `Spec => []NoLostWakeup` of `Select` |
| `WakeupsStayTrue` | `Spec => []WakeupsAreTrue` of `Select`: data is counted, a signal finds its select, a woken one something to read |
| `CacheStaysSound` | `Spec => []CacheIsSound` of `Lan`: one entry for an address, what waits has its own entry and is not left there |
| `StreamStaysWhole` | `OoseqSpec => []ReassemblyIsSound`: pieces of any size, in any order, become the stream |

`SPEC` of a run that joins several modules (`MCSys`, `MCMemMbox`) is the
disjunction of theirs; the theorems are about each module's own specification.

**Mailbox.** The inductive invariant is the property itself: the types and
`RingAgrees`. `RingAgrees` counts: each slot is free (a unit of `space`),
reserved by a poster that has not written yet, occupied, or being returned by
a taker; each message in the ring is announced (a unit of `mail`), claimed by
a taker that has not read yet, or not announced yet; and `mutex` is 0 exactly
while one thread is between its wait and its signal. The semaphores alone
satisfy no such account: it needs the threads between two calls. The lemmas
say how the number of threads at a place changes when one of them moves
(`MoveOne`, `CountsMove`); posts and fetches then have one lemma each, with a
step for each action. The refinement needs the invariant where `first` or
`last` moves (the slot written is free, the one read is the oldest), and
`Armed`, a second invariant: a poster that has not written yet has a message
to write. Initial states map to initial states; a write is `HandOver`, a read
is `Receive`, the call is `StartPost`, all others stutter.

**Heap.** `TypeOK` and the four properties are not inductive one by one: that
a block found by the search is cut in two safely needs the order of offsets
and the last block to be free, joining needs both links, and that a block
keeps its bytes needs the moves under way to be apart. `Inv` conjoins them:
`HeapInv` on the header list, `lfree` and the promises to callers, and
`MovesApart`, that no block takes part in two calls of `mem_reallocm`. Lemmas
show that cutting a block in two (`CarveTiled`), joining it with the next one
and with the one before (`AbsorbTiled`, `PlugForwardSound`,
`PlugBackwardSound`), and thus `plug_holes`, keep the list sound;
`mem_malloc`, `mem_free`, `mem_realloc` and the two halves of `mem_reallocm`
are put together from these. That callers hand in only blocks they hold, each
in one call at a time, is the model's assumption about them.

**Semaphore pool.** `PoolIsSound` counts the owners of an item. `SemPoolInv`
says who they are: what an object has are items in use, no item twice
(`OwnerInv`), and how many it has follows from where in its life it is
(`PoolInv`), between the three calls of `sys_mbox_new` as well. A new item is
made only when there is no first unused one, hence no unused one at all
(`SomeFirst`, by well-founded induction from the library), so that then all
are in use and `peak` is their number (`PeakInv`).

**Driver.** `RingInv`: the ring and the semaphore are within their bounds,
and a frame that was called back for has a count, or the task is reading and
will come to it: `left` is at least what stands before it. `LinkInv`: a link
that is up has a partner; a link that is down has been noted as dropped, which
is what makes the task see it later although the bit shows the link up again;
a negotiation that is done has the best mode common to both. The property
follows once the mode the controller is set to is tied to these.

**Timeouts.** The code keeps differences, the property is about sums of them.
`Wait` is such a sum as a recursive function, and the lemmas say what becomes
of the sums when an entry is put in or taken out and its neighbour's
difference is made smaller or larger (`Sums`, `Inserted`, `Removed`): all
other entries are due when they were (`Kept`). `TimeoutsInv` has the blocks of
the pool shared out between the list and the free ones (`Shared`), and that no
entry is early by more than the gap since the last callback (`Punctual`). A
call, or all that a handler calls, keeps the entries and adds some that wait as
long as they were asked to (`Extends`); the callback takes off the first. That
others keep their time is the same fact as an action property.

**Interfaces.** The property needs what the two drivers of addresses know:
PPP's interface is on the list exactly while `if_up`, is up only then, and has
the address IPCP agreed on; Ethernet's is never off the list; no interface is
on the list twice; and (`InOrder`) every block on one of the lists that are
walked has the address of one of the two, unless it was put there `late`. Blocks
that are only bound, or in TIME_WAIT, may have any, and nothing is claimed of
them. The lemmas of `Lists`
say what inserting in front and unlinking do to the elements of a list and to
its order, and serve `Select` too.

**API messages.** The calls share a pool, two mailboxes and a semaphore, and
what keeps them apart is nowhere written in the code. `NetconnInv` has four
parts. `NetTypes` are types. `CountInv` accounts for the tcpip messages: free,
in the thread's mailbox, or being handled. `AsksInv` says that of each
connection at most one message is about, that its call waits for it
(`Attends`), and where an answer may still come from (`Awaited`); it holds as
long as no connection is reset, because `err_tcp` answers a call nobody makes
(section 6). `SharedOut` says that the blocks of the API pool are shared out
among the free list, the mailbox, the thread and the writes; the free list is
any sequence that the links of the blocks describe, so that taking a block from
its head or putting one in front is a step on sequences. It holds as long as
no write has gone round its loop again, for then a message is used that was
freed, which is the finding of `netconn_twice`. The steps fall into the turns
of a connection, the handling of a message, what happens to a connection from
outside, and the freeing after a message; each has lemmas of its own.

**Select.** `SelectInv`: callbacks are about sockets there are (`CallbackInv`)
and on the list is who waits, once each (`ListInv`). A lost wakeup is a select
that sleeps although what it waits for is there; the invariant `Minded` says
of each select that sleeps: either it has been marked as signalled and a
thread is just about to signal it, or for each of its sockets that is ready a
thread is still going through the list on that socket's behalf. The proof
rests on two orders of the code: a select looks at the sockets and goes on the
list while it holds `selectsem`, so that nothing it waits for is ready then;
and a callback counts its event before it goes through the list, and goes
through it again after each select it has signalled, until there is none left
to signal.

That wakeups are true rests on `WakeInv`, of five parts. A connection that was
accepted before the start has its own number and socket for good, and a
callback that is past its lookup is about the socket of its own connection
(`NumbersInv`). Only the tcpip thread announces data, only the owner takes it,
and who is in a select is in no callback (`EventsInv`). `rcvevent` is what is
in `recvmbox`, plus one while the tcpip thread has counted and not yet posted,
plus one while the owner has taken and not yet counted (`AccountInv`): the
order of `recv_tcp`, which counts before it posts, and of `lwip_recvfrom`,
which fetches before it counts. A select without a time limit leaves only once
it was signalled, by the one thread that marked it (`SignalInv`). And where
only the owner reads, a select that is marked still finds what it was marked
for (`FindsInv`). What `NumbersInv` says of callbacks, `AccountInv` and
`FindsInv` are about states with `OwnNumbers`; a connection that has lost its
own number does not get it back (`NumbersStay`), so such a state was reached
through such states only.

**ARP cache.** `CacheIsSound` is about what the driver's task and the tcpip
thread leave behind, and in between it does not hold: the task finds a slot,
marks it, writes it and sends what waits there, in steps between which the
thread may run. `LanInv` therefore exempts from it what waits on the slot at
which the driver's task is (`At`), and says of the empty slot it has found that
it is the one any other call would take and that nobody has meanwhile made an
entry of that address (`Reserved`); of a packet that `etharp_query` holds, that
it will fit the entry it is put on (`QueryInv`). That nothing is left waiting
needs that whoever has asked gets an answer: as long as nothing was lost, for
each entry that is pending and whose host is there, a request or an answer is
on a wire, or the driver's task has just found the slot (`AnswersInv`); and
without a cable there is no client and no address (`LinkInv`). Lemmas go along
the calls of `etharp.c` and `dhcp.c`, from one entry to `find_entry`,
`etharp_query`, `etharp_output` and the client's messages. `LanAssumption`
says that hosts have unicast addresses, and that tables age only where the two
tasks do not meet: the driver of this port, which has a task of its own, never
calls `etharp_tmr`, and one that aged entries between the task's steps could
have two entries for one address.

**Reassembly.** What the queue is and what has been delivered agree as long as
`overlapped` is not set; `OoseqInv` says how: what was delivered is the stream
up to `rcv_nxt` (`StreamInv`), and the queue has pieces of the stream, none
reaching into a later one (`Whole`), that begin beyond `rcv_nxt` while there is
more to come (`AheadInv`). That the queue rises in sequence number and that no
`tcp_seg` is forgotten holds always. Lemmas on parts of the stream say what
cutting at either end leaves (`CutIsGood`, `TrimmedIsGood`): lengths are
sixteen bits, and every difference the code takes fits them because of the
invariant. Putting a piece between two others is one lemma (`PutIn`), where
the walk stops another (`StopIs`). The draining of the queue is a recursive
function; its values are followed from one piece to the next (`DrainedIs`):
each is taken or left, those left are the end of the queue, and what has been
taken is the stream up to the first that was left (`Reaches`).

**Only model-checked**: all modules without a proof module, and in the others
liveness (`EverythingDelivered`, `AllIsServed`, `Return`, `DataWakes`,
`GetsAnAddress`, `StreamsArrive`), deadlock, and of `Lan` the frames and the
leases. Liveness under fairness and ENABLED are beyond what the prover does.
So are results of recursive operators for every input; recursive functions
over an interval (`Wait`, `Drain`) are reasoned about by well-founded induction
over the interval, with the set of good indices in place of a predicate.

## 5. Plan

Done: models of every part of the stack the port builds, and proofs about its
ground floor (mailboxes, heap, semaphores, timeouts, driver, interfaces), about
the places where threads meet (API messages, select, ARP's cache), and about
TCP's reassembly.

Next, in this order:

1. `SenderAccounts` of `Tcp`, from lemmas on the operators of `TcpPcb`.
2. `PcbsAreSound` of `Sockets`, from lemmas on those of `TcpPcbs`.
3. `AddressIsOurs` of `Lan`: the client's half, in what the server's book says.

## 6. What came to light

### Findings shown by a run

* `tcp_leaks`: `tcp_process` sets the state to CLOSED (`tcp_in.c:645`) before
  `tcp_pcb_remove`, and `tcp_pcb_purge` does nothing in CLOSED. Segments still
  on `unsent` or `ooseq`, and data the last segment carried, never return to
  their pools. The comment at `tcp.c:1040` says that it removes any buffered
  data.
* `netconn_twice`: `netconn_write` posts the same API message for each part of
  the data (`api_lib.c:678`), but `tcpip_thread` has freed it after the first.
  Then it is freed again and is on the free list twice, against the
  assertion `memp sanity` (`memp.c:270`), which is not compiled in.

### Known limits the properties are stated around

These are what the code does, met while modelling. Where the model contains
them, properties except them by name; where a bound or an instance leaves
them out, it says so here.

Heap and port:
* `mem_realloc` can make a free block below `lfree` (`mem.c:243`), where
  searches do not begin; `mem.c:77` calls it the lowest free block.
  `LfreeIsFree` is what still holds.
* A freed semaphore is handed out for another use with the length and count
  it had (`SYS_ARCH.C:130`, comment at 125).

Timeouts:
* An entry counts from the last callback and so is early by up to a round of
  the loop (`sys.c:68`; `sys.h:91`): hence `EarlyByAGapAtMost`.
* Lateness adds up behind a periodic timer, since one callback handles one
  entry and starts anew (`sys.c:176`).
* A periodic handler that finds the pool empty is gone without a word
  (`sys.c:175`). The PPP thread uses the same list without a lock
  (`sys.c:66`): not modelled.

Driver and PHY:
* The code prefers 10 Mbit/s full duplex to 100 half duplex
  (`ethernet_phy.c:359`), IEEE 802.3 the other way round: partners that know
  just these two disagree. Hence `Agreeable` in `ModesAgree`.
* When both attempts at the PHY fail, `flags &= NETIF_FLAG_LINK_UP` clears the
  flags for broadcast and ARP for good.
* `ReInitMac` clears UP while `fLinkUp` stays set. Only the loss of the link
  which its own reset of the PHY causes puts that right.
* A PHY found at another address is not used afterwards, and a failed read is
  taken for a device (`ethernet_phy_find_valid`); the result of
  `ethernet_phy_reset` is inverted. The mode setting in
  `ethernet_phy_set_link` has no caller.
* Frames that fill the buffers while no callback is set may leave the
  receiver without a count: `FramesAreSignalled` is about frames called back
  for.

Interfaces:
* `ip_route` does not look at the destination (`ip.c:90`, `#if 0`): everything
  goes to `netif_default`, and after PPP has gone down there is none until the
  application sets it.
* A listener for any address is renumbered when an interface without address
  gets one (`netif.c:186`), and hears only that interface from then on.
  Connections in SYN_SENT without a route are aborted then.
* A block that is bound but neither listens nor connects is on no list
  (`tcp.c:365`), so that `netif_set_ipaddr` does not see it (`netif.c:175`).
  A `tcp_listen` or `tcp_connect` that follows (`tcp.c:411`, 520) puts it on
  one with an address that no interface has: it is reached by nobody, and no
  call fails. `AddressesFollow` excepts it (`late`), until an interface gets that
  address. Blocks in TIME_WAIT keep theirs too.
* `netif_remove` leaves connections where they are. `netif_add` forgets the
  DHCP client of an interface added again. The list has no lock, and
  `dhcp_bind` changes address, mask and gateway in three steps that the
  driver's task can read between.

API:
* A post that finds no tcpip message frees the API message and the caller
  waits for ever (`tcpip.c:278`).
* `err_tcp` posts an answer nobody waits for (`api_msg.c:186`), which the next
  call takes for its own. Hence `errors = 0` in `AnswersMatch`.
* `do_connect` ignores what `tcp_connect` returns (`api_msg.c:547`): a failed
  connect is never answered. Hence no `CONNECT` shortage where calls must
  return.
* A window update is lost when there is no API message left
  (`api_lib.c:569`).
* `recv_tcp` overwrites the connection's error, so that a refused part of a
  write is skipped (`api_msg.c:122`); it leaks data for a connection without
  a mailbox (`api_msg.c:120`).
* `netconn_write` reads the pcb that `err_tcp` clears (`api_lib.c:658`). A
  write that the poll timer wakes without room posts a part of length 0.

Sockets:
* A select that times out leaves its entry, a local variable, to a callback
  that has already found it (`sockets.c:893`); `SignalledInTime` is about
  selects that cannot time out.
* The count kept in `newconn->socket` is taken over in two steps
  (`sockets.c:213`) while the other thread counts it down: events are lost, or
  the connection gets another socket's number. Hence `OwnNumbers`.
* `selectsem` and `socksem` are made when first used, unprotected
  (`sockets.c:844`); the bound of `get_socket` is off by one
  (`sockets.c:120`), and `err_to_errno` has no entry for the last two errors
  (`sockets.c:91`).
* `netconn_new` loses its mailbox when there is no pcb (`api_lib.c:236`), a
  failing `tcp_listen` the closed pcb (`tcp.c:400`): what `NothingElseIsLost`
  excepts.
* A connection that is accepted after `netconn_delete` has drained the mailbox
  and before it frees it (`api_lib.c:296`) is lost with it.
* A handshake that ends after its listener's netconn was freed calls
  `accept_function` with it (`tcp_in.c:440`): left out of `Sockets`.
* Options set on a socket without a pcb go through a NULL pointer, and on a
  listener beyond its block; binding without a pcb, connecting twice and
  listening when connected are not refused. The plans do none of this.
* Two sockets that do not listen may be bound to one port.
* A new connection takes the block of the quietest one
  (`MEMP_NUM_TCP_PCB` is 2, all priorities are the same): `GivesWay` says that
  it is the quietest.
* `lwip_close` ignores that `netconn_delete` may fail.

TCP:
* LAST_ACK, CLOSING and FIN_WAIT_1 end on `ackno == snd_nxt`, whatever is
  still unsent (`tcp_in.c:643`).
* After a timeout rewinds `snd_nxt`, an ACK for everything leaves it behind
  `lastack` (`tcp_in.c:842`): `ackno == snd_nxt` (`tcp_in.c:603`, 632, 643)
  never holds again, nothing is left to retransmit, and CLOSING, LAST_ACK or
  FIN_WAIT_1 never ends, unless the peer resets the connection. A FIN that the
  window holds back is in no timer's care either. `EndsAreReached` excepts
  both (`Unattended`).
* `cwnd` can become 0, and is then divided by (`tcp_in.c:721`, 776). The ARM
  core yields 0, and that is what the model does.
* `nrtx` is tested for equality (`tcp.c:587`), and fast retransmissions count
  too, so that the limit can be passed.
* There is no persist timer: one window update that is lost stops the
  connection (`tcp.c:446`). `Completed` is stated for a network that loses
  nothing.
* A FIN on the ACK of SYN|ACK is announced, but the state stays ESTABLISHED
  (`tcp_in.c:565`).
* A keepalive abort uses the pcb it has freed, and the walk along the list
  stops there (`tcp.c:633`). `tcp_listen_input` ignores the result of
  `tcp_enqueue` (`tcp_in.c:458`).
* A peer that keeps sending keeps a pcb in FIN_WAIT_2.
* A longer segment that replaces one on `ooseq` is not cut to what follows
  (`tcp_in.c:1087`), and the `tcp_seg` it replaces is not freed (1089): `lost`
  and `overlapped` in `TcpOoseq`. Once it overlaps, a stale segment may be
  trimmed by more than it has, and its length wraps (`tcp_in.c:979`). A piece
  that is cut keeps its FIN (`tcp_in.c:979`, 1112, 1143), so that the end is
  announced before the bytes that follow the cut (`Misplaced`).

Datagrams:
* The check for a whole datagram skips the last whole byte of the bitmap
  (`ip_frag.c:215`), so that one with a hole there is taken for whole:
  `ReceivedIsWhole` excepts it. Every datagram that is sent has the id 0
  (`ip.c:429`), so that fragments of two are mixed.
* There is one buffer for reassembly: two hosts that send fragments shut each
  other out. A datagram that ends at the buffer's end sets a bit beyond the
  bitmap.
* Fragments behind the first are lost while ARP's answer is due: the table has
  room for one packet. `Arrives` excepts hosts that have `missed` something.
* `udp_send` without a route loses the header it allocated (`udp.c:442`).
  `pbuf_take` frees the caller's chain when memory runs out, and the caller
  frees it again (`pbuf.c:904`, `etharp.c:756`). `pbuf_alloc` is not checked
  in `ip_frag`, `icmp_dest_unreach` and `netbuf_ref`. `ip_frag` leaves the
  length of what it was given changed.
* `recv_raw` takes a packet that `icmp_input` then answers in place;
  `recv_udp` loses it when the netconn has no mailbox. `sendto` changes the
  socket's peer for a moment (`sockets.c:556`). Two sockets can be bound to
  one port.

ARP and DHCP:
* The driver's task and the tcpip thread use the table without a lock: an
  entry used again between a look and a use sends a packet to the wrong
  host. `FramesReachTheirHost` excepts scenarios where the thread runs within
  the handling of a frame.
* One packet waits for an entry, others are dropped with `ERR_OK`.
  `etharp_tmr` has no caller in this port: tables age only in the model's
  scenarios that say so. `update_arp_entry` makes entries although a comment
  says that it does not.
* A lease of some minutes runs out without having been renewed
  (`tcpip.c:226`), a NAK leaves the interface up with the address refused
  (`dhcp.c:151`), the second timer is the whole lease. `AddressIsOurs` says
  which.
* A pad option is read as one with a length. With options in `sname` and
  `file`, the end of the first hides the second. An offer without a server's
  name stops the timer. A short message is read beyond its chain.
* RELEASE is broadcast, because the server's address was cleared before.

PPP:
* A Terminate-Ack in OPENED starts anew without telling the layer above
  (`fsm.c:759`; `fsm.h:90`), and `pppOpen` can hang. A CHAP challenge after
  the link has gone, or in OPEN, runs `network_phase` again (`chap.c:429`). A
  client that waits for a challenge has no timer, and echo requests are off.
* `pap.c` reports a bad proof after `lcp_close` has reset it; a failed CHAP
  leaves `RESPONSE`. Two units whose addresses conflict come up and disagree.
  A server whose peer refuses to prove itself goes on without, and
  `check_passwd` accepts everybody; `PPPAUTHTYPE_NONE` does not refuse PAP
  (`pppif2.c:434`).
* IPCP refused by the peer leaves `pppOpen` waiting. `pppClose` with a status
  callback forces the phase DEAD at once. `pppOpen` before the one PPP thread
  has finished the call before loses its start. `clr_timeout` clears all
  timeouts of the tcpip thread. `pppSigHUP` has no caller in the repository.

PPP over Ethernet:
* `pppoe_abort_connect` and `pppoe_clear_softc` write to the softc after the
  callback has freed it. A PADT in a session is not heard, since it would have
  to carry a Host-Uniq: a session the other end forgets hangs. A PADS is
  accepted before it is asked for; `SessionIsAgreed` excepts it.
* `pppOverEthernetClose` (`pppif2.c:560`) leaves LCP in CLOSING with its timer
  cleared; only `pppInit` and `pppOpen` call `lcp_init`. The next
  `pppOverEthernetOpen` takes LCP to STOPPING, where it stays, and never comes
  up: `LcpIsReturned` excepts it (`called`), and `OpenComesUp` is about opening
  again after `pppClose`. It comes up only if the peer's Terminate-Ack was
  handled before, or the 20 ms timer ran before `pppoe_destroy`.
* `pc->pppoe_sc` is not cleared (`pppif2.c:579`): until the timers are cleared,
  what LCP has still to send, for a message already in the thread's mailbox or
  a timer that is late, goes through the freed softc (`pppif2.c:1112`). Its
  retransmission alone, after 6 s, falls after the 3 s of the sleep.
* `pppoe_destroy` has no lock: two tasks that are in it free the softc twice
  (`ppp_oe.c:173`). `SoftcIsReturned` excepts it (`met`).
* A session that is confirmed while `pppClose` waits brings LCP up behind it,
  and LCP stays so (`late`).
* Both ways of closing clear all timeouts of the tcpip thread, TCP's included.
* `pppOverEthernetClose` frees the softc before its timer runs, so that no
  PADT is sent; a link that goes down is closed before the
  Terminate-Request is sent. A concentrator that offers and never confirms is
  asked for ever; only the opener's minute ends it.

## 7. What is not modelled, and why

* The contents of packets, headers and checksums, statistics, debugging
  output: no property is about them. Where a field steers the code it is in
  the model.
* VJ compression, MD5 and the checksums are pure computations on bytes; the
  port sets `VJ_SUPPORT` to 0. SLIP, IPv6, the loop interface and the two
  example drivers are not built by the port.
* TCP's round-trip estimate (timers are choices), urgent data, sequence
  numbers that wrap, and options but for the maximal size.
* Netconn calls other than those of TCP's life and of datagrams
  (`netconn_peer`, `netconn_addr`): they read.
* `pppSigHUP` runs `pppHupCB` in its caller's thread, beside the tcpip thread
  (`pppif2.c:760`); in `Ppp` it is one step. Nothing in the repository calls it.
* In `PppLine` a sleep of the program (3 s) outlasts what the other tasks had
  begun before it: the handling of one frame, message or timer.
* A failing allocation from the kernel's heap, whose result the port does not
  check.
* The kernel, the EMAC library and the PHY are outside the repository's code
  for the stack. Semaphores and critical sections do what the port uses them
  for; frames and link changes arrive.
* The rest of the repository (kernel port, board support, file system,
  demonstration) is not part of the stack.
