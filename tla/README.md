# BLEhound: a TLA+ model of the sniffer

BLEhound is a Bluetooth LE sniffer: firmware for one to three nRF boards
(`src/firmware/blehound/projects/blehound/src`) and a PC side in Python
(`src/host`). A board listens on an advertising channel; when it sees a
connection being set up it follows that connection through its channel hops,
together with the periodic trains and isochronous streams that hang off it, on
one radio and one hardware timer. Three boards guard channels 37, 38 and 39, tell
each other what they caught, and a PC merges their captures.

This directory holds the TLA+ modules, the TLC configurations and the TLAPS proofs
about that code. Paths below without a directory are in the firmware's `src`.

## 1. Inventory

| Component | State it keeps | Operations | What makes it correct |
|---|---|---|---|
| **Connection follower** `conn_follower.c`, `follow_policy.h`, `scan_policy.h` | slot table, radio mode, slot being served, next action, AUX chain, scan channel, three mailboxes | packet handler, window open and close, `arm_next`, host setters | every followed link keeps its place on the timer line; in single-target mode exactly the target is followed; a dead link is let go; the radio comes back to the guard channel |
| **Packet pipeline** `main.c` | target filter, IRK cache, capture queue, active role | `on_radio_packet`, `on_host_command`, capture thread, main loop | mailboxes are consumed before the filter; what the follower acts on reaches the host or is counted |
| **Radio HAL** `radio_nrf52.c`, `radio_nrf54l.c` | RX state, tuned address and channel, DMA buffers, one scheduled callback | start, stop, retune, `radio_sched_at`/`cancel`, `radio_kick`, watchdog | one callback per scheduling, never early; reception does not stop for good |
| **Inter-board queue** `peer_txq.c` | ring of five slots, head, tail, drop counter | push (interrupt), pop (thread) | FIFO, whole messages, every loss counted |
| **Inter-board link** `peer_link.c`, `peer_msg.c` | SPI slave buffers, REQ work item | push downstream, offer upstream, read on REQ | a message reaches both peers, once |
| **Coordination** `tri_coord.c`, `peer_anchor.h` | send work item, counters, heartbeat time | hit, handoff out, handoff in | a handoff is converted with the edge of its own hit |
| **SYNC line** `sync_line.c` | last tick, ring of recent edges, edge count | emit, capture interrupt, read back | one edge, one tick on each board |
| **Host interface** `host_iface.c`, `cobs.c` | TX ring, command buffer | frames out, command reassembly | whole frames or nothing; a bad command does not spoil the next |
| **PC side** `blehound_extcap.py`, `blehound_tri_aggregator.py` | clock pairs, reorder heap, dedup window, relay memory | align, merge, relay FOLLOW | order on one time base, each packet once, each connection relayed once |
| **Identity** `rpa_resolve.h`, `ble_aes128.c`, `adv_filter.h` | RPA cache shared by interrupt and thread | note, resolve, look up | a target that changes its address is still recognised |
| **Link arithmetic** `ble_csa.c`, `ble_ctrl_pdu.c`, parts of `conn_follower.c` | event counter, channel map, pending update | channel of an event, update at its instant, subrating | the board hops with the link |
| **Helpers** `dir_policy.h`, `board_role.c`, `led_policy.h`, `fem_ctrl.c` | little or none | decision tables | |

**How they interact.** Three kinds of context run on a board. The *radio domain*
(radio RX interrupt, TIMER interrupt, kick interrupt) is one priority: its handlers
never preempt each other, and all follower code runs in it. *USB* and, on the
nRF54L, the *GPIO and SPI slave* interrupts are below it; they only write flags and
mailboxes (`request_inject`, `request_hint`, the setters) and set the kick pending.
*Threads* (capture, work queue, main loop) are below both; the main loop polls the
mailboxes every 20 ms with interrupts locked, and restarts a stalled receiver.
A received packet passes `on_radio_packet`: mailboxes, target filter, coordination,
follower, capture queue. Boards share the SYNC line and three point-to-point links;
the PC reads three USB streams and may relay a connection to the other boards.

**What is hard.** One timer carries every deadline, so each code path that touches
the slots has to leave it armed for the right thing; state read before the mailboxes
are polled is used after; the USB side changes channel, mode and target in the
middle of what the radio domain does; messages between boards cross a queue, a
work item and a buffer of one; the time bases of three boards are paired by edges
that may be missed. Within a connection, events are skipped, lost, opened late and updated
at an instant that may be over before the board hears of it, all in 16-bit arithmetic.
Under the handlers, hardware goes on by itself: a packet ends between two register
accesses of a command that stops the receiver. `PROJECT.json` lists these hazards
line by line, each with the properties that watch it or with the reason why none does.

## 2. Modules

| Module | What it is |
|---|---|
| `ConnFollower` | the follower of one board, with its interrupts, its mailboxes and the host's commands |
| `MCConnFollower` | constants of the runs below |
| `ConnFollowerProofs` | the inductive invariants of `ConnFollower` and its theorems: all its safety properties |
| `ChannelSelection` | CSA#1, CSA#2 and the isochronous CSA#2 of `ble_csa.c`, as pure operators |
| `LinkEvents` | one connection and the slot that follows it: counter, anchor, channel, PHY, updates, subrating, relocking |
| `LinkEventsProofs` | its inductive invariant and six theorems: all its properties but the one refuted |
| `Numbers` | lemmas the proofs share: least elements, division with remainder, ranks, powers of two and binary digits |
| `IsoEvents` | the slots of a BIG's streams, of a CIS, of a train with responses: subevents, anchors, windows |
| `IsoEventsProofs` | its inductive invariants and four theorems: all its safety but the two refuted properties |
| `RadioHal` | the receiver of either chip, its two buffers and two PHYs, and the one-shot timer line |
| `RadioHalProofs` | its inductive invariant and three theorems |
| `TargetFilter` | the target's address and IRK and the cache of resolved addresses, between three contexts |
| `TargetFilterProofs` | its inductive invariant and four theorems |
| `MCLinkEvents`, `MCIsoEvents`, `MCTargetFilter` | constants of their runs (`RadioHal` needs none) |
| `BoundedFifo` | what the inter-board queue promises: a bounded FIFO that counts what it refuses |
| `PeerTxq` | the ring of `peer_txq.c` with its two users in `tri_coord.c`, at the grain of a pop's memory accesses |
| `MCPeerTxq` | constants of its run |
| `PeerTxqProofs` | its invariant and the refinement of `BoundedFifo` |
| `PeerPath` | three boards in a ring: hits, SYNC edges, handoffs over SPI, the match of a handoff with its edge |
| `MCPeerPath` | constants of its runs |
| `PeerPathProofs` | types, the match of a handoff with its own edge, and that no offer is forgotten if slave ports are re-armed in time |

### ConnFollower

| Variable | Code |
|---|---|
| `slots` | `f.slots`: active, kind (ACL, periodic, ISO), access address, order of `next_mts`, `miss_count`, `central_seen`, `peripheral_seen` |
| `mode` | `f.mode` |
| `ev` | `f.serving_idx`; what was heard in the event (`got_master`, `got_data`) |
| `sched` | the callback `radio_sched_at` holds, `f.next_action`, `f.next_slot` |
| `aux` | `f.aux_pending`, `f.aux_chain` |
| `scanCh`, `radio` | `f.scan_channel`; receiver on, address and channel it is tuned to |
| `host` | `scan_hopping`, `g_single_target`, `target_active`, a retune under way |
| `mail` | `g_inject`, `g_hint`, `past_pending` |
| `isr` | the interrupt in progress, and how far it has come |
| `air` | the environment: connection requests sent, links fallen silent |

A packet interrupt is a sequence of steps, because each one decides on what the one
before left behind: inject mailbox, hint mailbox, target filter, PAST mailbox,
packet. While `isr` is not `Idle` nothing else steps, which is what one interrupt
priority means. A timer callback is one step. `arm_next` is an operator that every
path calls with the slots, AUX state, radio and timer line as its caller leaves
them; it is never an action of its own.

*Time.* A slot's `next_mts` is kept as its order among the slots, in units of the
shortest interval. How far "now" is from the earliest event is nondeterministic, so
that any gap may be long enough for a scan slice or not; so is whether an AUX packet
or an event comes first, and whether the AUX budget lasts.

*Payload.* A packet is its type, its link and whether it is the target's. A data
packet parsed as advertising (section 5) may pass for a connection request of
another device, not of the target.

*Left out here, modelled elsewhere.* Event counters, channel selection, parameter updates,
subrating, PHY and encryption act on a slot's own fields: `LinkEvents`. The subevents of streams
and trains, and a train's response slots, are `IsoEvents`. `mine` stands for the outcome of
matching address and IRK: `TargetFilter`. STOP and START, and what the timer line and the
receiver do below `sched` and `radio`, are `RadioHal`. Statistics are in no module. SET_CHANNEL
is given an advertising channel, though the setter accepts any (`conn_follower.c:488`). The
retune of `SET_CHANNEL` is two steps, but runs next to AUX chasing only in `follower_aux`: see
section 4.

### PeerTxq

`head`, `tail`, `len`, `buf`, `tick` and `dropped` are the fields of `struct peer_txq`;
`pending` is the work item submitted; `pc`, `msg` and `popped` are the work-queue thread:
where it is in `peer_tx_work_fn` and `peer_txq_pop`, its local copy, the message it
returned last. A push is one step, because the interrupt runs to its end before the
thread continues; it may come between any two accesses of a pop. The compiler barriers
are what lets the accesses be taken in the order of the source. Sending a message is one
step here. A message's length, bytes and reference tick are three fields, so that one
put together from two would be seen. The abstract queue is read off the ring from `head`
up to `tail`.

### PeerPath

| Variable | Code |
|---|---|
| `edges` | `recent` of `sync_line.c`, the same on all boards; an edge is the hit that pulled it (0: heartbeat) and its age |
| `origin`, `since` | whose hits they were, and how long ago |
| `txq`, `work` | the queue of `PeerTxq` (here as the FIFO it implements), the items in the system work queue |
| `thread` | the work-queue thread: `peer_tx_work_fn`, `link_test_work_fn`, `req_work_fn` |
| `buf`, `rx`, `done` | `spis_tx_buf`, `spis_rx_buf`, a transaction finished and the port not yet re-armed |
| `taken` | handoffs passed to `conn_follower_request_inject`, with the edge they were matched with |
| `unread`, `replaced` | history |

A read takes two steps, so that the slave may rewrite the buffer in between; the frame is
then taken for bad (the XOR checksum lets one in 256 pass, which is not modelled). A
write is one step: nothing else uses the slave's receive buffer meanwhile. A slave
port whose handler is still due misses a transaction altogether. The time bases are
independent, so absolute times are not kept, only ages, in units of which the match
tolerates one. Three bounds stand for timing that the code assumes and does not
enforce: edges are `Gap` apart ("at least tens of ms", `peer_anchor.h:12`), a handoff is
taken `MaxDelay` after its age was filled in and `MaxAge` after its hit. `Tick` is
disabled rather than let one be exceeded. Ages stop at `MaxKept`, from which on no
age matters. `TimingAssumption` says how the bounds compare: a handoff takes no longer than
the match tolerates (3 ms, `PEER_ANCHOR_MATCH_TOL_US`), edges are more than twice as far
apart as that, and the ring of captures (four, `SYNC_LINE_RECENT_MAX`) reaches back as far
as a handoff can be old.

### ChannelSelection, LinkEvents

`ChannelSelection` has the width of the pseudo-random numbers and the number of data
channels as parameters, so that a run goes through every counter value, the wrap
included. The 37-channel remainder and the division by the number of channels in use are
kept as they are in `ble_csa.c`.

| Variable | Code |
|---|---|
| `link` | the connection itself, at the event the slot is at: number, interval, map, PHY |
| `upd` | the central's last update procedure, and whether the slot was told |
| `slot` | the `conn_slot`: `event_counter`, `next_mts` (`mts` and `head`: where the packet starts, relative to the link's anchor, and the air time of the preamble and access address it was measured with), `interval_us`, `chan_map`, `last_unmapped`, `phy`, `first_win_us`, `miss_count`, `encrypted`, `map_trusted`, `pending`, the `subrate_` fields, `cont_left` |
| `win` | the window `serve_open` opened: channel, PHY, from when to when, the PHY the timer was armed with, whether an update moved the anchor as it opened |
| `ghost` | history: what the slot cannot know any more |

`ServeOpen` is `serve_open` with `apply_pending_if_due` and the choice of channel;
`ServeClose` is the whole of `serve_close`: accounting, next anchor, counter, subrating,
the yield of a relock, updates that fall due. Packets come between them (`HearUpdate`,
`HearSubrate`, `HearEncryption`, ...). `Hint` is `poll_hint`, up to `MaxLate` events after
the instant. The link is what is on the air, the slot what the code believes; the
properties compare the two. `ghost` is set where the slot *was not told*, and each
property says which of its flags it excepts.

*The lead and the first window* are two quantities in the code and in the model.
`OpenLead` is `open_guard_us`: base, preamble, a millionth of the interval per microsecond,
at most a third of the interval. The window opens that much ahead of `next_mts`, and a
steady window is twice that wide and an event. `first_win_us` is computed from the
base alone (`ApplyConn`, `ApplyRate`, `ApplyPhy`, `Init`), so the longer the interval, the
less of the first window is left behind the anchor. `next_mts` is the end of an access
address, and its preamble that of the packet the slot heard last (`head`); the lead is that of
the PHY the slot has when the timer is armed.

What the model shows and the properties except: above an interval of about 2.8 s the first
window ends before the transmit window does (`LongestFirst`, 2 s in the runs, where a Coded
preamble fits too; `link_first_window`); a hint applied by `serve_open` itself moves the anchor
of a window that is already open (`win.moved`; `link_moved`); after a change from Coded to 1M or
2M the window opens behind the preamble while the interval is below 36 ms (`link_preamble`);
`LL_CONNECTION_RATE_IND` has no compensation when applied late (line 1350); a hint applied after
the slot found the new anchor by itself shifts a right anchor; a second hint within an event
replaces the pending update; a relock of an encrypted link tries 1M and 2M only, never Coded;
`subrate_base` is not moved when the counter wraps, which matters for a factor that does not
divide 2^16 (`CountersAssumption` takes one that does); a slot served later than a whole
interval, on a channel that happens to coincide, slips its counter; a second connection update
before a packet has located the slot within the transmit window of the first (`ghost.unplaced`)
adds the places in two such windows, where `first_win_us` is wide enough for one. Left out: the
peripheral's packet as an anchor, when the central's was lost; the search of an asymmetric link
on the peripheral's PHY (`phy_slave`); the extra 1.5 ms (`INJECT_EXTRA_WIN_US`) of an injected
slot's first window, which only widens it.

The assumptions on the constants are what the code's own constants satisfy: `InstantsAssumption`
keeps instants, and the lateness of a hint, within half the counter's range (the specification
of the link layer does so on the air, the host relays within a few events); `WindowsAssumption`
says that an event has room for the lead, a late opening's lead and a preamble, and for the
transmit window where one comes with the interval (not of intervals below some 1.2 ms, on a
Coded PHY, where the lead capped at a third of the interval is shorter than the preamble), and
that up to `LongestFirst` the lead and a preamble fit in what `first_win_us` adds to the
transmit window; `PowersAssumption` only says what powers of two are.

### IsoEvents

| Variable | Code |
|---|---|
| `group` | what is followed, `bis_sub_interval`, the BIG's `bis_spacing` |
| `air` | the stream itself: event number, where it is, fading, drift |
| `slots` | `event_counter`, `bis_anchor_us`, `bis_anchor_cnt`, `bis_event_us`, `next_mts`, `bis_se_idx`, `bis_ev_hits`, `miss_count`, `bis_locked`, `pawr_in_rsp`, the walk (`bis_prn_lu`, `bis_remap_idx`) |
| `win` | the window: channel, address, end, packets so far |

Time is relative: each step moves it on. `ServeOpen` opens the earliest slot, on time, at
once if that has passed, or later because the radio was busy elsewhere. `Hear` is the ISO
path of `conn_follower_on_packet` with its early close; `ServeClose` is the timer's.
Left out: the first window from `first_win_us`, which no ISO slot reads; start of a CIS
through a late hint, which clamps its delta to 0.

A window opened late or widened may reach a later packet on its own channel and take it
for its own: `overran` marks a slot that took one (`Strays`), and the properties except it
(`iso_alias.cfg` shows the wrong counter).

The first anchor comes from an offset in units of 30 or 300 µs, rounded down
(`conn_follower.c:41`, 2450): the stream is up to one unit later (`Rounding`), which is
what the search window is for. It has nothing to do with the drift of the clocks
(`MaxDrift`) and is much larger; the first packet heard takes it away, and
`AnchorIsAnEvent` asks of a locked slot that only the drift is left (`Tolerance`).

The assumptions say for which layouts the properties are claimed. With the code's
constants (a search guard of `OPEN_GUARD_BASE_US` 300, the preamble and a millionth of the
interval; `ISO_LOCKED_GUARD_US` 120, `SCHED_LATE_LEAD_US` 20), a rounding of 300 µs and a
drift of some 10 µs they hold of the layouts that occur:

- `TimesAssumption`: types; the drift is below a search guard, the first anchor off by
  a unit at most.
- `LayoutsAssumption`: an event ends before the next begins. The packets of other events,
  and of the next subevent but one, are out of a search window's guards (`Reach`: guard,
  drift and rounding, some 660 µs, and more for the second packet of a CIS): where a
  BIG has three or more subevents they are more than 330 µs apart, and the last one is
  660 µs from the next event. A CIS of the link layer's minimum spacing satisfies it. A
  train's subevents are further apart than the delay of its response slot (at least
  1.25 ms) and two packets, which is more than `Reach` up to an interval of some 0.8 s.
  Closer subevents are not covered.
- `RoomAssumption`: the streams of a BIG take turns, sequential or interleaved (the two
  arrangements of the link layer), and two subevents are further apart than a late
  opening's lead, which the drift between two packets heard does not exceed. Only `WindowsLeaveRoom`
  needs it. For a CIS, the guard of a locked window is shorter than a packet and
  T_IFS, or than the lead.

### RadioHal

| Variable | Code |
|---|---|
| `hw` | the RADIO peripheral: state, MODE, SHORTS, END and DISABLED events, pending interrupt, PACKETPTR, the buffer DMA writes |
| `drv` | `rx_running`, `rx_idx`, `rx_pkt_idx`, `primary_phy`, `alt_phy`, and the PHY last applied |
| `busy` | the buffer the packet callback holds |
| `timer` | CC[0] of TIMER1, its interrupt, `sched_cb` |
| `usb`, `dog` | where a START or STOP, or `radio_rx_recover`, has come to |
| `held` | the PHY a START has read to set, from its test of the two PHYs on |
| `late` | history: a handler took turns while a START was between its buffer and its PHY |
| `torn` | history: one context came between the steps of another |

Handlers have one priority, so the receive handler is two steps (up to the callback, and the
callback) only because the hardware goes on. Commands and the watchdog run one register access
at a time: `rx_pkt_idx`, the test of `current_phy`, MODE and `current_phy` of a START are four
steps, and `PhyTakesTurns` sets aside a handler between them (`late`), until the next retune;
`radio_phy` shows what it leaves. The two chips differ in how a packet's end becomes DISABLED
(`Ended`) and in the bounded wait of the nRF54L's handler. The hardware is external; its actions
are what the driver's use of it relies on. `Serve` stands for everything the follower does from
a callback: retune, halt, schedule.

Noted on the way: a STOP is undone by the follower's next retune, as `radio_rx_start` is
called whatever the host asked; an RXEN by the watchdog in the middle of a STOP, with
SHORTS at 0, leaves the receiver idle until the next retune (`torn`); the
callback copies the packet after the receiver may have been restarted, which is safe by
timing only (ramp-up is longer than the copy) and is assumed in `PacketCb`.

### TargetFilter

| Variable | Code |
|---|---|
| `main` | `target_mac`, `target_active` of `main.c` |
| `fol` | `f.target_mac` (first and last bytes), `f.target_active` |
| `irk` | `target_irk`, `irk_active` |
| `cache`, `cursor` | `rpa_cache`: entries and next entry to replace |
| `usb` | `on_host_command` under way, store by store |
| `thr` | the capture thread in `resolve_pending_rpas` |
| `turn` | which of its addresses the target device uses |
| `past` | history: what the properties except |

The receive interrupt (`Hear`) preempts everything and is one step. A command preempts the
thread and ends before it goes on. AES is a relation between keys and addresses (`Key`).
An address already resolved as a match passes the filter but is not made the target
again by SET_TARGET while the IRK is set: `displaced`. `disturbed` marks two hazards that
do go wrong: a command that comes while the thread holds an address
(`target_split.cfg`), and an entry reused between the thread's test of it and its write.

## 3. Runs

`MCConnFollower` shrinks the miss limits to 1, 1, 2 and 3 (streams: 1), which keeps their order
(relock, give-up, never heard, supervision). Two slots are enough for a full table,
for a served link next to a waiting one, and for an ABA on a slot; two links (the
target's and another) for every case of the policy; one train or stream for every
kind of slot. An AUX chain bound of 1 or 2 lets a chain reach it.

| Run | States | Question |
|---|---|---|
| `follower_links` | 1.2 M | connections, CIS streams, injects, single- and multi-target mode. `NoDuplicateFollow`, `ActiveSlotScheduled`, `RadioNeverParked`, `ExclusiveFollow`, `FollowsTargetOnly`, `HeardLinkIsKept`, and the type invariant |
| `follower_aux` | 2.8 M | AUX chains, trains from SyncInfo and PAST, hints, guard channel changed, hopping switched on. `ScanReceivesAdvertising`, `WindowHasItsClose`, `GuardChannelSticks` |
| `follower_live` | 0.1 M | `SilentLinkReleased`, `ReturnsToGuard` with two links sharing the radio |
| `link_events` | 2.6 M | four-bit counters started before their wrap, five channels, two maps, three intervals (10 ms, 3.2 s, and 1.2 ms by a rate update), seven events, one update of any kind heard, unheard or relayed up to two events late, subrating by 1 or 2, CSA#1 and CSA#2. `AnchorInWindow`, `HopsWithLink`, `ListensOnLinkPhy`, `DistrustIsJustified`, `SkipsNothingDue`. Seven events let a link be lost (`Limit = 5`), relocked with a yield, or probed for its map, with the update before, in or after the gap |
| `iso_events` | 254 k | a BIG of two streams (one after the other and interleaved), a CIS, a train with responses; one upset (a fade, a CRC error, or an opening 2 or 14 units late: within an event and almost a whole one), a first anchor off by two units, one drift of one unit, the end of the stream. `AnchorIsAnEvent`, `ChannelOfSubevent`, `WindowsLeaveRoom`, `FoundOrReleased` |
| `radio_hal` | 114 k | both chips, one PHY and a central on 1M with its peripheral on 2M, START, STOP, kicks, watchdog. `BufferUntouched`, `PhyTakesTurns`, `ReceptionResumes`, `CallbackComes`. `Horizon = 1`: a time is past or not; more ticks only delay |
| `target_filter` | 163 k | a target with two addresses, another device, a static address, two IRKs, a cache of two (full with two addresses in earshot, so that entries are reused). `TargetsAgree`, `VerdictIsRight`, `CancelSticks`, `TargetTracksRpa` |
| `txq_fifo` | 20 k | `ImplementsFifo`, `EveryMessageLeaves`, `NoLostWakeup` for the ring of the code's own depth, four, and two messages that differ in every field; the drop counter wraps at 2, which loses nothing the properties see |
| `peer_path` | 2.0 M | `HandoffFindsItsEdge` with two connections caught anywhere, a self-test by one board (`Testers`: the ring looks the same from each) and heartbeats, reads missed, torn and repeated. `Gap = 3`, `MaxDelay = Tol = 1`: with `Gap = 2` the closest edge may be another's. `MaxAge = Gap` leaves two edges to choose from, so a ring of two captures behaves like the code's four |
| `peer_delivery` | 80 k | `NoLostOffer`, `HandoffReachesBoth`: two connections, every slave port re-armed before its master's next transaction |
| `link_csa1`, `iso_cis` | | expected violations: section 4 |

The times of `link_events` are the code's own, in microseconds; the three intervals are one
whose lead is capped, an ordinary one, and one at which the lead has outgrown a first window.
Those of `iso_events` are scaled down and keep the order the code's constants have: a drift
below a guard, the rounding above the drift, a window below an interval, a search span above the
guards. `LateLead`, the guards and the span are constants of the modules, so that the
assumptions say which order is needed. Counters of four bits wrap in the middle of a run; that a
late update is told from an early one by the sign of a difference needs half the width to exceed
the distances that occur, which holds by far for the 16 bits of the code.

`CHECK_DEADLOCK FALSE` is set where the modelled thing ends: the connection after its
last event, the stream that was released, and a target filter without commands left to
give after a disturbed history.

`follower_links` has no AUX chasing (`AuxMaxChain = 0`) and no PAST: with them the two
findings `follower_aux_parked` and `follower_past_lost` break `RadioNeverParked` and
`ActiveSlotScheduled`. Everything else that builds or releases a slot is in it.

`follower_live` has no FOLLOW from the host: each one rearms the timer in place of the
window's close, so a host that repeats it without end keeps a miss from being
counted, which no host does.

*Fairness.* A handler that has started runs to its end (weak fairness of the steps of
an interrupt). The TIMER interrupt and the 20 ms poll are strongly fair: a compare
that has matched stays pending in the interrupt controller while other handlers of
the same priority run, and is taken between two of them. Nothing is assumed of the
air or of the host. In `PeerTxq` the work-queue thread is weakly fair: a submitted item
is run, and an interrupt that keeps coming does not stop the thread for good. In
`PeerPath` likewise, and a slave port's pending interrupt is taken; time need not pass,
nor anything happen on the air. In `RadioHal` the hardware and the receive handler are
weakly fair; the TIMER handler, which takes turns with kicks and packets, and the code
below the handlers are strongly fair: they get the processor again and again, not at a
time of their choice. No packet, kick or command is owed. In `TargetFilter` commands end
(weak), the capture thread, which wakes every 50 ms and is only preempted, is strongly
fair, and the target device goes on advertising from its address (strong, as its packets
matter only while the filter looks). In `IsoEvents` timer and receiver go on (weak) and a
fade ends; drift happens once.

## 4. Findings

Two runs are expected to fail, each with one property that the code's own comments state.

1. `link_csa1` (`HopIsCorrect`): for a connection injected k events late,
   "event_counter is set to k accordingly, so the CSA hop is correct"
   (`conn_follower.c:878`). That is so for CSA#2. CSA#1 hops from `last_unmapped`, which
   starts at 0 and is not advanced by the events skipped, here, in `subrate_skip` and in
   the yield of a relock.
2. `iso_cis` (`AnchorIsPacketStart`): "The anchor is defined as the **packet start** of
   subevent 0 of this event" (`conn_follower.c:2830`), but every good packet sets it, also
   the peripheral's, which comes a packet and T_IFS later. From then on the window of the
   CIS opens behind the central's packet.

### Side configurations

These configurations are not among the project's runs, and each violates its property.
They document why a property of the runs has the restriction it has.

1. `follower_aux_parked`: an AUX_CONNECT_REQ cancels the AUX window's timer and is then
   refused while another connection is active. `conn_follower.c:2881` "No slot was built
   (full/rejected): wind down as usual and return to scanning" happens only when no
   connection is active; otherwise the board sits on the secondary channel with no
   timer, and the active slot is never served again unless something else is built.
2. `follower_past_lost`: `start_periodic` leaves scheduling to "serve_aux_close's
   arm_next" (`conn_follower.c:1892`), but `poll_past` calls it too. If the connection
   has been given up by then, the train's slot is never served, and as it counts as
   active it also stops AUX chasing.
3. `follower_chain_wedged`: the depth of an AUX chain is reset when "this chain ends"
   (`conn_follower.c:2338`), except when it ends by building a slot. The depth is left
   behind, and once it is at the bound no AuxPtr is chased.
4. `follower_wrong_link`: "Which link this packet belongs to depends on the AA the radio was
   tuned to when receiving it" (`main.c:265`), but the follower credits it to the slot
   being served after the mailboxes were polled, which may have been rebuilt.
5. `follower_hopping_off`: SET_HOPPING "nonzero enables three-channel round-robin scan"
   (`host_iface.h:71`), but while a board scans without hopping nothing is scheduled that
   would read the flag.
6. `peer_rearm`: "Re-arm immediately so the next transaction can be received at any time"
   (`peer_link.c:155`); the port is re-armed when its interrupt has run, after the receive
   callback. A master that goes from its write straight to the read it owes reads zeros,
   and the message offered is not asked for again (`NoLostOffer`).
7. `radio_stop` (`StopReturns`): "Ramp-down takes only a few tens of us, busy-wait is fine"
   (`radio_nrf52.c:489`). A STOP from the host that a handler interrupts, which
   restarts the receiver after the DISABLED event was cleared and takes that event
   itself, waits for an event that need not come.
8. `radio_early` (`NeverEarly`): "When the TIMER1 count reaches at_us, call cb"
   (`radio_hal.h`). A match that is already pending when another handler calls
   `radio_sched_at` dispatches the new callback at once.
9. `target_split` (`TargetsAlwaysAgree`): `apply_target` "applies to both the follower
   filter and the RX-interrupt advertising filter" (`main.c:120`). A SET_TARGET that comes
   between the capture thread's stores of a resolved address leaves one target in the
   filter and another in the follower, until the next command.
10. `target_rpa` (`PrivacyDeviceKept`): "a privacy device is not lost when it changes
    address" (`host_iface.h`). With the old and the new address pending at once, the order
    of the cache's entries decides which one becomes the target last.
11. `iso_alias` (`CounterIsConfirmed`): a good packet confirms the counter
    (`conn_follower.c:2826`), but a widened or late window may reach a packet of another
    event on its own channel.

12. `link_first_window` (`FirstWindowCovers`): "the first window is still widened by WinSize to
    cover any position within the window" (`conn_follower.c:1334`). The window opens
    `open_guard_us` ahead, which grows with the interval; its width counts two
    `OPEN_GUARD_BASE_US` instead. From some 2.8 s on, a link that starts late in its transmit
    window is missed until its window is widened.
13. `link_moved` (`FirstWindowCovers`): the same comment, and a hint that `serve_open` finds due. The
    timer was armed for the old anchor; the update moves it by its offset, up to an interval,
    and the window is open around the old one.
14. `link_preamble` (`OpensBeforePreamble`): "the window has to bring the radio up before the
    packet's very first preamble bit" (`conn_follower.c:1580`). The anchor is the end of an access
    address, of a packet on Coded before the update; the lead is that of the new PHY, whose
    preamble is 0.3 ms shorter.
15. `radio_phy` (`PhyNeverOvertaken`): "Each start of reception begins on the master-direction PHY"
    (`radio_nrf52.c:443`). A handler that retunes between a START's test of the PHY and its
    `radio_apply_phy` finds its receiver set to the PHY the START had read.

`ScanReceivesAdvertising` is stated with the exemption its code needs: a host retune
that the radio domain preempted between the test of the mode and the write
(`conn_follower.c:492`) may land in a window, or undo a rotation until the next.

## 5. Proofs

`ConnFollowerProofs` proves, for any number of slots, links, streams and any limits:

| Theorem | Property |
|---|---|
| `InvariantHolds` | `Spec => []IInv` |
| `TypeCorrect` | `TypeOK` |
| `NoLinkFollowedTwice` | `NoDuplicateFollow` |
| `ChainBounded` | `AuxChainBounded` |
| `WindowsAreClosed` | `WindowHasItsClose` |
| `FollowIsExclusive` | `ExclusiveFollow` |
| `TargetIsRespected` | `FollowsTargetOnly` |
| `RadioFollowsMode` | `Spec => []TunedInv`, used by the next ones |
| `ScanChannelSticks` | `GuardChannelSticks` |
| `HeardIsKept` | `HeardLinkIsKept` |
| `ScanningReceives` | `NoLateRetune => ScanReceivesAdvertising` |
| `FollowedIsScheduled` | `NoLostTimer => ActiveSlotScheduled` |
| `RadioComesBack` | `NoLostTimer => RadioNeverParked` |

(`ChainBounded` is proved and no longer part of a run, as it rests on one guard.)
They rest on `ConstAssumption` alone, which asks of the miss limits only their order. None
of these properties is inductive. `IInv`
adds to `TypeOK` that active slots have distinct and real addresses (`Unique`,
`Named`), that timer, mode, action and radio agree (`SchedInv`: a pending close means
the mode it closes; an action to serve names a slot of the table; the chain stays
within its bound, one hop more being taken only from a pending state), and that the
packet of the running interrupt is what the radio could receive (`PacketInv`).
`FollowsTargetOnly` needs the last one: a request's `mine` bit must be its link's.

`TunedInv` adds that scanning means the advertising address and serving another one; a
packet that comes while serving is then data, which `HeardLinkIsKept` needs to know whose
packet may release whom. `ChannelInv` adds the scan channel. Three
theorems have a hypothesis on what is enabled, because the code is wrong without it:

- `NoLateRetune`: SET_CHANNEL, hopping on and hopping off are not all used. Otherwise a
  retune overtaken by a rotation (`conn_follower.c:492`) is followed by a command that stops
  the hopping, and no rotation is left to repair it. `follower_aux` keeps to it.
- `NoLostTimer`: no train from PAST, and no AUX chasing next to an auxiliary connection
  request or a host's retune. These are `follower_past_lost` and `follower_aux_parked`, the paths that lose the
  timer; `follower_links` keeps to it. `ArmedInv` is the invariant: whatever is active,
  and wherever the radio is, the timer line holds a callback that leads back.

Slot tables are compared with two relations, `Keeps` (every active slot of the new
table was active with the same address) and `Quiet` (no slot was built), for which
`Release`, `Normalise` and the builders have a lemma each. `ArmNextEffect` says once
what any call of `arm_next` may change; each action's lemma cites it. The lemma that
`Alloc` and `Earliest` pick a member of the set they choose from needs that a set of
naturals has a least element, taken from the library's well-founded induction on
finite subsets.

`PeerTxqProofs` proves, for any depth, any set of messages and any width of the counter,
from `QueueAssumption` alone: `QueueInvariant`, `QueueTypeCorrect` (`TypeOK`), `WakeupKept`
(`NoLostWakeup`) and `RingIsAFifo` (`ImplementsFifo`). The invariant adds `CopyIsWhole`: at each
point of a pop, what the thread has read so far is still what the slot holds. The
refinement rests on two facts about the ring read from `head` to `tail`: a push appends
(`PushAppends`; the slot written is none of those read), and releasing the head removes
the first (`ReleaseTakes`), whose copy is whole by the invariant.

`LinkEventsProofs` proves, for any interval, window, map, subrating factor, number of events
and of updates, and for counters of any width, from the assumptions of section 2:

| Theorem | Property |
|---|---|
| `TypesHold` | `TypeOK` |
| `OnLinkPhy` | `ListensOnLinkPhy` |
| `OnLinkChannel` | `HopsWithLink` |
| `DistrustJustified` | `DistrustIsJustified` |
| `PacketInWindow` | `AnchorInWindow` |
| `NothingDueSkipped` | `SkipsNothingDue` |

The invariant `Inv` compares slot and link. `Follows` is its base: the slot's counter is the
link's event modulo 2^w (`InStep`); an instant is so near that the sign of a 16-bit difference
tells past from future (`InstantsNear`); what the slot has pending is the link's last procedure,
whose effect the link shows from its instant on (`KnowsLast`, `GivenInForce`). Each property
then has its own part: a PHY or a map differs from the link's only while an update that is in
force is unapplied or untold, or the ghost says so (`PhyInv`, `MapInv`); the channel of an open
window is that of the slot's counter, and for CSA#1 the last unmapped channel is the event times
the hop (`HopInv`). The hardest is `AnchorInv`: a slot that has an anchor update outstanding is
off by exactly what that update shifted (`Owed`: offset, place in the transmit window, and the
events since its instant times the difference of the intervals), which is the amount that
`apply_pending_if_due` adds; otherwise it is off by at most the transmit window (`Placed`), and
then its first window counts the transmit window in (`FirstInv`), which with the lead is wide
enough for intervals up to `LongestFirst`. `WindowInv` says of an open window, with the
exceptions of the property, that it opens before the packet's preamble and closes after its
access address (`Fits`). A skipped event moves link and slot by their own intervals, which keeps
that sum. `SkipsNothingDue` needs that counting events modulo the factor commutes with the wrap
of the counter. The lemmas about division with remainder and about the rank of a channel in its
map are in `Numbers`.

`IsoEventsProofs` proves, for any number of streams and subevents, any layout, window,
widening, drift, lateness and number of upsets, and for counters of any width, from the
assumptions of section 2:

| Theorem | Property |
|---|---|
| `StreamsKnown` | `Spec => []Inv`, used by the next ones |
| `AnchorHolds` | `AnchorIsAnEvent` |
| `ChannelHolds` | `ChannelOfSubevent` |
| `RoomHolds` | `WindowsLeaveRoom` |

`AnchorIsAnEvent` finds the event nearest to an anchor by a division, which no step
keeps as such. The invariant says instead that time and counter *name* an event
(`Names`): there is a `j` whose event starts at that time, up to an explained error
(`Explained`: drift, until the first packet heard the rounding of the first anchor, for a CIS
the other direction's packet), and whose number is the counter's. `SlotInv` asks it of the anchor and of the
event the slot is at, a whole number of intervals later. Names survive the passing of time, a skip over
any number of intervals and the wrap. A packet heard names its own event, so what has to be
shown is which one that is (`PacketIsTheSubevents`): its time puts it in the window's
event and in the subevent wanted or one next to it, and a neighbour is on another channel,
because the isochronous walk never stays where it is (`NeighboursDiffer`); for a train, whose
channels may repeat, by distance. `HopInv` says that the walk stored with the slot
is where entering the event at its first subevent leads, so the next window may go
on from it. `WindowInv` says that an open window's packet is no further ahead than its
guard, however late it was opened; what comes later than the guard behind it is a
`Strays`.

`RoomHolds` needs more: `RoomInv` keeps, as long as a window opened on time with all
streams locked is open, that it ends before a sibling's guard begins and before the slot's
own next subevent. Where streams stand to each other comes from `Names` and from the
layout (`SiblingsApart`: subevents of two streams, of this event or a neighbouring one, are at
least one slot spacing apart); that each packet heard before the end leaves the
window's end where it was, from the packet not being earlier than the lead
(`HeardInTime`).

That a neighbouring subevent is on another channel rests on arithmetic modulo powers of two:
`PowersOfTwo`, `Digits` and their companions in `Numbers` show that the bitwise operators
of `ChannelSelection` stay within a counter, and that a product scaled down stays below
its factor, so that the walk's index is one of the map's.

`PeerPathProofs` proves, for any ring of boards, from `RingAssumption`, `BoundAssumption` and
`TimingAssumption`, `TypeCorrect` (`TypeOK`) and `EdgeIsItsOwn` (`HandoffFindsItsEdge`). `PathInv` says
for every message queued, in a thread's hands, received or still to be read that its hit is
not older than `MaxAge` and that the age it carries lags by at most `MaxDelay` (`HeldInv`,
`QueuedInv`), that the edges kept are `Gap` apart (`SpacedInv`), and that the edge of a hit
so recent is among them (`RecordedInv`). With `2 * MaxDelay < Gap` no
other edge is as close.

It also proves `OffersAreRead`: `PromptRearm => (Spec => []NoLostOffer)`, for any ring
of boards. `NoLostOffer` is inductive once work queues, threads and
buffers have their types: each step of a thread moves the offer from one of the cases
(REQ about to be pulled, read queued, starting, under way) to the next, and a torn read
finds the REQ of the newer offer already there. Without `PromptRearm` it is false: finding 6.

`RadioHalProofs` proves, for any PHYs, horizon, chips and commands, from `HalAssumption`:
`InvariantHolds`, `TypeCorrect` (`TypeOK`), `CallbackOwnsItsBuffer` (`BufferUntouched`) and
`PhysAlternate` (`PhyTakesTurns`). `IInv` has two halves. `Reception` holds even of what was
torn: a set END event has its interrupt pending and its reception over (`EndIsPending`), the
hardware has the buffer that the callback has not (`BufferApart`), and the PHY is that of the
turn (`PhyInv`), unless a START is about to set it or was overtaken by a handler while it was
(`late`); a START then holds a PHY that exists (`HeldInv`). `Whole` holds as long as nothing was
torn: the hardware's buffer is the driver's (`BufferInv`), a halted receiver is disabled
(`HaltInv`), and where the steps of a STOP, a START and the watchdog have brought it (`StopInv`,
`StartInv`, `DogInv`). Without these three a START could not be shown to begin from a disabled
receiver with no packet pending, which is what makes index and pointer agree.

`TargetFilterProofs` proves, for any addresses, keys and cache size, from `FilterAssumption`:
`InvariantHolds`, `TypeCorrect` (`TypeOK`), `OneTarget` (`TargetsAgree`), `VerdictsAreRight`
(`VerdictIsRight`) and `CancelledStaysAway` (`CancelSticks`). `IInv` says, while history is
undisturbed: which stores of `apply_target` have been done at each of its steps, by
whichever context runs it, and that the two targets agree outside (`AgreeInv`, `Stage`);
that the thread holds an address only while no command runs and an IRK is set
(`ThreadInv`); that without an IRK nothing is pending (`PendingInv`); and that the verdict
the thread computed, and those in the cache, are the current key's (`VerdictInv`).

**Only model-checked**: all liveness (`SilentLinkReleased`, `ReturnsToGuard`,
`EveryMessageLeaves`, `HandoffReachesBoth`, `ReceptionResumes`, `CallbackComes`,
`TargetTracksRpa`, `FoundOrReleased`), which is out of the prover's reach. Every safety and
action property of a passing run is proved.

## 6. What is left

To prove: what `NoLostTimer` and `NoLateRetune` exclude, with the code's repair of findings
in place of the hypothesis, once there is one; and that the operators of
`ChannelSelection` spread over the map as the link layer's do, which is more than the
bounds proved of them.

**Not modelled**, and why:

- *Host interface* (`host_iface.c`, `cobs.c`). One writer, one reader, a ring that takes a
  whole frame or none: a model would restate its bounds tests. A partial command left in
  `cmd_buf` when the host disconnects spoils the first one of the next session.
- *PC side*. Python: the aggregator's reader threads, one per board, feed one reordering heap
  under a lock; what can be wrong beyond that is the quality of clock fits
  over real arrival times, which a small instance does not reach. The offline key search of
  `src/host/security` is outside the capture system.
- *AES, field parsing, link-layer decryption*: pure data, of which the properties tell
  only the outcome apart (a key resolves an address or not, a PDU is of a type).
- *The capture queue and statistics*: a full queue drops and counts by design.
- *Direction inference, board role, LED and front end*: decision tables without state.
- *Single-pin SYNC*: its hazard is the length of the pulse, below the grain of `PeerPath`.
- *Register set-up, clocks and the range of the free-running timer* in the radio drivers.
