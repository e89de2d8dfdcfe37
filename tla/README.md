# Verification of the mesh radio link

This directory is a TLA+ development about the programs in `src/`: four
generations of a text and file chat over software-defined radios. It models the
newest one first (`src/ANT/multi node/Mesh Network/`, revision r6.1), because
its protocol code is the richest and the earlier ones are its ancestors. Paths
below without a directory are in `src/ANT/multi node/Mesh Network/`.

Contents: [the system](#the-system), [the plan](#the-plan), the models
([Selective Repeat link](#the-selective-repeat-link),
[file transfer](#the-file-transfer), [sessions](#the-sessions),
[channels and addresses](#channels-and-addresses),
[messages and receipts](#messages-and-receipts),
[shared channel](#the-shared-channel), [framing](#framing),
[replay window](#the-replay-window)),
[bounds](#bounds-and-why-they-are-enough), [fairness](#fairness),
[proofs](#what-is-proved), [what is not modelled](#what-is-not-modelled).

| Module | Models | Runs | Proofs |
|---|---|---|---|
| `SelectiveRepeat`, above it `DeliveryService` | one direction of the r6 link, and what it promises | `safety`, `service`, `outage`, `drop_peer` | `SelectiveRepeatProofs` |
| `FileTransfer` | the file layer of two nodes | `file_transfer`, `file_mixing` | `FileTransferProofs` |
| `Handshake` | secure sessions of two nodes | `handshake` | `HandshakeProofs` |
| `MeshAccess` | channels, addresses and the address book | `mesh_access` | `MeshAccessProofs` |
| `ChatApp` | messages, receipts, file jobs | `chat_app`, `chat_move` | `ChatAppProofs` |
| `Csma` | the CSMA/CA medium access under the stop-and-wait link | `csma` | `CsmaProofs` |
| `Framing` | framer, differential coding, deframer | `framing` | `FramingProofs` |
| `ReplayWindow` | one direction of an encrypted session | | `ReplayWindowProofs` |

`MC...` modules hold the instances for TLC. A definition named `Mutant...` is a
plausible error in the definition that follows it; with it in place the property named in
`PROJECT.json` fails.

## The system

A node is one Python process: a GNU Radio flowgraph (generated), a shim block
that receives samples' worth of messages and calls the application, and an HTTP
server for the browser. The shim holds one re-entrant lock around every call,
so handlers (`on_rx`, `on_tick`, `on_console`) never interleave inside a node.
What interleaves is nodes, frames in the air, timers, and the HTTP threads that
drop jobs into an inbox the radio thread drains.

    browser -> HTTP threads -> inbox -> ChatApp -> SecureLink.protect -> TxFramer -> radio
                                          |  ^
                                          v  |
                     ChannelManager    LinkMux -> LinkState per peer  <- SecureLink.accept <- Deframer <- radio
                     AddressManager

| Component | State | Operations | What makes it correct | Hard behaviour |
|---|---|---|---|---|
| `LinkState` (bpsk_link.py:425): Selective Repeat, one engine per peer | queues `txq_hi`, `txq`; window `outq`; `tx_seq`; `_sync_left`; per source `rx` = base, buf, epoch; `_ack_due` | `send_data`, `send_file`, `on_frame`, `_on_sack`, `on_tick`, `reset_peer` | payloads in order, once; *acked* means received; nothing skipped that was not given up; everything settles | loss, late SACKs, timeouts, 8-bit wrap, restarts |
| file transfer inside `LinkState` | `tx_file` (round, deadline, acked), `rx_file` (fragments), `rx_last` | `_deliver`, `_finish_file`, `_on_nack`, `_on_done`, `_restart_file`, `_purge_file_queue` | a file reported delivered is complete at the other end; a transfer ends | verdicts and NACKs that name no transfer, header given up, rounds and timeouts |
| `LinkMux`, `Radio` (bpsk_link.py:1359, 379) | `engines`, `epoch`, `busy_until`, `enabled` | `engine`, `drop_peer`, `set_address`, `on_frame`, `on_tick` | frames reach the engine of their source; a new engine starts clean at both ends | several engines over one airtime budget |
| `ChannelManager` (bpsk_mac.py:279) | `state` (idle, listen, active, silent, full), `channel`, times heard, `avoid` | `start`, `heard`, `bad`, `energy`, `move`, `tick` | nothing is sent outside *active*; two nodes on one channel part | simultaneous claims, stale readings, a check that never ends |
| `AddressManager` (bpsk_mac.py:240) | `addr`, `n`, `known` | `on_beacon` | two nodes do not keep one address | lost beacons, both moving at once |
| `SecureLink` (bpsk_secure.py:583), `Session`, `_Window` | per peer current, previous and pending session, in-flight initiation; replay bitmap | `protect`, `accept`, `_on_init`, `_on_resp`, `on_tick`, `forget` | both ends settle on one session; no counter accepted twice; old boot forgotten | simultaneous initiation, lost confirmation, retries, restarts |
| `ChatApp` (bpsk_app.py:190) | messages and their receipts, waiting list, file jobs, `_active_tx`, peers by address | `submit`, `_drain_inbox`, `_on_tx_state`, `_flush_waiting`, `_start_next_file`, `_release_addr`, `_on_beacon` | a receipt tells the truth and becomes final; a file job is never stuck | HTTP threads, an address that changes hands, one part of several failing |
| `Deframer`, `TxFramer` (bpsk_phy.py:104, 185) | bit buffer, pending hits; frame queue | `feed`; `push`, `next_bits` | same frames for any chunking; backlog bounded | frames across chunks |
| `MacState` (`src/bladeRF/FDD CSMA/bpsk_mac.py:69`) | carrier sense, NAV, backoff, window, two queues | `set_busy`, `note_rx`, `enqueue`, `on_tick` | no data within DIFS and backoff, backoff frozen while busy | two stations counting down |
| stop-and-wait link (`src/ANT/BPSK chat app/bpsk_link.py:235`) | `pending`, `tx_seq`, `last_rx_seq` | `on_rx`, `on_tick` | at most once, acknowledged means received | late ACK, given-up frame |

Components interact by calls that return lists of actions: the link returns
`tx` frames, `log` lines and `evt` events; `ChatApp._consume` seals and sends
the first and books the last on receipts. `SecureLink` is asked by the link
(`tx_gate`) whether a session exists, and tells the link (`reset_peer`, `kick`)
when one appears. The channel manager switches the shared `Radio` on and off.

`PROJECT.json` lists all components, also those left out, and under *hazards*
what is hard to test in this code, each at its line.

## The plan

In the order of what matters most to a user: that *delivered* is true.

1. **SelectiveRepeat** with **DeliveryService** above it: done, checked, and its
   safety proved (this document).
2. **FileTransfer** over the promise of DeliveryService instead of the frames:
   rounds, NACKs, verdicts, restart after a lost header, both directions. Done,
   checked, and that *delivered* is true proved.
3. **Handshake**: the sessions of two nodes over a channel that loses. Done, checked,
   its safety proved.
4. **MeshAccess**: channel manager, address manager and address book of the mesh.
   Done, checked, its safety proved.
5. **ChatApp**: receipts, waiting messages, file jobs per peer, above the promises
   of the link and the file layer. Done, checked, its safety proved.
6. **Csma**: the medium access of r6 CSMA together with the stop-and-wait link, which
   is the one of r5 for several peers. Done, checked, its safety proved.
7. **Framing**: the framer and the deframer. Done, checked, its safety proved.
8. **ReplayWindow**: the receiver's window of an encrypted session, over a channel that
   reorders and repeats, which the one of Handshake does not. Done and proved.

Left, in this order: the file transfer of r5, which knows its transfers by name only; the
ARQ sender of the simulation.

## The Selective Repeat link

`SelectiveRepeat.tla` is one direction of a pair of `LinkState` engines: A
sends, B receives. The other direction is the same protocol with its own
sequence numbers; the two meet only in the airtime they share.

| Model | Code |
|---|---|
| `queue` | number of payloads in `txq_hi` and `txq` |
| `next`, `outq`, `epoch`, `syncLeft` | `tx_seq` (unwrapped), `outq` (tries, and `sent` for `txno`), `epoch`, `_sync_left` |
| `rx` | B's `rx[src]`: base, buf, epoch; `known` is whether there is an entry; `got` records what was handed up |
| `ackDue` | `_ack_due[src]` |
| `air`, `sacks` | the radio in both directions |
| `SendData` | `send_data` (and the file layer's queueing), with `_pump` |
| `Tick` | `on_tick` when transmission is allowed: deadlines, `_retransmit`, `_abandon`, announcement, `_pump` |
| `TickHeld` | `on_tick` without a session or with the radio off: HOLD_LIMIT has passed |
| `RecvSack` | `_on_sack` with fast retransmission and `_pump` |
| `PurgeFile` | `_purge_file_queue` from a verdict or the end of the rounds |
| `RecvData`, `RecvSync` | `on_frame` for data-bearing frames and for a unicast IDLE with FLAG_SYNC: `_check_epoch`, `_advance`, `_release` |
| `FlushAck` | `_flush_acks` from `on_tick` |
| `RestartPlain`, `RestartSecure`, `DropPeer` | a restart seen by its epoch, a restart seen by a new boot id (`reset_peer`), `drop_peer` and `engine` |

Decisions of the model:

- **Numbers are unwrapped** and every comparison goes through `Dist`, the
  distance modulo `SeqMod`, as in the code. The wrap is therefore in the model
  (`Dist`, `IsNew`, `Advance`, `Acknowledges`), while properties can speak about
  payloads. Inside A the order of `outq` is the order of insertion, which is the
  order of unwrapped numbers.
- **Time** is not counted. A tick may find any set of frames past their
  deadline. This allows every timing the code allows, and more.
- **Airtime**: `_pump` sends as many payloads as window, queue and airtime
  allow; the model lets it send any number the window and the queue allow.
- **Loss is lazy**: a frame remains in `air` until it, or a frame sent after it,
  is received. The channel is first-in first-out, which the code relies on for
  fast retransmission (bpsk_link.py:1009). Frames are not duplicated by the
  channel; copies come from retransmission. A sealed frame dropped for want of
  a session (`protect` returns None) is a lost frame.
- **A frame's order of transmission** is the handler run that sent it (`sent`)
  and its number within the run; `SentBefore` is the comparison of `txno`.
- **The file layer** is present through its effect on the window: `HeaderLost`
  (the restart after a lost header removes later frames of the file while the
  loop of `_on_sack` still retransmits them) and `PurgeFile`.
- **A restart** leaves nothing of the old engine in the air (`Quiet`). B's own state is
  another matter: with encryption `reset_peer` clears B's window and the SACK it owes; without, B
  notices nothing until the first frame of the new epoch, and a SACK it could not send because
  its radio was off stays owed (`Unnoticed`; bpsk_link.py:974-975, cleared at 554 only).
- `acked`, `gaveUp`, `first`, `stale`, `submitted`, `lives` and `heard` are history. `stale`
  says that the present engine of A came while B owed its predecessor a SACK.
- A *bare* ACK (bpsk_link.py:993) is not modelled: `_sack` always sends 17 bytes.
  Frames of epoch 0 (bpsk_link.py:882) are never produced by this revision.

`DeliveryService.tla` is what the link promises: each payload reported at most
once, *acknowledged* only when the other end has it; payloads handed up in order,
each at most once, and none passed over unless it failed.

### Properties

- `AckedIsReceived`: what A reports acknowledged, B has. Violating it takes
  a SACK of another lap, a window reset, or a restart. Not claimed while `stale`.
- `HandedUpInOrder`: order and no repetition across gaps and retransmissions.
- `OnlyGivenUpIsSkipped`: B passes over a payload only after A gave it up. Not claimed
  while `stale`.
- `OldIsReceived`: what B would discard as *old* it has had, or A gave it up.
- `ServiceKept`: the link implements DeliveryService.
- `EverythingSettles`: no payload stays in a queue or a window for ever.
- `GapsClose`: what B holds behind a gap is handed up in the end, if B hears A's present
  base again and again.
- `TypeOK`.

After a restart `HandedUpInOrder` speaks about both lives: payload numbers grow
over them, so a payload of the old life handed up after one of the new would
violate it.

### Runs

| Run | Question | Result |
|---|---|---|
| `safety` (`SelectiveRepeatSafety.cfg`) | window 2, losses in both directions; four payloads from just below the wrap, or three from number 0 with a restart of A at any moment, plain or encrypted | no error, 153 000 states |
| `service` (`SelectiveRepeatService.cfg`) | refinement and liveness under `FairSpec` | no error, 66 000 states |
| `outage` (`SelectiveRepeatOutage.cfg`) | what happens when A's base may run ahead without bound | `OldIsReceived` fails |
| `drop_peer` (`SelectiveRepeatDropPeer.cfg`) | an engine dropped and created again in one program run | `AckedIsReceived` fails |

The two violations are behaviours of the code:

- **Outage.** A one-way outage with a full queue lets A give up frame after
  frame. When its base leads B's by more than 192 numbers, `_advance`
  (bpsk_link.py:937) takes it for a lagging sender. B then acknowledges new
  payloads as old without handing them up, until A's base has come round.
  With a lead from 128 to 191 it drops what it held instead. The assumption
  `BoundedOutage` below is exactly what excludes this.
- **Dropped engine.** `ChatApp._release_addr` drops an engine when an approval
  is withdrawn or a node changes address. If the same pair meets again, the new
  engine numbers from 0 under the old epoch; B's window of that epoch still
  stands, and B acknowledges and discards the first payloads.

Two more were found while modelling, and are kept out of what is claimed instead of having a run:

- **A SACK owed to the engine before.** B owes A a SACK with base 5 and has its radio off;
  A restarts without encryption and sends number 0, which is lost; B's radio comes on and B
  pays what it owes. For A the number 0 lies 251 ahead of base 5, in the old half
  (bpsk_link.py:1001), so it is acknowledged. A sends 1 with base 1, B meets a new epoch and begins
  at 1: payload 0 is shown as delivered and is skipped. Both `AckedIsReceived` and
  `OnlyGivenUpIsSkipped` fail here and are stated for engines that are not `stale`; the other
  properties hold for these too.
- **Announcements that say nothing.** Giving a frame up makes three announcements due
  (bpsk_link.py:670), sent 0.2 seconds apart whatever base they carry (1288-1293). If an older
  frame is still outstanding meanwhile, all three carry its number; when that one is
  acknowledged and no data follows, nothing tells B of the gap behind it. With losses the same
  comes of all three being lost. `GapsClose` therefore supposes that the base is heard.

## The file transfer

`FileTransfer.tla` is the file layer of two `LinkState` engines facing each
other, each possibly sending a file to the other. Its chain of events is: the
header opens the transfer at the receiver, fragments fill it, the end mark makes
the receiver answer with a NACK that names gaps or with a verdict, and the
sender repeats until the verdict comes or the rounds are used up.

| Model | Code |
|---|---|
| `hi`, `bulk` | `txq_hi` (NACKs and verdicts owed to the peer) and `txq` (own file items) |
| `out` | the `outq` of the sender joined with the receiver's window for it, as a sequence of items with their state |
| `tx`, `rx`, `last` | `tx_file` (`waiting` is whether `deadline` is set), `rx_file`, `rx_last` |
| `verdict` | history: the `tx_file_done` events, per file |
| `written` | history: the `rx_file_done` events, in order |
| `SendFile`, `Pump` | `send_file` as called by `ChatApp._start_next_file`; `_pump` |
| `Ack`, `GiveUp` | an entry acknowledged; an entry that `_abandon` drops, with `_restart_file` when it is the header |
| `Deliver` with `OnStart`, `OnData`, `OnEnd`, `OnNack`, `OnDone` | `_deliver`, `_finish_file`, `_on_nack`, `_on_done` |
| `Wait`, `Expire`, `NoSession` | the last part of `on_tick`: the wait starts, expires, or is reset without a session |
| `Restart` | a node starts again and the new session's boot id makes its peer call `reset_peer` |

Decisions of the model:

- **The link is its contract.** An item is handed up once and in order; it is
  acknowledged only when the receiver has it, possibly behind a gap; an item
  given up or purged may still be handed up before anything behind it, or be
  passed over. This is what DeliveryService says and SelectiveRepeat implements.
  The window (`Room`) is kept, as it decides what can be in the receiver's
  hands when the header is given up.
- **Every handler ends in `_pump`**, which may send nothing for lack of airtime
  and is called again on each tick; the model leaves sending to `Pump`.
- **CRCs** are the data they are computed from: no collisions. Fragments are their
  content. All files have the same name, so that only the metadata tells them
  apart, and the metadata is the file itself.
- A restart is modelled with encryption: the peer forgets its receive window
  and the open transfer in one step with the restart. While the new session is
  agreed nothing of either node is sent, and what the peer does before could
  as well have happened before the restart.
- `_restart_file`, `_on_nack` and `on_tick` count `round` in the same variable, as the code does.

Properties:

- `OkIsComplete`: a file reported delivered was put together completely at the
  other end, although a verdict names no transfer and may come late or twice.
- `WrittenOnce`: headers and end marks are repeated; the file is not written again.
- `NoLeftovers`: nothing of an ended transfer is sent on into the next.
- `VerdictsKept`: however a transfer ends, the verdicts its sender owes for the
  other direction stay in the queue and in the window.
- `TransferEnds`: a transfer ends, with lost verdicts, outages and a peer that has
  forgotten it, because every repetition costs a round.
- `FragmentsBelong`: fragments in the open transfer are its own. Fails, see below.
- `TypeOK`, which includes that rounds do not exceed their limit.

| Run | Question | Result |
|---|---|---|
| `file_transfer` (`FileTransferSafety.cfg`) | under the fairness below: one file, two items given up, an interrupted session, a restart of either node; or two files in a row with a loss; or one in each direction, the header of one given up already | no error, 227 000 states |
| `file_mixing` (`FileTransferMixing.cfg`) | can fragments get into the transfer of another file | `FragmentsBelong` fails |

**Mixing.** The sender gives up on a file; the receiver keeps it open until the
next header. The next header is itself given up by the link while the fragments
behind it are held at the receiver. The window moves on, the fragments are
handed up and stored into the old transfer. With an end mark behind them the
mixture is written under the old file's name; the sender is told of a corrupt
file although its restart would have repaired it, or, if the new file has
covered all fragments of the old, of a success that the receiver shows as the
old message. Two `LinkState` objects driven through these steps do both. The
comment in `_deliver` (bpsk_link.py:1054) describes the same damage as cured in
r5.1's successor, which holds only when the new header arrives.

What the model admits and no property forbids: a verdict *failed* for a file that
did arrive (all answers lost), a NACK of an earlier transfer that costs
the present one a round, and a repeated good verdict that ends the next transfer of
identical data early. `OkIsComplete` is stated by content for the last reason.

## The sessions

`Handshake.tla` is `SecureLink` of two nodes that have, or may have, approved each
other. A handshake is an initiation, an answer, and the first sealed frame, which
confirms it.

| Model | Code (bpsk_secure.py) |
|---|---|
| `life`, `boot` | `boot_id` of the process, `_Peer.boot_id` |
| `clock`, `seen` | `hs_ts` in node.state, `_init_ts` |
| `init`, `cur`, `prev`, `pend` | `_Peer.init`, `current`, `previous`, `pending_resp` |
| `held`, `due`, `wait`, `unknown` | the timers `resp_holdoff`, `REKEY_AFTER`, `next_try`, and the counter of frames on unknown sessions |
| `trusts`, `paused` | the approval of the peer's key; presence, as set by its beacons |
| `Start`, `Transmit` | `on_tick` with `_start_init`; `protect` |
| `Receive` = `Answer`, `Finish`, `Open`, `Miss`, `Ignore` | `accept`: `_on_init`, `_on_resp`, `_open` |
| `RetryTimeout`, `RekeyTime`, `HoldoffTimeout`, `PendingTimeout`, `PrevTimeout`, `Age` | the clocks that `on_tick` looks at |
| `Restart`, `Revoke`, `Approve`, `Pause`, `Resume` | a new process; `_set_trust` with `forget`; `_set_present` with `pause` and `add_peer` (bpsk_app.py:927-957, 1296-1304) |

- **A session is its initiation** and the lives of its two ends, instead of
  keys: two ends compute the same keys exactly if they agree on these.
- **Timers**. A timer that is set well beyond the round trip elapses freely once what
  it waits for cannot come any more; earlier it costs one fault. A retry to
  a peer that refuses costs a fault as well, since the code backs off without end.
  `UNKNOWN_IDX_HOLDOFF` and the back-off are such distances in time and not kept.
- One sealed frame in the air stands for any number on that session. The air is
  first-in first-out. A node that restarts or approves again knows its peer at once.

Properties:

- `ConfirmedByInitiator`: no node transmits on a session before its initiator
  has finished it, whatever crosses, is lost or repeated.
- `OpensKnownLife`: no frame is opened from a life of the peer that has not been
  announced to the link. This is what `RestartSecure` of SelectiveRepeat takes
  for granted.
- `BootMatches`: sessions in use are between the present lives of both ends.
- `ResetOnlyOnRestart`: the link is reset only for a real restart.
- `Converges`: both ends settle on one session once the faults are used up.

An observation: the previous session must stay readable for as long as frames on it
may arrive (`PREV_GRACE`). Were it shorter, the stragglers would count as unknown
sessions and force new handshakes without end.

## Channels and addresses

`MeshAccess.tla` joins `ChannelManager` and `AddressManager` of bpsk_mac.py with
`ChatApp._on_beacon`, which feeds both and keeps the address book.

| Model | Code |
|---|---|
| `state`, `chan`, `avoid`, `collision`, `claimed` | fields of `ChannelManager`; FULL is a node that still listens |
| `carrier`, `linger` | radio: a transmission that has come through the buffers; a channel left less than `BUSY_HOLD` ago |
| `idx`, `known` | `AddressManager.n` and `known` |
| `at`, `who` | `peers[..]["addr"]` and `_by_addr` |
| `Claim`, `StartCheck`, `Clear`, `Leave` | `tick` in LISTEN or FULL, ACTIVE and SILENT; `_leave` |
| `Notice` | `energy` and `bad` during a check |
| `Beacon` | `on_rx` and `_on_beacon`: the silence check, the address conflict, the address book |
| `Appear`, `Fade`, `Restart` | radio, clock, a new process |

- All nodes hear each other. Levels, damaged and decoded frames are one
  observation: another transmitter on this channel.
- A new carrier, and one silent for a check, cannot be heard: claiming its
  channel is a race and costs a fault. A check that ends as clear although another
  transmits there, since it saw too little (bpsk_mac.py:606-615), costs a fault as well.
- A frame under the node's own address counts as its echo, and the order of the
  identities decides only then. bpsk_app.py:1152-1162 reports any other decoded
  frame on the own channel whatever the identity, so that the smaller one may
  begin a check as well.

Properties: `BookConsistent` (the two directions of the address book agree through
moves, takeovers and restarts), `KeepsByRight` (of two nodes that know each other
never both keep an address), `Separates` (the channels end up divided: no two nodes on
one, none idle while one is free), `AddressesSettle` (transmitting nodes end up with distinct
addresses that all know), `TypeOK`. A full node that has claimed before keeps its
address without being audible, so that distinctness is stated for nodes that
hold a channel. `chan.move('deaf')`, which the docstring of bpsk_mac.py mentions, is
not called any more: deafness is only reported.

## Messages and receipts

`ChatApp.tla` follows a message from the inbox to the verdict in the browser, while
the other nodes come and go, change and take over addresses, and are
approved or not. The link of each address is taken at the promises of
SelectiveRepeat and FileTransfer.

| Model | Code (bpsk_app.py) |
|---|---|
| `at`, `known`, `present`, `approved` | `peers`, `_by_addr`, presence, `_set_trust` |
| `msg` | `_by_mid`: the state and the receipts of a message |
| `waiting`, `jobs`, `active` | `_waiting`, `_file_jobs`, `_active_tx` |
| `engine` | what the `LinkState` of an address has queued and sent, and its transfer |
| `Submit` | a job of `_drain_inbox`: `_send_text`, `_queue_attachment` |
| `Tick` | `_flush_waiting`, `_start_next_file`; every other handler of the radio thread ends with it |
| `OnBeacon`, `Approve`, `Withdraw`, `SweepPeers` | `_on_beacon`, `_set_trust`, `_sweep_peers`, with `_release_addr` |
| `Transmit`, `Retransmit`, `Acknowledged`, `GivenUp`, `TxFileDone` | the reports of the link: `_on_tx_state`, `_on_tx_file_done` |
| `TimePasses` | `WAIT_LIMIT` |

- The encrypted mesh mode is modelled: the node exchanges frames only with the
  approved node its book has under an address (`Open`). A session with it is
  assumed to come back, which `Converges` of Handshake is about.
- The inbound side, progress reports and a change of the node's own address are left out.

Properties: `DeliveredIsComplete` (a receipt says *delivered* only of the node it
names), `OpenHasCause` (a message without a verdict still has somebody working on
it), `NothingForOthers` (what an engine holds is for the node that has its address
now), `ActiveIsSending` (a peer is never blocked by a transfer that is over),
`VerdictsFinal`, `VerdictsCome`, `TypeOK`.

`ReleasedAsPromised` is the docstring of `_release_addr`: when a node leaves or loses its address, or
its key is revoked, what was queued for it there is failed. Fails, see below.

**A node that moves.** `_on_beacon` (bpsk_app.py:1234-1239) deletes the old
address from `_by_addr` and then calls `_release_addr` for it, which looks up whose
the dropped frames are, in `_by_addr`. It finds nobody: a text queued for a node that
changes its address stays *sent*, and a file *sending*, for ever, although the docstring
(bpsk_app.py:559-561) says that messages still queued are failed. Inside that call
`_start_next_file` starts the next file for that node, to the old address, because
`peers[..]["addr"]` changes afterwards. The next holder of that address may receive it, and its
confirmation is booked on the node that moved, as the only recipient. Driving
`ChatApp` directly shows the stuck receipts. The run `chat_move` shows the first of these: a text is
queued for a node at address 1, the node moves to 2, and the receipt is left open. With the
release put before the deletion `ReleasedAsPromised` holds in every state, so the order of the two lines
is all that is wrong.

`OnBeacon` does what the code does, and two history variables say which messages it leaves behind:
`misled` are the files started, in such a move, to the address left; `adrift` are these and what was
aboard the engine of that address. `DeliveredIsComplete` and `NothingForOthers` except the misled,
`OpenHasCause` and `VerdictsCome` the adrift; they hold for all other messages, among them
those of a node whose address another takes over. `VerdictsFinal`, `ActiveIsSending` and `TypeOK` except none.

## The shared channel

`Csma.tla` is the r6 CSMA revision (`src/bladeRF/FDD CSMA/`): `MacState` under a
stop-and-wait link that does not know when its frames leave, joined by the shim.

| Model | Code |
|---|---|
| `mac` | `MacState`: two queues, window, backoff, NAV, carrier and quiet time |
| `link`, `last` | `Peer`: queue, `tx_seq`, tries; `last_rx_seq` |
| `air`, `inbox`, `Pass` | the medium (csma_zmq_channel.py): what overlaps is lost to third stations; a slot of time |
| `SendData`, `Deadline`, `OnRxAck`, `OnRxData` | `send_data`, `_tick_peer`, `on_rx`, each with `_pump` and `_drain_mac` |
| `Strobe`, `OnTick` | the strobe of the shim and `MacState.on_tick` |

- Time passes in slots. The strobe is 10 ms in the flowgraph against slots of
  3 ms, so the medium access runs at frames, hand-overs and an unsynchronised
  strobe that is slower than a slot.
- A transmission is sensed from the slot after its first, so that stations may tie.
  A station that sends while a frame arrives may hear it (the simulator does) or
  not (the radio is deaf).
- A deadline may pass at any time: the link computes it from when it believes the
  frame leaves and the medium access may be later by any amount.
- Flows have fewer than 256 frames; restarts are left out. (bpsk_link.py:545-551 of
  the mesh names what a restart at number 0 does to this generation.)

Properties: `InOrderOnce` (frames are handed up once and in order, *acknowledged* is
true, with old copies still waiting in the queue of the medium access),
`OverlapsAreTies` (only transmissions begun in the same slot overlap),
`EverythingSettles`, `TypeOK`.

Not claimed: that an acknowledgement always beats data (bpsk_mac.py:36). `note_rx` is
also called for the frame a station itself is about to acknowledge, which sets its own NAV and
delays the acknowledgement to NAV plus SIFS. The sender of the data has no such NAV,
its quiet time does not begin anew with its own transmission, and with a strobe of 10 ms the
gaps do not order the two. A frame may be reported failed although it was received.

## Framing

`Framing.tla` takes a link frame through bpsk_phy.py: `TxFramer` with the block that
drives it, the symbols, the differential decoder, and `Deframer.feed` in chunks.

| Model | Code |
|---|---|
| `tx`, `enabled` | `TxFramer`; `_enabled` of the block |
| `Push`, `Enable`, `Disable` | `push`; `_on_ctl` |
| `Transmit` | `work`, `next_symbols`, `next_bits`; the channel inverts symbols; hard decision and differential decoding |
| `rx`, `Feed` | `Deframer`: `buf`, `base`, `scanned`, `pending`; `feed` |
| `stream`, `found`, `sent`, `flips` | history |

Code, header and payload are a few bits long in the runs; how they are searched, checked and
cut is as in the code: the code is found by an intact part of it and then compared
as a whole, codes inside a frame are followed up as well, a frame stays pending until
its header and its last bit are there, and the buffer is cut before what is pending.

Properties: `ChunksDoNotMatter` (the frames returned are those a search of the whole
stream finds, each once, however it was cut), `GoodFrameIsFound` (a frame that
went out whole and was received undamaged is returned, after a damaged one, a
switch-off or a filler), `TypeOK`, which includes the backlog and its accounting and
that the buffer stays below the longest frame.

| Run | Question | Result |
|---|---|---|
| `handshake` (`Handshake.cfg`) | two faults of any kind, at any point | no error, 467 000 states |
| `mesh_access` (`MeshAccess.cfg`) | three nodes, two channels, colliding addresses, one fault | no error, 132 000 states |
| `chat_app` (`ChatApp.cfg`) | two nodes, two addresses, pairs of texts, files and group messages, three moves | no error, 88 000 states |
| `chat_move` (`ChatAppMove.cfg`) | the same instance: does every release fail what was queued, as its docstring says | `ReleasedAsPromised` fails |
| `csma` (`Csma.cfg`) | three stations, two frames of one or crossing traffic, one loss | no error, 342 000 states |
| `framing` (`Framing.cfg`) | two frames, one inverted symbol, one switch-off, two chunk sizes | no error, 77 000 states |

## The replay window

`ReplayWindow.tla` is one direction of an encrypted session: the counter of
`SecureLink.protect` and the receiver's `_Window`. Frames arrive in any order, any number of
times, whole or damaged.

| Model | Code (bpsk_secure.py) |
|---|---|
| `ctr` | `Session.tx_ctr` |
| `top`, `bits` | `_Window.top`, `_Window.bits`; the bitmap is the set of its set bits |
| `Fresh`, `Mark`, `Shifted` | `fresh`, `mark` |
| `Protect`, `Open`, `Drop` | `protect`; `_open`, which tests the window before it decrypts and marks after |

Properties: `OpenedOnce` (no counter is opened twice), `RefusedForCause` (a frame is refused
only if it was opened before or is a window behind), `TypeOK` (the bitmap keeps its width).
All three are proved for every width, so that no run repeats them on a small one.
A session is replaced after `REKEY_AFTER` seconds, long before its counter is used up.

## Bounds and why they are enough

### SelectiveRepeat


`SeqMod = 8`, `Half = 4`, `MaxWindow = 2`, `Window = 2` keep the proportions of
256, 128, 64 and 32 that matter: a window at most MaxWindow and two windows in a half. A window of
two is the smallest in which frames overtake each other's acknowledgements and
a gap can be followed by a held frame. `MaxRetries = 1` gives each frame a
first copy, a retransmission and a drop. Four payloads from number 6 exceed the
window twice, and two of them lie on either side of the wrap; three from number 0, with a
restart, exceed it in one life or divide between two. `MaxAir = 2`
frames in flight and `MaxSacks = 1` are enough for a frame to be overtaken by a
later base and for a SACK to arrive after the window moved; beyond the bound the
oldest is lost, which the channel may do anyway. `SyncCopies` is 2 (1 in the run `service`) instead of 3. The
proofs do not depend on any of these numbers.

`MCInit` (module `MCSelectiveRepeat`) starts from a later number: the state
after that many payloads went through without loss, which is reachable.
`View` merges states that differ only in the absolute value of transmission
stamps or in history that no property can distinguish any more; the comment in
the module says why. The refinement and liveness run uses no view.

`BoundedOutage` is an assumption about the environment, not something the code
enforces: a frame that B hears leads the frame it heard before by at most
`MaxLead < Half` numbers, and while a SACK travels A's base moves by at most
`MaxAckLag <= Half - Window`. The runs use the largest values it admits,
`MaxLead = 3` and `MaxAckLag = 2`; the run `outage` shows what a
larger lead does.

`CHECK_DEADLOCK FALSE` in all configurations: when every payload is settled and
nothing is in the air, the system rests.

### FileTransfer

One file has two fragments, so that one can be missing while the other is there,
and `MaxNack = 1` makes a NACK name fewer than are missing. Two rounds are a
first one and a last one; every repetition and every way to run out of rounds
occurs. A window of three lets the one-fragment file be complete at the
receiver while its header is still unacknowledged, which is what a repeated
header needs. `MaxLost` counts items the link gives up; purged items are lost as well and not
counted. `Offers` says which files are sent, and `MCInit` (module `MCFileTransfer`) which budgets each
offer begins with: all of them for the single file of two fragments, one loss for two files in a
row. With a file in each direction the second node has started its own, the link has given up its
header and the transfer is in its second round, a state that `SendFile`, `Pump` and `GiveUp` lead to.

### Handshake

`MaxFaults = 2` faults of any kind: two losses, a loss and a restart, two early
timeouts, a crossing with a lost confirmation, and so on. The hazards listed for the
sessions need at most two. `Resync = 2` stands for `RESYNC_UNKNOWN`; two frames are
the least that distinguishes one straggler from a peer that keeps on. `MaxStamp = 8`
initiations per node are never reached, so that it cuts nothing off.

### MeshAccess

Three nodes and two channels are the least with which two nodes may collide
while a third waits for a channel. Nodes 1 and 2 derive the same address first, and the
next address of node 1 is the first of node 3, so that moving leads into another
conflict. The last address of each is its own, which makes the search in `_next_free`
end (`MeshAssumption`). The code does not see to that: `derive_address` has 254 values
(bpsk_mac.py:202-204), and where others are known under all of them, the search does not
end (252-259). `MaxFaults = 1`.

### ChatApp

Two nodes, one of which may take over the address of the other, and three changes of
the book: come, leave, come back at another address. Two of the four messages per run: a
text of two frames, two files for the same node, a message to the group.
A text of two frames is the least that can fail in part.

### Csma

Three stations, so that one is neither sender nor receiver. Acknowledgements are
shorter than data and SIFS shorter than DIFS; the window may double once. The strobe
takes up to two slots. `MaxRetries = 1`.

### Framing

A code of five bits in three parts with a threshold of two, as in the code, so that one
inverted symbol, which damages two bits, is still tolerated, and codes occur
inside other frames and across their ends all the time, which a code of 64 bits makes rare. The stream of 24
symbols holds two frames; the chunks of four and seven bits cut them at every place. The symbols are
sent in batches of six, of which two may be inverted: a frame may begin at any symbol,
so that every part of it can be hit. `MaxWire` bounds how far the receiver may lag.

## Fairness

`FairSpec` assumes, of the program, weak fairness of the tick: a passed deadline
is acted on (`TimesOut`), a due announcement is sent (`Announces`), queued
payloads are sent when the window has room (`Pumps`). The Message Strobe calls
`on_tick` every 10 ms, a watchdog in the shim takes over when it stops, and
`on_tick` visits every entry of the window. `Tick` stands for ticks that may transmit: a
peer out of session is brought back by the handshake or its frames are given up
after HOLD_LIMIT, so it does not stay unable for ever. Of the radio it assumes
nothing: frames and SACKs may all be lost, and `EverythingSettles` holds because of the retry limit.
That B hears of a new base needs the radio, so `GapsClose` has its supposition in the formula: if again
and again the base B heard last is A's present one, B does not hold payloads for ever. The code does not
promise this, see the announcements above.

`FairSpec` of FileTransfer assumes of each node that queued items are sent when
there is room, that something outstanding is acknowledged again and again (the
link settles every entry, which is `EverythingSettles` above; the number of
entries given up is bounded by `MaxLost`), and that the tick starts the wait for a
verdict and notices its end. It assumes nothing of the receiver: the transfer
ends even if the other end never hands anything up.

`FairSpec` of Handshake assumes that ticks run, what is in the air is received (losses are
bounded by the faults), a node goes on using its session, since keep-alives and
acknowledgements are sent on it, and that a withdrawn approval is given again and an absent
node comes back; otherwise there is nothing to converge to.

`FairSpec` of MeshAccess assumes that ticks run and carriers come through, and, strongly, that
a collision is noticed sooner or later and that a beacon which collides with nothing and says
something new comes through. Silence checks begin at random times
(bpsk_mac.py draws the next one), which is what keeps two of them from coinciding for ever.

`FairSpec` of ChatApp assumes the tick, `WAIT_LIMIT`, and a link that settles what it
holds, which `EverythingSettles` and `TransferEnds` say. `FairSpec` of Csma assumes that
handlers, strobes, time and deadlines go on. In both the work is finite, so that weak
fairness of the disjunction is enough.

## What is proved

`SelectiveRepeatProofs.tla`, checked by TLAPS, for every `SeqMod`, `Half`,
`MaxWindow`, `Window`, `MaxRetries`, every set of epochs and every bound, under
the assumptions of the module (`SeqMod = 2 * Half`, `2 * MaxWindow <= Half`,
`Window` in `1..MaxWindow`) and `BoundedOutage`:

| Theorem | Statement |
|---|---|
| `Invariance` | `RestartSpec => []Inv` |
| `TypeCorrect` | `RestartSpec => []TypeOK` |
| `AckedReachesB` | `RestartSpec => []AckedIsReceived` |
| `InOrder` | `RestartSpec => []HandedUpInOrder` |
| `SkipsOnlyGivenUp` | `RestartSpec => []OnlyGivenUpIsSkipped` |
| `OldWasReceived` | `RestartSpec => []OldIsReceived` |
| `ImplementsService` | `Spec => ServiceKept` |

The argument. None of the properties is inductive: that an acknowledgement is
true depends on the SACK, which depends on B's window when it was sent, which
depends on the bases of the frames before. `Inv` says so in four parts.
`SenderInv`: every number from `first` to below `next` is outstanding, acknowledged or
given up, exactly one of them, and the window holds. `AirInv`: frames in the air carry bases
between the one B heard last and A's present one, and bases grow in the
order of transmission; a data frame lies within a window of its base.
`ReceiverInv`: B's window holds each payload under its own number (`Exact`), what this
engine numbered below its base is handed up or given up, the base lies within a window of the
one heard. `SackInv`: a SACK describes what B has and is dated by a base not above
A's.

The invariant spans restarts by one distinction. B's window is `Fresh` if it is that of
A's present engine; if it is not, it holds nothing at or above `first`, its
base is not above `first`, and B has told A nothing since. The last does not hold if B owed the engine
before a SACK; then the engine is `stale`, and `TruthInv`, what the invariant says of SACKs and of
acknowledged payloads, is not claimed of it, nor what follows from it. `RestartInv` shows that a restart makes
the window stale and nothing worse; the first frame heard afterwards makes it fresh, with the same
conclusion whether B had forgotten the window (encryption) or finds another epoch (`WindowMet`).
What the theorems suppose of a restart is what `RestartPlain` and `RestartSecure` say:
the drawn epoch is not the one B holds, and nothing of the old engine is still in the air.
DeliveryService has one engine of A, so that `ImplementsService` is about `Spec`.

With these the modular comparison is decided: `DistAhead` and `DistBehind` turn
a distance modulo `SeqMod` into an ordinary difference when the two numbers are
less than `Half` apart, and the invariant and `BoundedOutage` bound the
differences. `AdvanceFollows` and `AcceptFollows` say what a base and a payload do to
B's window, `TransmitWindow` and `TransmitAir` what a handler run of A does; the
steps `SenderRunInv` and `HearInv` put them together, one case per action.
`SenderRunServes` and `ReceiverServes` map each step to a step of
DeliveryService or a stutter.

`FileTransferProofs.tla`, for every set of files with whatever sizes and
contents, every `MaxRounds`, `MaxNack` and `Window`, every bound, and restarts
included, under the assumptions of the module:

| Theorem | Statement |
|---|---|
| `OkComplete` | `Spec => []OkIsComplete` |
| `NothingLeft` | `Spec => []NoLeftovers` |
| `InOrderAlways` | `Spec => []Course` |
| `OnceWritten` | `Spec => []WrittenOnce` |
| `OwedStay` | `Spec => VerdictsKept` |
| `TypeCorrect` | `Spec => []TypeOK` |

The argument. A verdict travels through four places before it is believed: the
receiver's memory of its last transfer, its queue of replies, the window, and
the hand-over; a stale one may wait in any of them while the transfer it judged is
over. `VouchedInv` therefore says of each place that a good verdict names data that
was written, and since `_on_done` compares the CRC, it is true of the file of the
present transfer whichever transfer it was meant for. `OwnInv` says that all a node
has queued or outstanding of its own files belongs to its transfer under way; it
is inductive because every end purges queue and window, `PurgeLeaves`, and because
the wait runs out only when both are empty, `ExpireInv`. The window is used only
through the fact that acknowledging, giving up, handing over and forgetting change
states and trim entries but add none and make none outstanding again
(`SettledMembers` and the four lemmas after it); the steps then follow from four
shapes they share: `WindowsInv`, `EndsInv`, `GoesOnInv`, `RepliesInv`.

That a file is written once needs a second invariant, `Course`. The receiver writes when the
last fragment comes and remembers one finished transfer only (`rx_last`), so a header of an
earlier one would make it write again. `Order` says that no such header comes: in the window the
items of a file stand together, those of the current file last, and of what the link may still
hand up nothing follows a file that the receiver has gone past; every file it has written in this
life is the one it remembers, or is `Over`. A restart of a transfer (`_restart_file`) repeats
the header of the current file and only of that; a restart of the receiver begins a new life.
The lemmas `OrderShrinks` and those after it say which changes of the window keep the order. That
there are two nodes is used through the finiteness that `NodesAssumption` states.

That the verdicts a node owes stay is a statement about numbers of entries, shown by
an injection from the places of the verdicts before a step to those after it (`KeepsOwed`,
`Owes`): a reply put first moves every place by one, a superseded NACK taken out closes its
gap, and a purge removes a node's own items, which are no verdicts. In the window
`FewerLost` says that a step withdraws no verdict except `GiveUp`, which counts it in `lost`.
Restarts are excluded by `lives`, as in the property.

`HandshakeProofs.tla`, for every `Resync`, `MaxFaults` and `MaxStamp`:

| Theorem | Statement |
|---|---|
| `TypeCorrect` | `Spec => []TypeOK` |
| `OnlyConfirmed` | `Spec => []ConfirmedByInitiator` |
| `LivesMatch` | `Spec => []BootMatches` |
| `RestartAnnounced` | `Spec => []OpensKnownLife` |
| `ResetsAreReal` | `Spec => ResetOnlyOnRestart` |

The argument. `NodeInv`: the sessions a node holds are of its own life and, except the
pending one, of the life of the peer it knows; a session in use is confirmed.
`AirInv`: frames of one node lie in the air in the order of its lives, none of a later life than
the present, an answer is to an initiation that is not from the future, and sealed frames are on
confirmed sessions only. The order in the air is what makes a known life never go back:
a frame of an older life cannot follow one of a newer.

`MeshAccessProofs.tla`, for every number of nodes and channels and every derivation that
satisfies `MeshAssumption` (every node derives, last, an address that no other derives; the code's 254
values do not guarantee it):

| Theorem | Statement |
|---|---|
| `TypeCorrect` | `Spec => []TypeOK` |
| `BooksAgree` | `Spec => []BookConsistent` |
| `RightsKept` | `Spec => []KeepsByRight` |

The argument. The invariant adds to these three `KnownDerived`: a node is known under
addresses it derives only. So the last address of a node is never known as another's, and
`NextFree` picks from a set that is not empty: this is where the assumption is needed, and nothing of it is
proved.

`CsmaProofs.tla`, for any finite set of stations, any loads below 256 frames per flow, and
all timings, windows and bounds:

| Theorem | Statement |
|---|---|
| `TypeCorrect` | `Spec => []TypeOK` |
| `TiesOnly` | `Spec => []OverlapsAreTies` |
| `StopAndWait` | `Spec => []InOrderOnce` |

The argument. `Carrier`: a station that is not sending senses the medium busy exactly if another
has been sending since before this slot; a run of the medium access that finds
the medium idle can therefore only meet transmissions that began in this slot.
`Order`: the copies of a flow's data frames that wait, fly or have arrived lie in the
order of their numbers, none above the one the link is at and none below a frame that
was handed up; `last_rx_seq` is the number handed up last; an acknowledgement, wherever it is,
is of a frame handed up. `Budget` keeps a flow below 256 frames, so that a number
modulo 256 names one frame, and `Reported` is the second half of `InOrderOnce`.

`ChatAppProofs.tla`, for any nodes, addresses, reach, messages and sizes of texts that
satisfy `ChatAssumption`:

| Theorem | Statement |
|---|---|
| `Invariant` | `Spec => []Inv` |
| `TypeCorrect` | `Spec => []TypeOK` |
| `DeliveredComplete` | `Spec => []DeliveredIsComplete` |
| `CauseOfOpen` | `Spec => []OpenHasCause` |
| `EnginesForOwners` | `Spec => []NothingForOthers` |
| `ActiveSending` | `Spec => []ActiveIsSending` |
| `VerdictsStay` | `Spec => VerdictsFinal` |

The argument. A receipt is kept by node and an engine by address, and the address book between
them changes, so no property speaks of a receipt alone. `TextReceipt` balances the two: the
frames acknowledged on a receipt, and those the engine at the node's present address still holds,
make up the text while the receipt is open. Withdrawing an approval, or another node at
the address, takes the frames from the engine and closes the receipt in the same handler
(`ReleaseAddrInv`), and what the engine of an address holds always belongs to a recipient that is
there now. `FileOK` says that a file is with at most one engine, and that nothing has been
said of it until that engine reports; `Busy`, that `_active_tx` names the file in the engine.
All handlers go through the same helpers (`_start_next_file`, `_dispatch`, `_release_addr`,
`_flush_waiting`); each has a lemma about the record it works on (`StartNextFileInv`, `DroppedInv`,
`FlushWaitingInv`, ...), stated for any address book, and a handler is their composition. `Mild`
and `Settles` carry `VerdictsFinal` along: no helper takes back a final state. The messages that
`adrift` and `misled` name are excepted in the invariant exactly as in the properties.

`FramingProofs.tla`, for every code, partition of it, threshold, width of the length field, size of
a byte, preamble, filler, payloads, batch and chunk sizes that satisfy `FramingAssumption`:

| Theorem | Statement |
|---|---|
| `DeframedAlways` | `Spec => []Deframed` |
| `EveryFrameOnce` | `Spec => []ChunksDoNotMatter` |
| `SendingAlways` | `Spec => []Sending` |
| `GoodFrameFound` | `Spec => []GoodFrameIsFound` |
| `TypeCorrect` | `Spec => []TypeOK` |

The argument has two halves that meet in `GoodFrameFound`. `Deframed` is about the receiver: the
frames pending and those returned are functions of the whole stream so far, and the buffer is its
end, which reaches back exactly to what is still to be read or searched. Then a chunk
changes only where the stream ends: `Growth` says which frames a longer stream has, `Progress` how a
pending one becomes complete, and that the buffer is cut no further than the first pending
one is what makes reading in the buffer reading in the stream. An intact part of the code is
always there to search for, since the parts are disjoint and there are more of them than errors
allowed (`PartIntact`). `Sending` is about the sender: of every frame begun, the bits that
have arrived are the frame's, each turned over exactly if one of its two neighbouring symbols was
inverted and the other not; the frame that is not out yet is the one `TxFramer` is at. One
bit is `BitOnAir`, a batch is an induction over its symbols (`SymbolsBatch`), and receiving leaves
it alone because it speaks of the stream and the symbols on the way as one sequence.

The operators that compute over data (`Power`, `Number`, `Field`, `Total`, the bits of a batch) are
recursive functions, and the inductions over them are made by hand: `Recursion` proves that such
a function exists and satisfies its equations, `Stepwise` that what holds at 0 and passes on holds
up to a bound, both from the least counterexample. `FramingAssumption` says what the code's
constants satisfy: a code that is not empty in disjoint parts, more of them than errors allowed, a
smallest payload of at least a byte, and a length field wide enough for the largest.

`ReplayWindowProofs.tla`, for every width of the window and any number of frames (`Sizes`):

| Theorem | Statement |
|---|---|
| `TypeCorrect` | `Spec => []TypeOK` |
| `NeverTwice` | `Spec => []OpenedOnce` |
| `NoFrameWasted` | `Spec => []RefusedForCause` |

The argument. Neither property is inductive, as neither speaks of the bits that a later shift
brings to bear. `Exact` does: within the window, a bit is set exactly if its
counter was opened, and nothing above `top` was. `OpenKeepsExact` shows that a shift keeps it.

Only model-checked:

- the liveness properties (`EverythingSettles`, `GapsClose`, `TransferEnds`, `Converges`,
  `Separates`, `AddressesSettle`, `VerdictsCome`), which are outside what TLAPS proves
  here.

## What is not modelled

- Bytes: CRC, scrambling, headers, encryption arithmetic. A damaged frame is a
  lost frame, a sealed frame that does not open is a lost frame.
- The mode without strict encryption and the effect of `set_address` on sessions.
- Radio estimation (gain, frequency, level meters) and the generated flowgraphs.
- The HTTP server beyond its hand-off, the browser page, the console commands, the
  inbound side of the chat (nicknames, history, stored files).
- Several peers sharing one airtime budget: each engine is modelled alone; the
  sharing only delays, and the model admits any delay.
- In MeshAccess the calibration of levels and echo, the choice among free channels by
  score, late beacons, nodes out of each other's range.
- In Csma files, broadcasts, beacons, restarts and sequence numbers that wrap.
- The r4 and r5 generations. The stop-and-wait link of r5 is the one in Csma with a single
  peer; its file transfer, in which any verdict ends the transfer in progress, is not modelled.
- The flowgraphs, HTML and user interfaces are by far the larger part of the sources. Their
  state is configuration.
- The remaining components are listed in `PROJECT.json` with their status.
