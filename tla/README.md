# A verification development for onvifserver

onvifserver puts an ONVIF face on an IP camera.  It is one process: it connects
over TCP to the *camera process* on the same device, keeps a copy of that
process's settings, answers SOAP requests from the copy, and sends changed
settings back.  The repository has no documentation and no tests; what the code
says about itself is in its comments, in the messages it prints and in the faults
it answers with, and the source is the reference for every definition here.

1. [Inventory](#1-inventory) · 2. [Modules](#2-the-modules-and-the-code) ·
3. [Runs](#3-the-runs-and-what-they-show) · 4. [Proofs](#4-what-is-proved) ·
5. [Disagreements](#5-where-the-code-disagrees-with-itself) ·
6. [Not modelled](#6-what-is-not-modelled-and-why) · 7. [What is left](#7-what-is-left)

To run: `tlc -config NetLinkSafe.cfg MCNetLink`, `tlapm NetLinkProofs.tla`.
`PROJECT.json` lists the runs with their modules, maps every definition to the
source lines it translates, and lists every hazard at the line where it bites, with
the properties that cover it or the reason why none does.

## 1. Inventory

| Component | State it keeps | Operations | Talks to |
|---|---|---|---|
| **Link to the camera** `NetModule.c` | `NET_MODULE_ST`: the socket, a flag per thread (1 run, 0 stop, -1 ended), thread ids, `stop_work_by_user`, `have_again_flag`, message count | `NM_connect`, `NM_create_work_thread`, `NM_net_send_data`, receive / send / check threads, `NM_destroy_work_thread`, `NM_reset` | settings copy by a callback from the receive thread; senders by calls |
| **Send buffer** `buf_array.c` | ring with free-running unsigned `in`/`out`, two call counters, `item_num`, a mutex | `fifo_put`, `fifo_get`, `fifo_reset`, `fifo_enable_get` | link, BUF mode; in DIRECT mode only its mutex is used |
| **Settings copy** `onvif.c` | `g_pIpcamAll`, `get_ipcam_info_once`, both global and without a lock | `get_ipcam_all_info`, `net_recv_enc_data`, `IpcamSetValue`, the handlers that use them | link both ways; SOAP thread; refresh thread |
| **SOAP handlers** `onvif.c` | locals, over several steps | search by token, format an answer, set a value | gSOAP, settings copy |
| **The process** `onvif.c` | which threads exist | `main`, `OnvifRecvMotionFunc`, every `exit()` | all of the above |
| **Printf server** `print_read.c` | descriptors 1 and 2, a static descriptor, a thread per client | accept, redirect, put back | a debugger; the kernel's table of descriptors |
| Listening side, `NM_disconnect` `NetModule.c` | a list of links | accept, close by the user | nothing calls it |
| ONVIF client, motion receiver `onvif.c` | sockets, a stack record handed to a thread | `Net_Process`, `tcp_srv_listen` | nothing calls it |
| Command buffer, scan array `onvif.c` | fixed arrays and their locks | `insert_cmd_buf`, `insert_ip_array` | nothing calls it |
| Settings file `ipcam_config.c` | one file, one static record | load, save, defaults | `main` with `dbg_test`, which is 0 |
| Discovery, UDP server `onvif.c` | sockets | probe, answer | multicast |
| Serial port `print_read.c` | none | system calls | nothing calls it |
| Network configuration, ping | none | system calls | the kernel |
| gSOAP, stubs, plugins | third party, generated | | |

**How they interact.** `main` makes the link, waits for the first answer, creates the
discovery, refresh, motion and printf threads and then serves SOAP requests one at a
time.  The refresh thread asks for the settings every five seconds; many handlers ask
too.  The answer comes through the link's receive thread, which copies it over
`g_pIpcamAll` while the others may be using it.  The link is made in DIRECT mode
(onvif.c:5937): a message goes to the socket in the thread that sends it.  The other mode
of `NetModule.c`, `NET_SEND_BUF_MODE`, with the ring and a send thread, is one that
`main` never chooses.  A link that fails has its check thread take it down and call
`exit(0)`; something outside restarts the process.  A request not answered in about two
seconds also calls `exit(0)`.

**What is hard.**

* *Interleavings.*  No shared field but the ring is protected: thread flags,
  `client`, `netrecv_id`, the settings copy and its flag are plain memory written
  by three to five threads.  The listening thread of the printf server gives its
  thread the address of a static that it writes again for the next client.
* *Failure in the middle.*  A message takes several `send()` calls, and a timeout,
  an error or a teardown can fall between any two; a setter sends twice.
* *Ordering.*  A receive thread that was given up writes its flag later; the
  callback raises its flag before it is done with the copy; both sides of the
  printf server redirect the same two descriptors.
* *Timeouts and retries.*  `recv` and `send` time out with `EAGAIN`; a sender
  retries for ever and asks for a teardown; the poll for an answer ends the process.
* *Boundaries.*  Unsigned indexes wrap, call totals return to 0 at 1000000, a
  message that does not fit empties the ring, `__sizeProfiles` is 2 or 3.
* *Reuse.*  A closed descriptor's number is given out again.
* *Liveness.*  The only recovery is to end the process: does it always end?

**What makes each part correct.**  Link: whole messages on the stream; every kind of
failure leads to the end of the process.  Send buffer: messages come out whole, in
order, and none waits unseen.  Settings copy: never served before it is filled; it
agrees with the camera again once changes stop; what a client set is what is sent;
waiting ends.  Handlers: an answer is about what the client named, and its parts go
together; a known name is not refused, a wrong address is.  Process: it serves when it
has heard of the camera, and ends when it has lost it.  Printf server: a client's
connection is closed once, by its own thread, and the output comes back.

## 2. The modules and the code

| Module | Models |
|---|---|
| `NetLink` | one link made by `NM_connect`, with all its threads, in both send modes |
| `MessageStream` | what a link promises of the stream it writes; `NetLink` implements it |
| `OnvifServer` | `main` and the refresh thread over `NetLink`, which it extends |
| `ServerLife` | what the whole server promises; `OnvifServer` implements it |
| `ConfigSync` | the settings copy, its readers, writers and refreshers, and the camera |
| `SoapHandlers` | the handlers, step by step, against answers copied in between |
| `Ip4` | `isValidIp4`, and what `inet_aton` reads in a string it has accepted |
| `CycleBuffer` | the operations of `buf_array.c` as functions of the ring's record |
| `SendQueue` | the ring in use by `NM_net_send_data` and `NM_get_buf`; extends `CycleBuffer` |
| `FrameQueue` | what the send buffer promises; `SendQueue` implements it |
| `PrintfServer` | the hand-over of the program's output to TCP clients, and back |
| `MC...` | small instances: model values, symmetry, lengths, tokens, addresses |
| `...Proofs` | the theorems about the module of that name (section 4) |

Definitions keep the source's names where they stand for a function or field.  A step
reads or writes the shared memory at most where one statement of the source does, or
stands for several statements that touch nothing another thread changes in between, or
that hold the lock.  Four kinds of step do more: a condition over several flags
(`Watching`, `SendFlags`) is read at once; `NM_reset`, behind which only `exit(0)` comes,
makes its writes at once; an encoder's settings are one part of the copy in `ConfigSync`
(`SetWrite`); and `SoapHandlers` copies an answer at once (`RecvCopy`), because
`ConfigSync` has the copy part by part.  A definition whose comment begins with *Slip* is
a version of the next one with a mistake such code invites; nothing uses it.
`PROJECT.json` ("mutants") pairs each with the property that must fail when it replaces
the true one.

**NetLink.**  `pst` is the record of fields threads share.  `conn`, `rx`, `chk`, `txd`
and `tx[s]` say where each thread is; the table gives the code behind the values.

| Variable | Values and what they are in `NetModule.c` |
|---|---|
| `conn` | `start` before `connect()`; `send`, `recv`, `check`: next thread to create in `NM_create_work_thread`; `undo`: one could not be created |
| `rx.pc` | `test` the `while`; `select`; `read` in `recv()` with `need` pieces to go; `out` before `recv_th_flag = -1` |
| `chk.pc` | `loop`; `NM_destroy_work_thread`, for the send and for the receive thread: `dsend`, `drecv` the test of the flag; `...stop` before the 0 that stops the thread; `...wait` the loop of polls; `...zero`, `drecvforce` before the 0 behind it; `dcancel` before `pthread_cancel`; then `dclose`, `dclear`; `sleep`, `reset`, `exit`; `dead`: cancelled |
| `txd.pc` | the send thread of BUF mode: `test`, `get`, `send`, `out` |
| `tx[s].pc` | `flags`, `lock`: before the lock; `put`: BUF mode; `head`, `call`, `stop` (between its two flags), `again`, `fail`: `NM_pst_socket_send_data` holding the lock |

`rx.errno` is the receive thread's `errno`: `recv` returning 0 leaves it as it was,
and the loop looks at it.  `wire` is whose message is incomplete on the stream, a
history variable that no action reads.  `peer` is the camera: `up`, `stalled`
(connected, neither reading nor writing), `closed`, `reset`.  `pst.queued` counts
messages in the ring, whose inside is `SendQueue`'s.  A message is `Chunks` pieces, and
its first is the header.  `MessageStream` has the stream as its reader sees it: whose
message is incomplete at its end, how many pieces of it are there, and whether anything
more can follow.  `wire`, `tx` and the state of the socket give its variables (`StreamIs`,
`Sent`).

**OnvifServer.**  `get[s]` is `get_ipcam_all_info` as run by `main` and by the refresh
thread: `begin` clears the flag, `send` calls `NM_net_send_data` (`sending` while
`NetLink`'s sender `s` is in it), `poll` and `nap` are the loop at 5813–5824.  What an
answer holds is left out; `asked` counts questions that have arrived, so that no answer
comes unasked.  `ServingEnds` stands for every other exit of `main` after its first
answer.  `ServerLife` has two variables: how far the process is, and whether it has
heard of the camera.

**ConfigSync.**  `g_pIpcamAll` is split into the parts handlers touch: each encoder's
settings, the address, and `__sizeProfiles`.  The receive thread copies part by part, in
any order, since `memcpy` promises none.  `req[c]` is `get_ipcam_all_info` as run by the
SOAP thread (`main`) and by the refresh thread.  `job` is the SOAP request being
served.  Messages are FIFO per direction, as the link delivers them.  `answered` is a
history variable.  The camera (external) answers with its settings and takes from a
command the part it concerns.

**SoapHandlers.**  `h` holds a handler's locals and its place: `ask`, `wait` for
`get_ipcam_all_info`; `size` sets `__sizeProfiles` back to 2; `count`, `search`, `decide`
are the loops over tokens and what follows them, one turn per step, because the receive
thread may make `__sizeProfiles` 3 and 2 again between two turns; `address`, `byte`,
`send` are `SetNetworkInterfaces`; `zone`, `tz`, `utc` are `GetSystemDateAndTime`.  Five
handlers search, each with its own comparison (`Matches`), its own bound (`InLoop`) and
its own way to tell that nothing was found (`Decide...`).  A token is a model value.  A
request holds one, except that for the options, which holds one of a profile and one of a
configuration, either of which may be absent and its buffer not initialised (`Names`). An
address is a sequence of digits, dots and other characters (`Ip4`): `Loop` is
`isValidIp4`'s loop with its three locals, one character per turn; `inet_aton` (external)
takes apart what it has let through and reads a number that begins with 0 as octal.
`ProfileAt` and `EncoderAt` also say what lies behind the end of each array, which one
loop reaches.  The answers here hold the number of profiles, the address and the time
zone: what `ConfigSync` says of copying in parts is not repeated.

**SendQueue and CycleBuffer**, the mode `main` does not choose: what they show, and
`SendThreadEndStopsReader` of `NetLink`, holds of the module for whoever makes a link in
that mode, and is not about the running server, which uses of the ring its lock only.  A
cell of the ring holds a mark saying which message
and place it belongs to, so that any mixture would show.  `Width` stands for 2^32 and
`WrapAt` for 1000000.  `fifo_enable_get` is called without the lock (`Look`) and acted
upon later (`GetLock`).  `queue` is a history variable that no guard and no other
variable reads: the messages whose payload was put, without those taken since, and none
after a reset.  `FrameQueue` speaks of it and of `taken`, the result of the last
`NM_get_buf`, which comes from the cells alone; that the two agree is what the refinement
says.

**PrintfServer.**  `fds` is the process's table of descriptors: what each number stands
for now.  `accept_socket_fd` is the static whose address every thread is given; `srv` is
`create_socket_recv` and `th[c]` the thread of client `c`, each with the number it has
read.  `dup2` of a number that is not open fails, of one that has become another's it
succeeds.  `Others` open and close descriptors at any time and get the lowest free
number, as the kernel gives them.  A thread whose number has become another's, or 0,
waits in `select()` there like on its own; that such a connection ever ends is not
assumed (`ThreadLoopOfAnother`).  An error of the listening socket's `select()` ends the
listening thread (`ListenError`).  `late` records that a thread had not yet read its
argument when `sleep(1)` was over; the two properties that rest on that second say so.

## 3. The runs and what they show

| Run | Distinct states | Bounds | Shows |
|---|---|---|---|
| `link_safe` | 804 942 | DIRECT, 2 senders, 3 pieces, symmetry | types; no thread sends into another's incomplete message; the lock always has a holder on its way to giving it back; implements `MessageStream` |
| `link_live` | 490 076 | both modes, 1 sender, 2 pieces, ring of 1 | a send timeout ends the process; the receive thread's end does; a silent camera is noticed; in BUF mode the send thread's end stops the receive thread |
| `link_forced_out` | – | DIRECT, as `link_live` | *violation*, see section 5 |
| `server` | 522 266 | 2 asking threads, 1 poll, idle and wait limits 0, 1 question kept | types; implements `ServerLife`; a lost camera ends the process, a stalled one unless a thread is in its send |
| `sync` | 230 055 | 1 encoder, 1 poll, 2 in flight, 1 request, 1 edit at the camera | types; nothing is served from an unfilled part; an answer is lost to a caller only through the other, still waiting; each wait ends; a lost link ends the process; copy and camera agree in the end |
| `sync_exit` | – | 2 encoders, 2 polls, 1 request | *violation*, see section 5 |
| `sync_set` | – | as `sync_exit` | *violation*, see section 5 |
| `soap` | 682 118 | 1 request of any kind, 3 profiles in an answer, 30 addresses, 3 zones, 1 edit, 2 in flight | the answers of section 1, under any copying in between |
| `soap_uri` | – | as `soap`, no edit | *violation*, see section 5 |
| `soap_address` | – | as `soap`, no edit | *violation*, see section 5 |
| `send_queue` | 216 450 | 2 producers, ring of 8, messages of 3 and 5 cells, width 16, totals below 9 | types; no message waits unseen; implements `FrameQueue` |
| `printf` | 58 894 | 2 clients, 1 other user of descriptors, numbers 3 to 5 | types; the output comes back; a thread closes its own; whoever leaves is let go |

**Why the bounds are enough.**  A limit such as 150 idle ticks, 30 waits or 20 polls is
a delay before a branch; with 0, 1 or 2 both sides of the branch occur, in every order
with the other threads' steps, because no step has a duration.  Three pieces give a
message a beginning, a middle and an end; two senders are one that holds the lock and one
that wants it.  `RecvWrap` 1 makes the count return to 0 constantly, so that the check
thread may find the number it remembers.  A ring of 8 holds two short messages, or one
long and one short and no more, so that headers straddle the end, payloads do not fit and
headers do not fit; indexes wrap after two rounds; totals wrap after nine calls, while
messages are in the ring.  `Width` must be a multiple of `Size`, and `WrapAt` greater,
as in the code.  In `ConfigSync` one request meets what startup and the refresh thread
leave in the copy; two answers in flight are a late one and the one asked for.  In
`SoapHandlers` a handler keeps nothing from one request to the next but the copy, which
the first steps of the receive thread leave in any state it can have, and the initial
state is one request's end; for one of a second request the proofs of section 4 hold.
The addresses are the four numbers each empty, too great, too long, not a number, or with
a digit octal does not have, one number too few and too many, and the three that pass.
Two clients of the printf server are one leaving and one arriving; three numbers are both
clients' and one for the others.

**Deadlock** is checked in every run but `printf`, where all clients may have come and
gone.  A link left without check thread (`chk.pc = "dead"`) and a process that has ended
may stutter; nothing else may stop.

**Fairness.**  Every thread that can take a step takes one in the end: `WF` for each
thread, which is what the kernel's scheduler gives; none of them runs at a real-time
priority.  Nothing is assumed of clients or of the camera in `NetLink`, `OnvifServer` and
`PrintfServer`.  `WF` per thread gives no fairness between several outcomes of one call,
so a `send()` may time out for ever.  In `ConfigSync` the link, unless lost, delivers in
the end and the camera takes messages; how late is not bounded, so every poll limit can
run out.  A camera that reads nothing for ever while the connection stays up is
`NetLink`'s subject; `linkUp = FALSE` in `ConfigSync` is a link that refuses messages.

**What some of them rest on.**  `StopFlagEndsProcess` holds because `stop_work_by_user`
keeps `NM_destroy_work_thread` from calling `pthread_cancel`.  `ReaderEndEndsProcess`
because a receive thread that has ended is not waited for.  `LostPeerIsNoticed` is as
strong as the code allows: new messages are refused, but the process may stay, see
section 5.  `LostCameraEndsProcess` is the second line of defence: even if the check
thread has cancelled itself, the refresh thread's question is refused or not answered and
its poll limit ends the process.  `StalledCameraEndsOrBlocks` names the one gap between
the two: a sender whose `send()` neither returns nor fails, with no check thread left to
take the link down, is not counted by anybody.  Without time the model cannot say that
`SO_SNDTIMEO` always fires before the idle limit, which would close the gap, so this is
no statement that the code blocks.  `CopyConverges` needs `memcpy` to bring all of the
camera's settings over: a bit rate left by `GetProfiles` disappears with the next
refresh, unless a setter has sent it to the camera before, and then both agree on it.
`KnownTokenIsServed` rests on `__sizeProfiles` never being below 2.  `AnswerIsWhatWasAsked`
needs the third encoder to have the second's name, as `set_config_st_default` gives it:
the search may find a token there that the first loop, with 2, has not counted.
`OutputLeavesTheGone` holds even when a thread was late, because a thread closes its
number before it puts the console back.

## 4. What is proved

Theorems hold for every value of the constants that the named assumptions allow; TLC
evaluates these in every run.

| Theorem | States | Run |
|---|---|---|
| `NetLinkProofs!TypeCorrect` | `TypeOK` | `link_safe` |
| `NetLinkProofs!NoInterleaving` | `FramesNeverInterleave` | `link_safe` |
| `NetLinkProofs!LockIsHeld` | `LockHasHolder` | `link_safe` |
| `NetLinkProofs!StreamKept` | `NetLink` implements `MessageStream` | `link_safe` |
| `SendQueueProofs!TypeCorrect` | `TypeOK` | `send_queue` |
| `SendQueueProofs!NoneStranded` | `NoStrandedMessage` | `send_queue` |
| `SendQueueProofs!PromiseKept` | `SendQueue` implements `FrameQueue` | `send_queue` |
| `ConfigSyncProofs!TypeCorrect` | `TypeOK` | `sync` |
| `ConfigSyncProofs!ServedFilled` | `ServeOnlyInitialised` | `sync` |
| `ConfigSyncProofs!AnswerKept` | `AnswerLostOnlyToTheOther` | `sync` |
| `OnvifServerProofs!STypeCorrect` | `STypeOK` | `server` |
| `OnvifServerProofs!ServerRefines` | `OnvifServer` implements `ServerLife` | `server` |
| `OnvifServerProofs!ServerNoInterleaving` | `FramesNeverInterleave`, of the whole server | |
| `OnvifServerProofs!ServerStream` | the link under the server implements `MessageStream` | |
| `SoapHandlersProofs!TypeCorrect` | `TypeOK` | `soap` |
| `SoapHandlersProofs!AnswersTheAsked` | `AnswerIsWhatWasAsked` | `soap` |
| `SoapHandlersProofs!ServesTheListed` | `KnownTokenIsServed` | `soap` |
| `SoapHandlersProofs!DateInOneZone` | `DateIsConsistent` | `soap` |
| `SoapHandlersProofs!ChecksAddresses` | `RefusesAllButDottedQuads` | `soap` |
| `Ip4Proofs!ValidIsDottedQuad` | for every string, `isValidIp4(str) <=> IsDottedQuad(str)` | |
| `Ip4Proofs!ReadsBytes` | for every accepted string, `inet_aton` reads four numbers up to 255 | |
| `PrintfServerProofs!TypeCorrect` | `TypeOK` | `printf` |
| `PrintfServerProofs!OutputIsReturned` | `OutputLeavesTheGone` | `printf` |
| `PrintfServerProofs!ClosesOwn` | `ClosesOnlyItsOwn` | `printf` |

**Assumptions.**  `LinkAssumption`, `ServerAssumption`, `SyncAssumption`,
`PrintfAssumption`: the limits are natural numbers, and threads, encoders and descriptors
are distinct from the values that stand for none; a message has two pieces at least.
`HandlersAssumption`: the names `set_config_st_default` gives, the third encoder's being
another's, and that the camera has two encoders or three.  `QueueAssumption`: headers and
payloads are not empty, as all callers have it.  `BufferAssumption`: `Width` is a multiple
of `Size`, as 2^32 is of a power of two, and `WrapAt` is greater than `Size`.

**The invariants.**  Except `LockHasHolder`, which with the types is, no property is
inductive as it stands; each proof strengthens it, shows the initial states and each
action to keep the parts, and derives the property.

* `FrameInv`.  A sender may give up in the middle of its message, so that the lock alone
  does not keep others out of it.  `AbandonedInv` and `FailInv` say that it has then seen
  a dead socket or no client, `StartInv` that neither comes back on this link, `LockInv`
  and `MidwayInv` that otherwise the holder of the lock is the one in the middle.
* `QueueInv`.  The cells of the ring have places that never wrap, of which index and cell
  are remainders: message `i` of those there begins at place `b[i]`.  `ShapeInv` says, by
  who is in the middle of what, that the ring holds the messages of `queue` one behind
  the other, plus a header put or minus a header taken, and that `item_num` counts two
  per message.  Each has two cells or more, so that the count stays below the limit of the
  totals and their difference is never ambiguous.  `CycleBufferProofs` has the lemmas
  about one `fifo_put` and one `fifo_get`.
* `SyncInv`.  Only filled settings travel: `LinkFilled` for messages, `AnswerFilled` for
  what the receive thread copies from, `CopyFilled` for the parts it has copied, and for
  all of them once the flag is raised or a handler runs, `JobFilled` for what a client
  asks to set.
* `ServerInv`.  `Before` is `main` not having asked, which it has not while there is no
  link; then nothing was asked or answered and no sender is at work (`Unbegun`).  The
  refresh thread is not there before `main` serves, and when `main` has its first answer
  the flag is raised, since nobody else has cleared it.
* `HandlerInv`.  `SearchInv` says what the tokens already passed are not, `FoundInv` what
  the one stopped at is, with `__sizeProfiles` 2 or the camera's at every turn
  (`SizeInv`); `PlaceInv`, `FreshInv`, `CountInv` and `DateInv` are about the other
  locals, `ReplyInv` about the answer when it is given.
* `PrintfInv`.  `ServeInv` and `ThreadInv` tell which numbers the listening thread and each
  client's thread hold, `OutputInv` who puts the output back, `OwnInv` that a number is its
  client's until its thread has closed it, as long as no thread was late.
* `StreamInv`, with `FrameInv`.  The pieces a sender has left tell how far its message is
  (`LeftInv`), and a link without a socket is as `NM_ini_st` left it (`UnmadeInv`).  A step
  of the link then is a step of `MessageStream` or none; a message given up ends the
  stream, because `FrameInv` keeps every other sender from its `send()` after that.  The
  server adds to the link's steps only ends that leave the link as it is (`LinkStep`), so
  that both results carry over to it.
* `FlagInv`.  Whoever has an answer is still waiting (`AnsweredWait`); the flag falls only
  where a caller begins, and that one does not stop waiting while the flag is down.  For
  this `main` must not begin one request within another (`MainAsks`), and the refresh thread
  must not be asking before `main` serves (`RefreshLater`).
* `Bounds`, in `SoapHandlersProofs`.  The type invariant is not inductive: that an index
  or a count fits its range needs `HandlerInv`, and that the bytes of an address are
  bytes needs `ReadsBytes`.

**isValidIp4.**  What a loop computes for strings of every length takes an induction over
positions.  Nothing here uses an induction rule with a predicate as its parameter:
`UpTo` takes the *set* of positions where the claim holds, and a least position outside it
exists because `<` is well-founded on `Nat`; `Recursion` does the same for functions
defined by recursion.  `ComeThrough` says what a string has if the loop comes to its end:
`segs` was the number of dots so far at every place, so that there are three, no character
was another, and the accumulator never exceeded 255.  With three dots each segment has its
ends (`EndsAre`), and as long as the loop has not returned `chcnt` is the length of the
segment so far and `accum` its value in decimal (`At`, `AtAll`), so that at its end they
are what `IsDottedQuad` speaks of (`AtEnd`).  Since the same digits make no greater number
in base 8 (`ValuesGrow`), `ReadsBytes` follows.
**Only model-checked.**  Liveness, under the fairness of section 3: the prover has neither
`ENABLED` nor a rule for fairness.  Everything else that the passing runs check, every
invariant and both kinds of implementation, is proved.

## 5. Where the code disagrees with itself

* **The check thread cancels itself** (`link_forced_out`).  `NM_create_work_thread` stores
  the check thread's id in `netrecv_id`, over the receive thread's (NetModule.c:905;
  the header has a `netcheck_id`).  When the receive thread does not end in 300 ms, the
  teardown's `pthread_cancel(pst->netrecv_id)` hits the thread that calls it, which dies
  at the next cancellation point and never reaches the `exit(0)` it announces.
* **An answer in time, and `exit(0)` all the same** (`sync_exit`).  `get_ipcam_info_once` is
  one flag for all callers and each clears it at the start (onvif.c:5809).  A SOAP handler
  that begins between the answer to the refresh thread and that thread's next look erases
  it, and if its own answer is late the refresh thread exits with "not get ipcam all
  info!".
* **What was set is not what is sent** (`sync_set`).  Between a setter's write of the
  copy and the sends that follow, the answer to a refresh can overwrite it (onvif.c:3369,
  2175–2185): the old setting is sent and saved, the new one was logged (of the three
  numbers printed at 2181 the bit rate comes from the copy, the others from the request),
  and the client is told that all went well.
* **A stream for a token nobody has** (`soap_uri`).  `GetStreamUri` decides that nothing was
  found by comparing its index with `__sizeProfiles` after the loop (onvif.c:2345).  An
  answer copied in between makes that 3, and the client gets the third stream's URI.
* **An address nobody named** (`soap_address`).  `SetNetworkInterfaces` with a `Manual`
  entry that holds no address skips "Check IP address" (onvif.c:1249) and sends the
  camera what the stack held in `ipaddr`.  With an address, the four byte writes at
  1270–1273 can be mixed with an answer being copied, and the mixture is sent.

Seen while modelling, without a run of their own: the search of
`SetVideoEncoderConfiguration` runs to `i <= __sizeProfiles` (onvif.c:2130), one turn
more than there are encoders while an answer's 3 is in the copy; an address such as
`010.9.9.9` is decimal for `isValidIp4` and octal for `inet_aton`; the limits of a date
(onvif.c:775) let month 0, day 0, hour 24 and minute 60 pass; `dup2(socket_fd, 1)`
(print_read.c:393) may find that the client's thread has closed the number and another
part of the process got it, and then the program's output goes to that connection.

## 6. What is not modelled, and why

Nothing reached from `main` calls these, so that no state of the program shows what they
promise: the listening side of the link (NetModule.c 1158–1544) and `NM_disconnect`; the
command buffer (`insert_cmd_buf`, `get_cmd_buf`, `cmd_thread`) and the scan array; the
client for other cameras with `Net_Process` and `tcp_srv_listen` (`OnvifMotionSendFunc`,
which `main` does start, only detaches itself); the serial port.  The settings file is read
and written only with `dbg_test`, which is 0.

Without state of their own, or one system call after the other: discovery and the UDP
server, which answer a datagram with a formatted one (the `exit(1)` of a socket that cannot
be bound is among `ServerLife`'s ends); starting and stopping a DHCP client; network
configuration and ping; the other eleven SOAP handlers with a body, which format constants
or one field; gSOAP and generated code, which is most of the repository's lines.

Abstracted in what is modelled:

* `OnvifServer` leaves out the questions handlers ask while `main` serves; with them the
  instance has more than three million states, too many for its liveness.  `ConfigSync` has
  them, without the inside of the link.
* The reuse of a closed descriptor's number for the link's socket; `PrintfServer` has it for
  its own.
* `NM_reset` empties the ring without its lock, in BUF mode.  In `NetLink` it empties the
  count at any moment; inside `SendQueue` it does not occur, because `exit(0)` follows.
* The camera's stored settings, which a save command changes: they are the camera's.
* Compiler reordering of the unprotected accesses: steps are in program order.  A build
  that hoists a flag out of its polling loop would loop for ever; the calls in the loops
  (`usleep`) prevent that.
* Formats: gSOAP's parsing, the wording of answers, the SOAP and UDP text.

## 7. What is left

* The questions SOAP handlers ask, in `OnvifServer`: safety would do without its liveness,
  and needs a symmetry or a smaller link to fit.
* In `NetLink`, the reuse of the number of the link's socket after `close()`, and a ring
  emptied by `NM_reset` while a producer is between header and payload, with `SendQueue` in
  the place of the count.  Both matter once a link survives its teardown, which `exit(0)`
  prevents today.
* The listening side, `NM_disconnect` and the client for other cameras, if the program
  comes to call them.
* The other handlers, if one comes to keep state.
