# sigrok: a TLA+ development

This directory holds TLA+ specifications of the sigrok suite (logic-analyzer
and oscilloscope software: `libsigrok`, `libsigrokdecode`, `sigrok-cli`,
`sigrok-gtk`, `sigrok-qt`), TLC configurations that model-check them, and
TLAPS proofs. `PROJECT.json` maps every definition to the lines of source it
stands for, and lists runs, mutants, hazards, findings and theorems. Paths
below are relative to the repository.

## 1. The system

A frontend opens devices through drivers, puts them in one *session*, starts
the acquisition and runs the session's poll loop. Drivers register file
descriptors with the loop; from their callbacks they send packets over the
session's *datafeed* to the frontend, which formats them (output modules),
stores them (session files) or decodes them (`libsigrokdecode`). Nearly
everything runs in one thread; the hard part is that calls *nest* (a callback
sends a packet, whose handler stops the session, which calls back into the
driver) and that USB transfers, a producer thread, descriptors and the user
act in their own time.

### Components, their state and operations

| Component | Source | State | Operations | Correct when |
|---|---|---|---|---|
| Session | `libsigrok/session.c` | device list, datafeed callbacks, `pollfds[]`/`sources[]`, `source_timeout`, `running` | new, destroy, dev_add, datafeed callbacks, start, run, stop, send, source add/remove | no source is lost or starved, no poll oversleeps, a stop ends the run |
| Datafeed | all drivers, all frontends | none of its own | HEADER, META, LOGIC/ANALOG, TRIGGER, FRAME, END | HEADER, META, data, one END and nothing after it |
| fx2lafw driver | `hardware/fx2lafw/` | transfers in flight, `num_samples` (and -1 for an abort), empty transfers in a row, trigger stage | configure probes, start, stop, receive_transfer, finish | the last transfer and only the last ends the acquisition; limit met; abort final |
| demo driver | `hardware/demo/demo.c` | pipe, thread, global `thread_running`, sample counter | start, stop, receive_data, thread_func | no sample lost or doubled between the threads, limit respected, both end |
| Hantek DSO driver | `hardware/hantek-dso/` | `dev_state`, capture buffer position, frames | start, stop, handle_event, receive_transfer | frames well bracketed, none after END |
| Openbench Logic Sniffer | `hardware/openbench-logic-sniffer/ols.c` | receive buffer, RLE count, trigger position | configure probes, receive_data, start, stop | samples reversed and expanded exactly, trigger at the right sample |
| ChronoVu LA8 | `hardware/chronovu-la8/` | block counter, final buffer, trigger | start, receive_data, send blocks | each block sent once, trigger found once |
| ASIX SIGMA | `hardware/asix-sigma/` | firmware, trigger masks and tables, capture state, chunk positions | set samplerate, configure probes, start, stop, receive_data, decode chunk | triggers at what the probes say, timestamps unfolded without gaps |
| ZEROPLUS Logic Cube | `hardware/zeroplus-logic-cube/` | registers, packet buffer | configure, start (the whole acquisition) | recorded at the rate that was set, the whole memory sent |
| Link MSO-19, ALSA, genericdmm | `hardware/...` | | | do not compile, or mostly TODO (section 6) |
| Hardware helpers | `hardware/common/` | none | serial port, EZ-USB firmware upload | a device that was programmed comes back and is opened |
| Devices, registry | `device.c`, `hwdriver.c`, `backend.c` | device list, probes with triggers, driver instances with status and handle | scan, list, open, close, configure, probe rename/enable, trigger set, init/cleanup | an instance is active while its device is open in the session, and is the device that was found |
| Session files | `session_file.c`, `session_driver.c` | zip archive, virtual devices | load, save; start, receive_data | what was saved is fed again, END once |
| Datastore | `datastore.c` | chunk list | new, put, destroy | bytes stored in order across chunks |
| Probe filter | `filter.c` | none | sr_filter_probes | bits of enabled probes packed in order |
| Input / output modules | `input/`, `output/` | line buffers, trigger marks | format match, load file; init, data, event | bookkeeping of line lengths and triggers |
| sigrok-cli | `sigrok-cli/` | output object, `received_samples`, `triggered`, limits | datafeed_in, run_session, parsers, any key | output ended once, cut to the limit |
| sigrok-gtk, sigrok-qt | `sigrok-gtk/`, `sigrok-qt/` | sample arrays | packet handlers, repeated captures | as for sigrok-cli, over many sessions |
| Decoder controller | `libsigrokdecode/*.c` | decoder list, instances, stack, callbacks | load, instance new/stack, session start/feed | samples reach every instance in order |
| Protocol decoders | `libsigrokdecode/decoders/` | one state machine each | decode | bits and frames recovered |
| libsigrokfile, build files, strutil, log, error | | | | skeleton, constants, formatting |

### Interactions

- `sr_session_run()` polls; a ready or expired source gets its driver's
  callback; the callback may add and remove sources (OLS removes and re-adds
  itself with another timeout, fx2lafw removes libusb's descriptors, every
  callback that returns FALSE is removed by the loop) while the loop iterates.
- A driver sends packets with `sr_session_send()`, synchronously, into
  `datafeed_in()` of the frontend. On `SR_DF_END` every frontend calls
  `sr_session_stop()`, which calls `dev_acquisition_stop()` of every driver,
  and half of the drivers send `SR_DF_END` from there.
- libusb calls `receive_transfer()` from inside `libusb_handle_events` *and*
  from inside any synchronous control transfer.
- The demo driver's producer thread and the loop share a pipe and a flag.

### Behaviours that are hard

Removal while iterating; nesting of stop and end; asynchronous transfers that
complete in any order, empty, failing or refused; the stop that only asks for
cancellation; a counter that is also a mark; two threads and a flag without
lock; stops that come while the acquisition is being started; bytes against
samples in the cut of the last packet. `PROJECT.json` lists them one by one as
hazards with their lines and the properties that would catch them.

## 2. The modules

| Module | Models | Kind |
|---|---|---|
| `Datafeed` | what a driver promises to a frontend | abstract specification |
| `Session` | event sources and both loops of `session.c` | component |
| `Fx2lafw` | the acquisition of the fx2lafw driver with the loop around it | component, implements `Datafeed` |
| `Demo` | one acquisition of the demo driver, both threads | component, implements `Datafeed` |
| `SigrokCli` | `datafeed_in()` and the nesting of stop and end over several devices | component |
| `Acquisition` | the session around one driver: start, header, description, loop, client | shared by the next six |
| `HantekDso`, `Ols`, `La8`, `Sigma`, `Zeroplus` | the captures of five drivers that record first and send afterwards | components |
| `SigmaTrigger` | samplerate, firmware and trigger tables of the SIGMA | component |
| `Drivers` | one of the six, whichever | family, keeps to `Datafeed` up to its end |
| `Filter` | `sr_filter_probes()` | functions, used by `Decoding`, `Outputs` and `Files` |
| `Decoding` | decoder classes, instances, stacks, and the feeding of samples | component |
| `Datastore` | the chunks of `datastore.c` | functions |
| `Outputs` | the output modules, each as the items a reader finds in its output | functions |
| `Files` | sigrok-cli from an input to a file, one command line after the other | composition of the three |
| `Instances` | USB devices, and the instances of the drivers for them: scan, upload, open, close, configure | component |
| `Registry` | drivers, device list, probes, triggers, and the devices of the session | extends `Instances` |
| `Frontends` | sigrok-cli, sigrok-gtk and sigrok-qt on these devices | composition |
| `MC...` | instances of the above for TLC | model checking |
| `SessionProofs`, `Fx2lafwProofs`, `DemoProofs`, `SigrokCliProofs`, `DecodingProofs`, `FrontendsProofs`, `FilesProofs` | theorems about one component each | proofs |
| `DriversProofs` | the invariants of the six drivers of `Drivers`, and the theorems about all of them | proofs |

Definitions keep the names of the source. A variable named in the source is a
variable here; variables marked *history* in their module only record what
properties speak of. Operators whose comment starts with "Mutant:" are
variants of the definition that follows them, each with the bug a plausible
edit would make; `PROJECT.json` names the run and property that rejects each.

### Session

`pollfds[]` and `sources[]` always change together and are one sequence of
records. `pc` is where the thread is: outside the loop, at `g_poll()`
("poll"), at the head of the `for` ("scan"), in a callback, or in the
freewheel loop for a single source without descriptor. `i` is the loop's
index. The callbacks are arbitrary: they may add sources, remove any source
and stop the session, at most `MaxOps` source operations each. Data arrives at
descriptors at any time. Modelled as they are in the code: a removal closes
the gap under the running index; the minimum `source_timeout` is never
recomputed; on an interrupted poll `revents` are those of the round before;
entries of a callback's `add` have whatever `revents` were on the caller's
stack (`garbage`); a `GIOChannel` pointer handed to
`sr_session_source_remove(int)` loses its upper half (`Narrowed`) and matches
nothing. After a callback that returned FALSE the loop removes the object of
the entry that is *then* at `i`: another source's when the callback removed its
own before (ols.c:726 takes its source out, adds it again at the end and may
then fail), whatever lies behind the array when the list became shorter than
`i`, and when it became empty the array is gone and reading it ends the process
(`ReturnFalseEmpty`, `pc` = "crashed").

### Fx2lafw

A state is a set of transfers that libusb holds, plus the driver's counters.
Each branch of `receive_transfer()` is an action (`ReceiveAfterAbort`,
`ReceiveNoDevice`, `ReceiveEmpty`, `ReceiveData`, `ReceiveTrigger`,
`ReceiveUntriggered`), with the free, the resubmission (which libusb may
refuse) and, for the last transfer, `finish_acquisition()`, the frontend's
handler of `SR_DF_END` and the stop it makes, all in one step as in the code.
`num_samples` is the C `int` it is (`Wrap`). The frontend may stop the session
from inside the header (sigrok-qt), from inside data (sigrok-cli with a failing
decoder), or from another source (any key). Trigger matching itself is
abstracted to where in the transfer it completes.

### Demo

The main thread and `thread_func()` interleave at every access to what they
share: the pipe, its two ends, and `thread_running`. Time is ticks the rounds
of the thread take (`Delays`); the rate truncates as the C division does.
A write blocks while the pipe is full. The configuration race of the packets'
memory and the pattern generator are left out; one byte stands for one sample
as in the driver (`unitsize = 1`).

### SigrokCli

The C call stack is explicit (`stack`): `datafeed_in()` for `SR_DF_END` before
and after its `sr_session_stop()`, the stop before device *n*, the handler of
`SR_DF_LOGIC` before it counts the samples. Drivers are any that send
`SR_DF_END` once by themselves; `SendsEnd` are those that send it again from
`dev_acquisition_stop()`. Sample data are counted, in bytes where the code
counts bytes.

### Acquisition, HantekDso, Ols, La8, Sigma, Zeroplus, Drivers

Five drivers let the device record and send what it has recorded when it is
done. What can go wrong in them is arithmetic on positions, spread over many
callbacks: where the trigger is in a ring, where a run length ends in a buffer
filled backwards, where a byte of an interleaved memory belongs, what time a
wrapped timestamp means. So a sample is its position (or its time), and `sent`
is the sequence of positions the frontend was given, with marks for trigger
and frames; the properties compare it with the order of time.

They share `Acquisition`: the thread (`pc`), `running`, what was sent, and the
client. `ctx` is the driver's `struct context`, with the names of the source;
`device` is what the hardware does and what is in flight from it. `Drivers`
picks one of them in its initial state.

The client is any of the frontends. At `SR_DF_END` it stops the session before
it notes that it was told (`sigrok-cli.c:466`, `sigrok-gtk/main.c:53`); it may
stop it at the header (sigrok-qt), at data (sigrok-cli when a decoder fails,
`sigrok-cli.c:576`), or from another source. The stop of all of these drivers
but the SIGMA's sends `SR_DF_END` itself, so that neither ever returns: such an
end is one step (`SendsEnd`) after which `phase` is "endless" and `pc`
"crashed". The calls one by one are in `SigrokCli` and the run
`cli_double_end`. `FeedSpec` therefore claims of these drivers that they keep
to `Datafeed` until that step, with the last data before it (`EndsAgain`), and
`GetsToItsEnd` that they come to it.

- `HantekDso`: `handle_event()` is two phases, as in the code: libusb completes
  any number of transfers, then the state machine takes one step. A transfer
  may come back empty, the submission of a frame may fail half way
  (`device.failed`). Its stop at data ends it there (`StopsEarly`).
- `Ols`: one action per outcome of a byte read, per branch of the timeout. A
  client that stops at the samples before the trigger never gets the others
  (`ClientStops`). The device sends any mix of samples and counts. `trigger_at`
  is computed as the code does, with the negative values it can have; what lies
  outside of the buffer is `Garbage`, and a length that wraps around is a crash.
- `La8`: blocks are read, de-mangled (`Index`) and sent; the device's SDRAM is
  modelled from the other side (`Address`: time to place). The trigger sample
  is lost when it is the last of its block, and `MemorySent` says so.
- `Sigma`: chunks are downloaded some at a time and decoded cluster by cluster
  with timestamps modulo `TsRange`. The trigger is looked for in the chunk the
  code looks in (`TriggerHere` adds the index to the count it increments), so
  the mark may be in another chunk or missing; `SentInTime` speaks of samples.
  Its stop is silent, but it resets the count of chunks: a client that stops at
  data does so in the middle of decoding, and the chunks left of that read are
  taken for others (`ClientStops`, `asix-sigma.c:1430`). Nothing is claimed of
  the samples after that.
- `SigmaTrigger` is the other half of that driver, over several captures: a
  samplerate takes a firmware (whose upload may fail in two ways), the letters
  of the probes become masks, the masks tables. A table is the set of its bits
  that are set, so that the code's transpositions are set comprehensions, and
  what the device does with the tables is modelled from its side (`Fires`).
- `Zeroplus`: a frequency becomes a number and a unit, and those two registers;
  then the whole memory is read inside `dev_acquisition_start()`, and
  `SR_DF_END` comes inside of it too, so that no session runs. A short read
  leaves the buffer of the read before (`device.failed`); without memory for
  the buffer the start fails after the header (`BufferFails`).

### Filter, Decoding

A sample is the set of its bits that are set, a word that a C function fills
partly has arbitrary bits above (`Garbage`). `1 << k` is an `int`: it extends
the sign bit, and from the width of the `int` on, where C leaves it undefined,
it is taken modulo the width as the processors do (`Mask`). What a decoder sees
of a probe is claimed for probes below the sign bit, and for no more enabled
probes than an `int` has bits (`PinsAreProbes`). `Decoding` follows `main()` and
`run_session()` of sigrok-cli through `libsigrokdecode`: loading classes, making
instances with options and probe maps, stacking, choosing annotations, starting,
and feeding packets of any length. The Python code is any program: inside
`decode()` it iterates over samples and puts annotations or data; `put()` calls
the decoders on top, so `calls` is a stack of calls, and an exception may be
raised in each of them, and in `start()`. `srd_session_start()` gives the
instances at the bottom their unit size one by one and breaks off at the first
exception; `sized` are those it came to. sigrok-cli ignores what it returns and
feeds all of them, and the division by the unit size ends the process at the
first that was left out (`DividesByZero`, `controller.c:668`).

### Datastore, Outputs, Files

`Files` runs a sequence of command lines (`plan`), each a process of its own
that may read the file the one before wrote. Samples come from a device, an
oscilloscope, a raw file (`input/`) or a session file with its virtual device,
in packets of any length or of the size the source fixes; `datafeed_in()`
filters them and stores them or hands them to an output module. `Outputs` has
one state record for all formats, with what each keeps between packets: half a
line, the previous sample, the trigger mark, counters. What is written is a
sequence of items (lines of cells, changes, rows, points, values, bytes):
`ReadsBack` is a reader of each format.

### Instances, Registry, Frontends

`Instances` has the USB side: a device is bare or has its firmware, leaves the
bus after an upload and returns under another address; it may refuse to be
opened, refuse its claim, or not be what it seemed. fx2lafw opens a device to
read the strings that tell its firmware, hantek-dso looks at its ids
(`SeesFirmware`): an fx2lafw device that cannot be opened at the scan is taken
for a bare one even if it is programmed, becomes "initializing" with the address
0xff, and is later opened by its place in the list (`fx2lafw.c:171`, `443`,
`232`). `dev_open()` of both is a sequence of looks at the bus (`Attempt`) with
sleeps in between (`Tick`), and a claim.

`configure_probes()` is modelled by what it makes of a list of probes
(`Configured`, `regs`): for fx2lafw the probes each stage looks at
(`trigger_mask`), those that have to be high (`trigger_value`), the stage to
begin with and the width of the samples; for hantek-dso the two channels. A
probe without trigger differs from one whose trigger is an empty text
(`NoTrigger`): the latter arms the trigger with nothing to look for. A trigger
longer than `NUM_TRIGGER_STAGES` is written behind the arrays before it is
refused (`Spilt`; `CliConfigSpills`, `GtkRefused`).

`Registry` adds drivers, devices with probes and triggers, what `strutil.c`
makes of strings, and the session that opens and closes devices. `Frontends` has
one command of sigrok-cli, with everything that may fail between the scan and
the start, and any sequence of clicks in sigrok-gtk and sigrok-qt. A list of
probes (`-p`) is what `parse_probestring()` returns, names at any subset of the
numbers; a trigger (`-t`) has a name or a number, and letters, an empty text, or
neither; a capture itself only starts and returns there.

## 3. Runs

| Run | Question and answer |
|---|---|
| `session` | Can adds and removals inside the scan break the list, let the poll sleep past a timeout, lose a ready source without a removal in that round, or starve one? Does a stop end either loop, is the only positive timeout honoured? No; yes. |
| `session_timeout` | Are two different timeouts honoured? No: only the smaller one ever expires. |
| `fx2` | Is the transfer count exact, END always possible and last, the packet order right, under all completions, refusals, triggers and stops? Does an acquisition that nobody stops from inside end with all its samples sent, and does an abort stick? Yes. |
| `fx2_early_end` | Does the run return when the acquisition ended while it was being started? No: `sr_session_run()` sets `running` after the stop. |
| `demo` | Are samples conserved between the threads, the limit kept, the packet order right? Do both threads end with a sample and a time limit, and is nothing written after END? Yes. |
| `demo_race` | Are all samples delivered before END? No: the last chunk is lost when the thread clears its flag after the last read. |
| `cli_safety` | Is the output ended once, cut to the limit, left alone after the end, and does the session return, with drivers that stop silently? Yes. |
| `cli_double_end` | The same with a driver that sends END from its stop? No: unbounded recursion, and the end is told twice. |
| `drivers` | Do five drivers send what was recorded, in order of time, with the marks in their place, at the rate and trigger that were set, keep to `Datafeed` up to their end, and get there, wherever the client stops them? Yes, but for the cases the properties name (below). |
| `decoders` | Is every instance of a stack fed once, with every sample in order, and does it see of a probe what the device measured? Is only the top of the stack shown, is the stack freed? Yes, for command lines that name each decoder once, up to the crash that an exception in a `start()` leads to. |
| `files` | Whatever the packets, does a reader of the output, in each format, or of the session file find the samples, names and triggers? Is every file read to its end? Yes, but for packets of broken samples, and of broken lines in hex. |
| `devices` | Are devices opened and closed in step with the session, is the one opened the one that was found, does a capture start with the registers, rate and limits the command line asked for, and does everything return? Yes, but for the cases the properties name. |

Properties that ask one question of several parts are conjunctions of named
parts, each with its own comment: `SentAsRecorded` and `SetUpAsAsked` of
`Drivers`, `WellStacked` and `SamplesReachDecoders` of `Decoding`,
`StoredAndReadBack` and `OutputFaithful` of `Files`, `HeldInSession`,
`OpensTheDevice` and `EverythingReturns` of `Frontends`.

What the properties of `drivers` except: a transfer of the oscilloscope that
was lost; a client's stop before all samples were sent (what was sent is
nevertheless in order, but for the SIGMA); a source that was given up, or a
process that is dead, for the sniffer; a negative trigger position (capture
ratio 0); a trigger sample at the end of an LA8 block; SIGMA captures at 100 and
200 MHz without a trigger on one of the first probes (they wait for the first
probe to rise) and after failed uploads; the ZEROPLUS rates of 1 kHz and 1 MHz
(both get the default registers), short reads, and its session, which never
runs because its end comes inside the start. The end itself is not excepted
but stated: one `SR_DF_END` of the SIGMA, one without end of the others.

What those of `devices` except: a refused claim, and a file loaded into
sigrok-gtk over a selected device (both leave an instance active for good);
handles of failed uploads and of devices that did not
fit (never closed); with several devices, one that was programmed at the scan
or that fx2lafw could not open to look at its firmware (both are opened by their
place in the list, perhaps as another); and a device looked at before it left
the bus (its old address is kept).

### Bounds

- Session: three entries with two timeouts and no dummy, or two with a dummy and
  one timeout, with one source operation a callback; or three entries with one
  timeout and two operations (a removal of the own source and an addition of it,
  before FALSE). Skipping by removal needs an entry before, one removed and one
  passed over; the inductive invariant (proved for all sizes) says nothing new
  happens with more. With two operations a callback may take out another's ready
  source and add it again in every round, and keep it waiting for ever: there
  `NoStarvation` is not claimed.
- Fx2lafw: three transfers (one that frees itself, one that finishes, one in
  between), one or two empty transfers allowed in a row, transfers of up to
  three samples, a limit of three, two trigger stages, an `int` of 16 values.
  The history counter of samples saturates at `MaxSamples`, above the limit.
  `MCFx2lafw` runs two instances: any, for safety, and a plain one for liveness.
- Demo: a pipe of four samples, a read buffer of three, a limit that is a
  multiple of neither; delays from 0 to more than the buffer holds. The
  producer stops counting at `MaxSamples`. Two instances as for Fx2lafw.
- SigrokCli: two devices, packets of up to two samples, a limit of three, a
  stack of five calls, six received samples.
- Drivers: two frames of four samples in two transfers, the trigger at every
  place in the ring and past its end; eight samples in one or two channel
  groups, with counts that end inside and past the limit; four blocks of four
  samples in two banks, the trigger at every sample; three chunks of two
  clusters of two events, two chunks a read, every mix of gaps, timestamps that
  wrap around twice, a stop after every word and at every packet; two quads of
  two probes with up to two triggers of any kind, at the three kinds of rates;
  the 18 rates of the ZEROPLUS, and three packets of two words.
- Decoding: bytes of four bits, a word of six, so that the third of the enabled
  probes is at the sign bit; three decoders that stack three high and one that
  does not load; command lines with and without probe maps, options, stack and
  annotation lists, valid and not; two samples in packets of one or two, two
  puts in a call.
- Files: bytes of two bits, five probes in three bytes (so that samples cross
  chunks of four bytes), seven samples in packets of up to three, lines of four
  samples; every format from a device, and sequences of two commands for every
  way to read back.
- Frontends: one or two devices, every kind of failing device, alone and an
  unopenable one beside a good one; with and without the demo (in sigrok-gtk the
  demo only beside a device that has its firmware); probes of which the second
  makes a sample wide (eight in the code, `ByteProbes` = 1), command lines that
  name none, the first, the second or a probe that is not there, triggers of up
  to five letters for four stages; a sleep of two ticks after the upload and an
  open that gives up after four, seven ticks in all, scans in the first two,
  three instances for one driver (a second scan duplicates them).

### Fairness

- Session: the single thread keeps executing and callbacks return (weak
  fairness of each step inside the loop). `g_poll()` returning normally is
  strongly fair: signals interrupt it sometimes, not always. Nothing makes
  data arrive.
- Fx2lafw: the thread keeps running; every transfer is called back
  (strong fairness for each: libusb gave it a timeout, and the loop lets libusb
  handle its events again and again). No fairness for the user. In the plain
  instance libusb completes nothing inside the start's control transfer
  (`EventsInStart = FALSE`); that it may is the run `fx2_early_end`.
- Demo: the operating system runs both threads (weak fairness of each).
- SigrokCli: nested calls return, the loop tests `running`. Nothing makes a
  device send: liveness is claimed only once it has sent `SR_DF_END`.
- Drivers: the thread keeps running, up to the end that does not return. The
  oscilloscope takes commands, has a frame and completes its transfers again and
  again (strong fairness, since polls in between find nothing); the sniffer
  sends what it has and is silent then; the LA8 is read (its first block waits
  for `ctx->done` at most); the time limit of the SIGMA runs out. No fairness
  for failures or for the user.
- Files: the program keeps reading a file (weak fairness). Nothing makes a
  device send.
- Frontends: an open goes on, time passes while it waits, sigrok-cli goes on,
  and a click that selects, opens or is refused ends (weak fairness). Devices
  leave and return when they like, or never; nobody has to click.
- Decoding has no fairness and no liveness: a decoder may never return.

Deadlock is checked in `session` and `devices` and switched off elsewhere,
because a program ends after its session, and because a session whose sources
are gone waits for ever in `g_poll()` (which is what `fx2_early_end` shows).

## 4. Findings

Four runs are expected to find a violation; each checks what a document or
comment of the repository says. They are listed with quotes in `PROJECT.json`.
Setting the constants of the same modules differently shows more things
a reader should know, which are not runs of their own:

- `Fx2lafw` with `Stages > 0`: an acquisition ended by the limit may have sent
  fewer samples than asked for, since the samples before the trigger in its
  transfer are counted and not sent (`fx2lafw.c:857`).
- `Fx2lafw` with `UserStops`: the session is left with cancelled transfers that
  nobody collects, and the next start is refused (`fx2lafw.c:929`).
- `Fx2lafw` with `StopsOnData`: `AbortSticks` fails. When the frontend stops
  the session from inside `SR_DF_LOGIC`, `num_samples += ...` overwrites the -1
  that marks the abort, and transfers are submitted again (`fx2lafw.c:857`).
- `Fx2lafw` with `Limit > Wrap - 2`: the counter wraps first and the acquisition
  does not end; `Demo` with a rate below one sample per round: nothing is ever
  produced (`demo.c:343` truncates).
- `SigrokCli` with `SampleSize = 2`: the cut of the last packet compares samples
  with bytes and lets too much out (`sigrok-cli.c:562`).
- `Ols` and `Sigma`: a client that stops at data (a failing decoder) gets no
  samples after the trigger from the sniffer, since the stop never returns, and
  samples in the wrong place from the SIGMA, whose stop resets its count of
  chunks while it decodes (`asix-sigma.c:1430`).
- `Session`: a callback of the sniffer that fails after it took its source out
  and added it again makes the loop remove another source, or read behind the
  array (`session.c:229`, `ols.c:726`).
- `Sigma`: with `triggerchunk` odd the trigger is never decoded, and with some
  even ones it is decoded twice (`asix-sigma.c:1086`). `SigmaTrigger`:
  `use_triggers` is never reset, so that a capture without a trigger looks for
  one if an earlier one had an edge, and one with levels only never does.
- `Decoding`: an exception in the `start()` of a decoder leaves those after it in
  the list without a unit size (`controller.c:754`); they are fed all the same,
  and the first packet ends the program by a division by zero
  (`controller.c:668`), although `srd_session_send()` is said to return "SRD_OK
  upon success, a (negative) error code otherwise" (`controller.c:770`).
  `pc # "crashed"` as an invariant of `MCDecoding` shows the trace.
- `Decoding`: a list that names a decoder twice does not "instantiate two", as the
  comment at `sigrok-cli.c:682` says: setting the options of the first replaces
  the defaults of the class (`controller.c:285`). `srd_exit()` frees the first
  instance of each list only (`controller.c:705`).
- `Files`: 512 KiB packets of a session file whose samples have 3, 5, 6 or 7
  bytes end within a sample, and all samples after it are shifted. A session
  file read with `-o` but without `-O` is not saved (`sigrok-cli.c:1091`; the
  manual calls the session file the default, `sigrok-cli.1:87`), and `-p` is
  ignored for it; for other files a selection that fails is not noticed
  (`sigrok-cli.c:1066` tests for more than 0, and errors are negative). The hex
  format loses bytes when a packet begins within a line; the columns of csv are
  in the reverse order of its header; the vcd and the float format fail on
  inputs without a samplerate or with logic samples; float prints half of the
  values of two channels.
- `Instances`: an open looks at a device that has not yet left the bus, keeps its
  old address, and cannot open it when it is back. A refused claim leaves the
  instance active (`fx2lafw.c:508`). hantek-dso lists `SR_HWCAP_LIMIT_SAMPLES` and
  rejects it, so that sigrok-qt can never capture with it.
- `Instances`: a trigger of five letters for an fx2lafw probe is written over
  `trigger_value` and `trigger_stage` before it is refused (`fx2lafw.c:345`); the
  capture does not start then, and the next configuration sets both anew. An
  empty trigger ("1=") arms stage 0 with nothing to look for.
- `Frontends`: a file loaded into sigrok-gtk takes the session from the selected
  device, which cannot be selected again (`sigrok-gtk/main.c:112`); the check of
  triggers always asks the first device for its trigger types (`strutil.c`).

## 5. Proofs

All theorems hold for every value of the constants that satisfies the named
assumption of the module (`SessionAssumption`, `Fx2Assumption`,
`DemoAssumption`, `SigrokCliAssumption`, `DecodingAssumption`, `FilesAssumption`,
`InstancesAssumption` and `FrontendsAssumption`, those of the drivers in
`Drivers`), and of a further hypothesis where a theorem states one.
Each proof has the same shape: an inductive invariant, a lemma for each action
that keeps it, and the property as a consequence.

**SessionProofs** proves `TypeOK`, `TimeoutCoversSources` and
`MissedOnlyByRemoval`. `TypeOK` allows for every entry that a callback that
returns FALSE may lose, its own or another's. The last is not inductive: it
speaks of the entries already scanned, and a removal in a callback shifts the
ones not yet scanned under the index. The strengthening says what the scan's
frontier is in each control state and bounds the set of passed-over indices
through the map that a removal induces on indices; the cardinality facts are
lemmas on `RemoveAt` and finite sets.

**Fx2lafwProofs** proves `TypeOK`, `CountsTransfers`, `EndCanCome`, `EndIsLast`
and that the driver implements `Datafeed`. The inductive invariant adds which
packets have been sent at which control point (`PhaseFollowsPc`: without it a
callback during the start's control transfer could be one before the header),
and that the empty-transfer counter is within its bound unless the abort mark
is set (`EmptyBounded`). The step theorem has one case per action; the free
and the resubmission are handled once, in lemmas. Two more theorems are about
hypotheses under which the int that counts samples does not betray the driver:
`AbortIsFinal`, when no frontend stops the session from inside a packet of data
(after such a stop the handler goes on counting, and the count takes the place
of the abort mark), and `LimitIsDelivered`, without a trigger. Its invariant,
`Delivering`, relates the counter at every control point, as an int that wraps
where the build's int does, to the samples that were sent. `PlainAbortIsFinal`
and `PlainLimitIsDelivered` state both of the instance that TLC runs.

**DemoProofs** proves `TypeOK`, `SamplesConserved`, `LimitRespected` and the
implementation of `Datafeed`. The invariant adds that the counter itself never
passes the limit (`Counted`), that the pipe holds at most its capacity, and
`PhaseFollowsPc` for the refinement. `StoppedAtTheEnd` is of acquisitions that
nobody stops (`Unstopped`): the thread ends before the pipe is closed, and the
end is sent after that; with a stop it is false, which is the run `demo_race`.

**SigrokCliProofs** proves `TypeOK`, `CutToLimit` and `EndIsFinal` of
`datafeed_in()` with the calls that nest in it. The invariant follows the
stack: samples are only handled at its bottom (`LogicAtBottom`), an output that
was told of the end is closed or a call that closes it is on the stack
(`ClosingAfterEnd`), and what was written accounts for the packet that is being
handled (`WrittenSoFar`). `CutToLimit` has the hypothesis `SamplesAreBytes`: the
limit is in samples and the received length in bytes, and for wider samples the
two differ. `EndIsFinal` needs that stops are silent (`StopsAreSilent`); with a
driver that sends SR_DF_END from its stop it is false, the run `cli_double_end`.
That nothing is written after the end holds with every driver.

**DriversProofs** proves, of the six drivers of `Drivers` at once, `TypeOK`,
that each keeps to `Datafeed` up to its end (`DatafeedUpToTheEnd`: every step
maps to a step of `Datafeed`, a stutter, or the one that does not return, with
the last data before it), `SentAsRecorded` for all but the SIGMA, and
`SetUpAsAsked` for all but the SIGMA's trigger tables. `Inv` says for the driver
that runs: the types, what the frontend was told at each control point, and
where every sample is:

- hantek-dso: the transfers received are a prefix of the frame; the part before
  the trigger point is buffered, and the part after it was sent, in whichever
  of the five ways a transfer lies around the trigger point and the end.
- ols: what was received lies at the end of `raw_sample_buf`, turned around,
  run lengths expanded; what remains is where the next sample goes.
- chronovu-la8: each sample that was read is at the place that
  `La8InPlace` gives by the de-mangling of the banks, and the samples sent are a
  prefix in order of time with the trigger mark in its place.
- asix-sigma: the chunks downloaded follow each other; the rate determines the
  firmware.
- zeroplus: the registers hold what the rate and memory size were set to. Its
  theorems have the hypothesis that the rates are those of the source
  (`SupportedRates`, `zeroplus.c:117`): of other rates two may have the same
  registers.

**DecodingProofs** proves `TypeOK`, `SamplesReachDecoders` and `WellStacked` for
every set of classes, command line, signal, packet size and number of puts.
The invariant says that instances were made from the list in order
(`AsListed`) and form trees, each instance in the list at the bottom or on top
of one other (`Trees`); that the nested `decode()` calls go up one tree, no
instance twice (`CallsGoUp`), so that the counters of the calls are those of
different instances; that what was put and what was given differ by the calls
that `put()` has still to make (`AllGiven`); that everybody has seen what the
progress of the packet says (`AllSeen`), in a program that died of the division
by the unit size too, with the bits the device measured
(`AsMeasured`: the packed bit k comes from the k-th enabled probe, because the
list of probes goes up); and that one instance is on top of another only where
the list of decoders has them next to each other (`Stacked`), in a line when
there is no list of its own (`Straight`). The functions of the controller that
call themselves are least closed sets in the model (`Reach`); that they reach
all instances follows by the least element that they would miss.

**FrontendsProofs** proves `TypeOK`, `HeldInSession`, `OpensTheDevice` and
`StartsAsAsked` for every set of USB devices of every kind, every list of
drivers and every command line. Status, handle and user of a device, the
instance, the device list and the session change in different calls, between
which the device may leave the bus and come back; none of the four properties is
inductive. `Inv0` adds to them:

- `Sane` and `Sound`: a device has the address of its place on the bus until its
  reset and another one afterwards, and an instance knows the address of the
  device it was made for, if that had its firmware then (`FoundSane`);
- `Listed`: the devices of the list belong to the drivers, and which part of the
  command or click has a device and a session. The session has one device at
  most, since every frontend empties it before it opens another;
- `OpeningOf`: an open that runs is that of the device that is being added, so
  that no other instance becomes active in between;
- `Reasons`: an open that looks again has one of the reasons that
  `SoleDeviceOpens` allows a failure; without it a failure would have to be
  explained from the last look alone;
- `AllHeld` and `Users`: an active instance is the one whose claim is pending, is
  in the session or was just opened, or lost its claim to another program; and
  who uses a device is active and has its handle. Both together are needed for
  the close: it releases the device of the session and no other.

Steps of a kind share a lemma (`ScanningKeeps`, `BeginningKeeps`,
`ClosingKeeps`, `ConfiguringKeeps`, `GoesOnKeeps`, ...); each action then is one
of them. For `StartsAsAsked`, `Prepared` says after each step of `run_session()`
what of the command line is in the device list and what is in the instance
already, and that later steps leave it there. Its theorem has the hypothesis
`Unambiguous`: `sr_parse_triggerstring()` compares a name only as far as the
probe's name goes, so that "AB=1" sets the trigger of a probe named "A" before
one named "AB" (`strutil.c:205`). `MCFrontends` assumes the same of its command
lines, and TLC evaluates it there.

**FilesProofs** proves `TypeOK`, `StoredAndReadBack` and `OutputFaithful` for
every sequence of command lines, every signal, and any sizes of bytes, samples,
packets, chunks and lines. The way from the samples of one command to those of
the next leads through bytes, words and chunks, and each part of it has its
lemmas: what `Kept` and `FlattenSeq` compute, by a least counterexample (`UpTo`,
`StepByStep`) instead of an induction rule; quotients (`Division`,
`DividedSum`); that bytes make up the words they were made of and the other way
round (`WordsOfBytes`, `BytesOfWords`); that `sr_filter_probes()` picks the
enabled probes whatever was in the word before (`PackedIs`); that
`sr_datastore_put()` appends, wherever the chunks end (`PutHolds`). `Inv` then
says at each point of a command:

- the samples have room for the enabled probes (`DevInv`), whose list goes up
  (`ListInv`), so that a filtered sample is no longer than the one it is of;
- as long as each packet begins with a sample, a whole number of samples has
  been passed on when a packet ends, until the limit cuts one (`WholeInv`), and
  the datastore holds them, with less than a chunk to spare (`StoreInv`);
- what was read of a file, up to where the input is, is what was passed on
  (`ReadInv`), and what a raw output has written is what was passed on (`RawInv`);
- the file holds what the command that wrote it passed on (`FileInv`), and what
  its session says of the samples can be loaded (`SessionInv`).

`OutInv` says of the output module what it holds of the samples passed on so far
(`Rep`), in the terms of each format, so that a packet may begin and end
anywhere (`PacketKeeps`, from `SampleKeeps` for one sample):

- a text format has written the full lines, and the line it fills shows the rest
  (`TextLines`); the ascii format has the last sample for the edge the next one
  makes, and leaves open which way the last cell of the line falls until then
  (`EdgeCells`); the bytes of the hex format are windows over the samples, the
  last of them written anew with each sample (`Window`, `HexGrows`), as long as
  each packet begins with a line or in its first byte (`torn`: a packet resets
  `off`);
- the changes of the VCD format give the level of each probe at each sample, the
  last change before it counting (`LevelOf`); a change at a new sample leaves the
  earlier levels alone (`LevelBefore`);
- the points of the gnuplot format are the samples without repetitions
  (`Destutter`), whatever an uninitialized word has above their bits
  (`SameSample`); rows and samples of the csv and ols formats are one each;
- the mark of a line is the trigger's, if that is under one of its samples, or
  will be under the next (`Marks`); other events leave all of it alone (`Kin`);
- an oscilloscope's values are those of its frames, labelled in the order of its
  channels (`ValuesInv`, `FloatShows`).

At SR_DF_END the last line is flushed (`FlushEnds`), and what is written is what a
reader reads (`TextReads`, `ItemsRead`, `RawReads`).

`StoredInOrder` needs no hypothesis; `RoundTrip` and `OutputFaithful` have
`FewProbes`: of more probes than an int has bits but one, the shift in the filter
reaches the sign bit (`filter.c:134`), and samples change. `MCFiles` assumes the
same.

Model-checked only: every liveness property (fairness and ENABLED are beyond
the prover), the runs with violations, and `SentInTime` and `TriggersAsSet` of the
SIGMA (its decoding and its trigger tables are computed by folds over operators,
and an induction rule that takes an operator is beyond the prover).

## 6. Not modelled, and why

- **Link MSO-19** and **ALSA** do not compile at this commit: they set members
  that `struct sr_datafeed_header` and `struct sr_datafeed_packet` do not have
  (`link-mso19.c:817`, `alsa.c:281`, against `libsigrok.h:162`). There is no
  behaviour to be faithful to.
- **genericdmm** reads nothing from its devices (`TODO` for both transports); its
  stop, which sends END, is one of the `SendsEnd` drivers of `SigrokCli`.
- **Protocol decoders** are programs in Python that see nothing of the rest of
  the system but samples and `put()`. In `Decoding` a decoder is any such
  program; what each of them makes of a bus is not modelled.
- **Hardware protocols**: detection of serial devices, the bit stream of the
  SIGMA's FPGA, USB control commands, voltages of the oscilloscope: pure I/O
  against devices that are not in the repository. Failures of them are in the
  models.
- **Formatting**: headers, wording and number formats of the output modules;
  logging; the splitting of command-line strings.
- **Drawing**: how sigrok-gtk and sigrok-qt keep and show samples.
- The demo driver's pattern generator (data), and the cast of `int
  bytes_written` to `gsize *` in `demo.c:358`.
- **Several acquisitions of one driver in a process**: state that drivers never
  reset (`hantek-dso/api.c:683`, `ols.c:719`, `demo.c:460`) makes later captures
  differ; the driver modules have one capture each, but for `SigmaTrigger`.
- **A session that fails to start its second device** (`session.c:259`).

## 7. Plan

What is left, in order of what matters:

1. Several captures in one process for the demo driver, the oscilloscope and the
sniffer, from the clicks of sigrok-gtk. 2. Trigger stages and channel groups of
the OLS; the SIGMA above 50 MHz.
