# A TLA+ model of ADV_BLE2UART

ADV_BLE2UART turns a BLE chip into an advertisement scanner: a device listens
to advertisements and streams them over a serial line to a host program, which
configures the device (scan start and stop, black or white list) with short
commands.  The repository holds three firmwares with the same protocol and the
Python host programs for them.

## 1. Inventory

Paths are relative to `src/source/`.

| Component | Sources | State | Operations | Talks to |
|---|---|---|---|---|
| Scanner main loop (TLSR825x) | `ble2uart/source/scanning.c`, `ble.c`, `app.c`, `drv_uart.c` | `ad_fifo`, `mac_list` (mode, count, addresses, `filtr`), `periodic_adv`, LED timers, UART DMA buffers `urxb`/`utxb`, ready flags | `ble_adv_callback`, `ble_ext_adv_callback`, three periodic-sync callbacks, `scan_task` (send a frame, read a command, execute it, look at the key), `start_adv_scanning`, `change_baud_rate` | the SDK (callbacks), UART DMA (flags and buffers), host (frames), tinyFlash |
| Frame FIFO | `ble2uart/source/utils.c`, `utils.h` | slot array, `u8 wptr`, `u8 rptr` | `my_fifo_wptr`, `my_fifo_next`, `my_fifo_get`, `my_fifo_pop` | the callbacks and `send_resp` (producers), `scan_task` (consumer) |
| tinyFlash | `ble2uart/source/tinyFlash.c`, `ble.c:42-83` | two flash sectors, each a log of key/value records | `Init`, `Read`, `Write`, `Swap`, `Format` | the flash chip, `change_baud_rate`, `read_baud_rate` |
| CRC-16 | `ble2uart/source/crc.c`, `crc.h`, `ble2uart/adv2uart.py:27-69` (and the ESP32's copy) | lookup tables | `crcInit`, `crcFast`, `crc_16` | both ends of the line |
| Host program | `ble2uart/adv2uart.py` | `config_cmd` (answers due per command), `cmd_time`, receive buffer `data`, `sync` | `command`, `config_start`, `config_still_running`, `config_account`, `read_adv`, `black_white_list`, main loop with a 3 s retry | the serial line |
| CH582 scanner | `CH582M_SCAN/APP/observer.c`, `app_usb.c`, `app_drv_fifo.c`; its host program `adv2usbuart.py` | byte FIFO, USB endpoint, command buffer and length, list, scan state, event bits of the task | `ObserverEventCB`, `Observer_ProcessEvent`, `parse_command`, `send_cmd_resp`, `USB_DevTransProcess` (interrupt), `USBSendData`, FIFO read, write and flush | TMOS (events and timers), BLE stack (callback), USB interrupt, host (bytes) |
| CH582 byte FIFO | `CH582M_SCAN/APP/app_drv_fifo.c` | `u16 begin`, `u16 end`, buffer | `app_drv_fifo_init`, `_write`, `_read`, `_flush` | the observer task |
| CH582 USB device | `CH582M_SCAN/APP/app_usb.c`, `SRC/StdPeriphDriver/CH58x_usbdev.c` | `devAddr`, `SetupReqCode`, `SetupReqLen`, `pDescr`, the control registers and buffers of endpoints 0 and 2 | `USB_DevTransProcess` (SETUP, IN, OUT, bus reset, suspend), `USBSendData`, `DevEP2_IN_Deal` | the USB host, the observer task |
| Flashing tool | `ble2uart/TlsrPgm.py` | position in the file, error count, the pending command | `WriteBlockFlash`, `EraseSectorsFlash`, `EraseAllFlash`, `ReadBlockFlash`, `WaitingFlashReady`, `FlashUnlock`, `command` | a programmer board, through it the flash |
| Debug output, SDKs | `app_printf.c`, `TlsrMemInfo.py`, `ble2uart/SDK`, `CH582M_SCAN/LIB`, `HAL`, most of `SRC` | none of the scanners' | vendor code, a program that reads an ELF file | not modelled |
| ESP32-C3 scanner | `esp32-c3/ble50_scan/main/ble50_scan.c`; its host program `adv2uart.py` | `mac_list`, `ext_scan_params`, the buffers of the USB driver | `esp_gap_cb` (Bluetooth task), `io_task`, `send_resp`, `chk_mac` | Bluetooth stack (requests and events), USB driver, host |
| LEDs | `scanning.c:20-44, 109-121, 229-323`, `ble.c` | one stamp of the 32-bit tick per LED | switched on by events, off by `scan_task` | the system tick |

Behaviours that are hard to test:

* The main loop is one thread, but the two UART DMA channels and the host are
  not: a command can be overwritten while it waits, torn while it is copied,
  or lost between the copy and the reset of the ready flag.
* A full FIFO drops advertisements and responses; the host must not draw wrong
  conclusions from what it does receive.
* Counters wrap: the FIFO's are bytes, those of the CH582 are 16 bits, and the tick
  that the LEDs are compared with starts again every 268 s.
* A power loss between two flash operations must not break the next start.
* The host counts answers per command over a line that loses frames, and
  repeats its configuration after three seconds.
* On the CH582 the USB interrupt shares a FIFO and a command buffer with the
  tasks; on the ESP32 two tasks share the list and the USB driver without a lock,
  and scan start and stop complete asynchronously.
* A USB host repeats packets whose handshake was lost and gives transfers up at any
  time; only the data toggles tell a repetition from a new packet.
* The flashing tool gives a command up after 0.1 s, and answers carry no number.

What makes each component correct:

* Scanner: every accepted frame is delivered once and in order; no command runs
  twice or out of order; dropped responses are noticeable; responses mark the
  point from which a configuration is in force; nothing waits for ever.
* FIFO: it is a queue, whatever the counters' values.
* tinyFlash: after any sequence of writes and power losses a completed write
  can be read back, and the log stays well formed.
* Host: the retries end, and when no answer is due the scanner is configured as
  wanted; damaged frames cost no undamaged ones.
* CH582: messages arrive whole; the command buffer is always given back; bytes
  in the FIFO are always sent; a stopped scan stays stopped.
* Byte FIFO: it is a queue of bytes, whatever the counters' values.
* USB device: what was asked for arrives whole; device and host agree on the
  address; endpoint 2 takes each packet once and in order in each direction; transfers
  end.
* Flashing tool: no answer is taken for another; the flash is addressed only when it
  is ready; nothing but the named region changes; what was verified is there.
* LEDs go out in time, and not early.  Both computations of the CRC agree, and it
  misses no short burst of noise.
* ESP32: responses mark the point from which a list is in force; half a change of
  the list lets nothing slip through; scans start and stop as commanded.

The full list of hazards, each at its line and with the properties that would
catch it, is in `PROJECT.json`.

## 2. Modules

| Module | Models | Composition |
|---|---|---|
| `BoundedQueue` | abstract: a bounded FIFO queue and the frame last taken from it | implemented by `MyFifo` and by `Scanner` |
| `MyFifo` | `my_fifo_t` with its `u8` counters and slots | `Scanner` uses the queue it implements |
| `MacList` | `mac_list_t`: `chk_mac` and the list commands | extended by `Scanner`, `Ch582`, `EspScan`, `HostConfig` |
| `Scanner` | the TLSR825x firmware, both UART DMA channels and a host that sends commands | |
| `HostStream` | a host that replays the responses it receives | extends `Scanner`; `MCHostStream` adds the symmetry |
| `Leds` | the timers of the LEDs and the tick that wraps | the red LED together with the reports is in `Scanner` |
| `Crc` | `crcFast` and `crc_16` at the two ends of a noisy line | the other modules have a CRC that matches or not |
| `BaudCell` | abstract: one cell, which only a write changes: it empties it, then stores its value | implemented by `TinyFlash` |
| `TinyFlash` | `tinyFlash.c` under the bit rate functions of `ble.c`, with power losses | |
| `HostConfig` | the configuration part of `adv2uart.py` over a lossy line | the scanner is reduced to what `Scanner` establishes; `MCHostConfig` has the lists |
| `HostParser` | `read_adv` over damaged frames | |
| `ByteQueue` | abstract: a queue of bytes, written whole messages at a time | implemented by `AppFifo` |
| `AppFifo` | `app_drv_fifo.c` with its `u16` counters | `Ch582` uses the queue it implements |
| `Ch582` | the CH582 firmware with its USB interrupt and its host | |
| `UsbPipe` | abstract: a pipe that delivers each packet once and in order, and what a slipped toggle costs | implemented twice by `UsbDevice` |
| `UsbDevice` | endpoint 0 and the data toggles of endpoint 2 of the CH582 | what endpoint 2 carries is in `Ch582`; `MCUsbDevice` has the descriptors |
| `EspScan` | the ESP32-C3 firmware: two tasks, the Bluetooth stack, the USB buffers and the host | |
| `FlashTool` | `TlsrPgm.py` writing, erasing and reading, the board, the line and the flash | `MCFlashTool` has the command lines |
| `MCParts` | `MyFifo`, `AppFifo`, `TinyFlash`, `Leds` and `Crc` side by side | one run for five parts that do not interact |
| `MCHostProgram` | `HostConfig` and `HostParser` side by side | |
| `Parts_proofs` | the theorems about `MyFifo`, `AppFifo`, `TinyFlash` and `Leds`, each by itself and as parts of `MCParts` | |
| `Scanner_proofs`, `HostProgram_proofs` | the theorems about `Scanner` and `HostStream`, and about `HostConfig` and `HostParser` | |
| `Crc_proofs`, `Ch582_proofs`, `UsbDevice_proofs`, `EspScan_proofs`, `FlashTool_proofs` | the theorems about these modules | |

A definition named `X_Something` is a plausible bug in `X` (a dropped guard, an
off-by-one, a missing reset).  No action uses it: with `X` replaced by it, one of
the properties must fail, which shows that the property is about the code.

### Scanner

`main_loop` calls the SDK, in which the advertising callbacks run, and then
`scan_task`.  One pass is `pc` going from `"sdk"` over `"tx"`, `"rx"`, `"clear"`,
`"exec"` and `"key"` back to `"sdk"`.  The steps end where the hardware can see a
difference: starting the transmit DMA (`SendFrame`, which also pops the frame),
copying the received command (`CopyCommand`), clearing the ready flag
(`ClearRxFlag`), executing (`Scan`, `AddMac`, `ClearMacs`, `Info`, `Unknown`,
`BadCrc`), and the key.  In between, the DMA channels (`TxDone`, `RxDone`) and the
host (`HostSends`) act whenever they can.  `HostSends` starts overwriting `urxb`
at once, so that a command copied meanwhile is torn; `CrcMatches` then fails.
The callbacks are calls from the SDK and do not interrupt `scan_task`.  Payload
bytes are abstracted: a command and a frame are records with a sequence number,
and an address type is the set of the bits of `filtr` it has.

With `Calm` the host waits until the main loop has taken its last command, which
is what the 50 ms pause of `adv2uart.py` is for; otherwise it sends at any time.
Only `host` assumes it.

### HostStream

Each frame carries the identity of the command it answers, so a host can replay
list and filter commands from the responses alone (`view`); `Known(j)` is what it will know
when `j` more frames have arrived.  `stale` names the part of
the configuration, list or filter, whose last change could not be announced for
lack of a slot; the replay is compared with the device in the other parts.

### Leds and Crc

`Leds` follows one LED, since they do not influence one another.  A unit of time is
one step of `TimePasses`, between two passes of the main loop or while
`change_baud_rate` blocks; within a pass no time passes.  `age` is the real time
since the LED was lit, `tick` and `stamp` wrap.  An LED is looked at only when the
FIFO is empty.  With 32 bits and two seconds, `Long + MaxBusy < Wrap` means that this
happens at least once in 266 s: an LED whose stamp is a whole wrap old looks freshly
lit.

`Crc` sends one frame over a line that changes up to `MaxBurst` bits from anywhere on,
and runs both computations over what arrives, each with its own table: the one that
`crcInit` computes by division and the one typed into `adv2uart.py`.  Words are
sets of bits, so that no bit-wise operators on numbers are needed.  `crcSlow`, which `#if 0`
leaves out of the build, divides bit by bit without a table and is the reference for `crcFast`.

### TinyFlash

A sector is the log of its records; a record is live or deleted, and is as long
as it seems to be, since `tinyFlash_Read` skips by the length byte.  Each flash
operation is a step, and `PowerLoss` may come between any two of them;
`PowerLossInRecord` cuts one record after its first, second or third byte.
Erasing a sector is atomic.  After a record whose length byte was never
programmed `tinyFlash_Read` overruns its caller's buffer: `pc` becomes `"lost"`
and the firmware does nothing more until the next power loss.

### HostConfig and HostParser

`HostConfig` counts time in the 50 ms that `command` sleeps.  A command or its
answer may be lost (`MaxLoss`), the driver's receive buffer may be full (`UpMax`),
and the answers may take longer than three seconds (`MaxLate`).  `HostParser`
represents a byte by the frame it is of and its place in it; a damaged frame is
cut at either end or has one wrong byte, and a wrong length byte can take any
value.  A frame's CRC matches exactly if all bytes of the frame are there.  The loop of
`read_adv` is `Turns`, its state after each number of turns; a turn takes at least one
byte, so that there are no more turns than bytes.

### Ch582

TMOS runs one task at a time; `pc` is `"idle"` between events, and `"parse"` and
`"resp"` divide `parse_command` where it gives the command buffer back.  The USB
interrupt (`OutPacket`, `InPacket`, `BusReset`, `BusSuspend`) may come between any
two steps.  Since these messages have neither mark nor CRC, the FIFO and the
endpoint are sequences of bytes.  `Cancel` leaves open whether the BLE stack
still reports the end of a cancelled discovery.  `cut` remembers that a message
was cut short by a flush or a bus reset, after which the host is not followed.

### AppFifo, UsbDevice

`AppFifo` is the ring under the sequence of bytes that `Ch582` uses.  `begin` and `end`
are never reduced to the size of the ring; the length is their difference as a
`u16`.  Functions without a caller (`push`, `pop` and the two that copy from or to one
address) are left out.

`UsbDevice` has the part of the USB interrupt that `Ch582` takes for granted.  On
endpoint 0 a control transfer is `Setup`, `In0` and `Out0` packets; the host may give
it up for another one between any two of them, and the handshake of any packet may
be lost (`In0_AckLost`), after which the host asks again.  `got` is what the host has read.
On endpoint 2 `Out2` and `In2` have the same variants, and packets are numbers.  The
controller answers NAK until its interrupt has been handled, so that a transaction
and its handler are one step; but `DevEP2_IN_Deal`, in the task, reads and writes the
register that also holds the toggles (`reg` is what it has read), and `raced` remembers the
directions in which something came between.

A request has a type and a code.  The device looks at the type only in the SETUP
stage and stores the code for the stages behind it; so a class request with the
code of SET_ADDRESS changes the address to its length, and one with the code of
GET_DESCRIPTOR gets further packets from wherever `pDescr` was left.  A request that is not
standard is not cut to what there is to read: it gets stale bytes of the buffer (`FirstPacket`)
and, if it asks for more than a packet, NAK for ever.  These requests are in the
model.  `ReadsAreWhole` speaks of the reads the device has data for (`Served`),
`TransfersEnd` names those that hang (`Hangs`), and `parted` exempts from `AddressesAgree` a
device that has carried out such a SET_ADDRESS, or one whose last handshake was lost (the
device has the address and the host does not know).

`UsbPipe` has one action for everything that can become of a packet: put behind all
those before it, taken, dropped by a reset of the pipe (`resets` counts the bus resets and
CLEAR_FEATUREs, which are the only ones), and, only while the toggles are out of
step (`slipped`), missed or taken again.  They slip only when the register is written
after it was touched.  The mapping computes `slipped` from the toggles themselves, so that a
comparison left out, or a toggle not flipped, is no step of the pipe.

### FlashTool

`pc` is the command that waits for its answer or is to be sent next, or where the
loops stand.  Commands and answers wait in `toBoard`, `toHost` and `inbuf`, in order, and each
knows (`own`) whether the tool still waits for it; the tool itself cannot see that.
A command can be lost or damaged on its way, executed without the answer arriving,
ignored by the flash, or given up and answered afterwards; `faults` counts these.  The
flash turns ones to zeroes, is `busy` for a time after each change and then or while
`locked` ignores changes.  `skipped` are the blocks the tool went past after an error.
An address counts units, `Page` of them to a page.  A block from within a page crosses the border to
the next.  A chip alone would wrap within the page, for which the SDK's own driver splits
such a write (`SDK/drivers/8258/flash.c:243-256`, and `tinyFlash.c:258-273` again);
`TlsrPgm.py` does not, so `FlashAfter` assumes that the board does.

### EspScan

`io_task` runs at the lowest priority and the Bluetooth task above it, on one core;
`portTICK_PERIOD_MS` is 10 (`sdkconfig`), so that the USB time-outs of 3 and 5 ms
are zero ticks and nothing blocks.  Hence a callback may come between any two
statements of `io_task` but is itself one step.  `pc` is the next statement of
`io_task`; a list command is three of them (mode, address, count), so that a
callback can see half a change.  Requests to the Bluetooth stack wait in
`requests` and are carried out later; `paramsSet` counts the events that ask for the
start of the scan.  A command is two pieces of bytes that reads may cut or join.
`before`, `wanted` and `rushed` are history: the list before the command in work, what
the last scan command asked for, and whether the host ever sent a command before
the scanner was done with the one before.

## 3. Runs

| Run | Bounds | Shows |
|---|---|---|
| `parts` | `MyFifo`: 4 slots (as `ad_fifo`), all 256 values of each counter, 2 frames; `AppFifo`: ring of 4, counters of 16 values, messages of up to 3 and reads of up to 2; `TinyFlash`: sectors of 14 bytes, three records or one and a torn one, 3 bit rates; `Leds`: tick of 16 values, timers of 2, 3 and 6, FIFO found empty every 9; `Crc`: 2 bytes of data out of {0, 165}, bursts of up to 10 bits (across three bytes) | `ImplementsQueue`, `ImplementsByteQueue`: queues, also when the counters wrap; `WriteIsDurable`, `NothingToCopy`, `FlashIsCell`, `WriteEnds`; `TimersKeepTime`; `ChecksumsProtect` |
| `scanner` | 1 address, 1 type bit, list of 1, 2 slots, 1 sync handle, 2 commands at any time | `StreamIsQueue`, `CommandsOnceInOrder`, `LostResponseShowsRed`, `ResponsesDelivered`, `ReceivedCommandsExecuted` |
| `host` | 2 interchangeable addresses, 1 type bit, list of 1, 2 slots, 3 commands | `ReplayAgrees`, `AdvsFitReplay` |
| `flash_permanent` | as in `parts` | violated: a change of the bit rate can lose old and new |
| `hostprog` | `HostConfig`: lists of up to 3, time-out of 6 pauses, 3 losses, 2 late answers; `HostParser`: 3 frames of up to 3 units, chunks of 4 | `SettledMeansConfigured`, `RetriesEnd`, `OnlyDamagedFramesLost` |
| `config_full` | the real numbers: 64 addresses, 60 pauses | violated: the host never settles |
| `parser_fields` | 2 frames, chunks of 6 | violated: one result mixes two packets |
| `ch582` | 1 address, messages of 2 and 3 bytes, FIFO of 5, endpoint of 2, 2 commands | `StreamWhole`, `BufferNotStuck`, `SendingGoesOn`, `StoppedStaysStopped`, `StopIsAnswered`, `TakenCommandsExecuted` |
| `esp` | 2 addresses, 1 type bit, list of 2, transmit buffer of 3 responses or 1 advertisement and 1 response, reads of 3 pieces, 3 commands | `ResponseIsMark`, `NoHalfChange`, `CommandsOnceInOrder`, `ScanAsCommanded`, `ScanSettles` |
| `usb` | packets of 3, descriptors of 3 and 4, lengths 2, 3 and 5, 2 transfers, 2 packets each way, 2 lost handshakes or resets | `ReadsAreWhole`, `AddressesAgree`, `OutIsPipe`, `InIsPipe`, `TransfersEnd` |
| `flashtool` | pages of 2, sectors of 4, flash of 8, 84 command lines, 2 retries, 2 polls, 2 faults | `NoLateAnswerTaken`, `FlashTakesEveryCommand`, `OthersUntouched`, `CleanRunWrites`, `VerifiedBlocksWritten`, `ToolEnds` |
| `flashtool_success` | the same flash, 3 retries, one write, 1 fault | violated: a `we` that ends with success may have written nothing |

Why these bounds are enough to be interesting:

* Two FIFO slots already fill up while a third frame is in the transmitter, a
  response meets a full FIFO, and two commands can overwrite one another in the
  receive buffer.  A list of one address becomes full, which is where
  `WithMac` changes only the mode.
* In `parts` each part is a component of its own with its own variables, and a behaviour
  is one part's; the small widths let every counter wrap many times.  A burst of
  ten bits crosses the borders of bytes; every entry of both tables is compared
  through the words that bursts produce.
* `host` uses a calm host: an overwritten command changes nothing in the device
  and is answered by nothing, so it does not concern the replay; the key and the
  receive path do not touch the stream either.  Three commands are a list, its
  replacement and a filter.
* A flash sector with room for three records is exchanged after three writes; a
  torn record makes it full at once.
* In `hostprog` every command can be lost once, and answers of one attempt arrive
  during the next two.  The time-out is long enough for the longest list, as it is
  in reality for about 50 addresses.  `config_full` is the case in which it is not.
* In `ch582` two messages fill the FIFO, one leaves it in pieces across the
  endpoint, and a flush can meet it half sent.  Two commands are needed for the
  interrupt to find the buffer taken.
* In `esp` a read of three pieces can join one command with half of the next.
  Three commands are a start, a change of the list and another start or a stop, or
  two list commands and a `CLRM`.
* In `usb` one descriptor fills its packets exactly and one does not, and the lengths
  asked for are shorter, equal and longer, also than the two bytes of a vendor
  request and than a packet.  Two transfers: the second begins while the
  first is anywhere.  Behaviours with packets on endpoint 2 have only standard requests that
  write (`MCSpec`), since no other touches the endpoint; the theorems are about all.
* In `flashtool` a file covers up to three blocks and two sectors, from the beginning of
  a sector, of a page and from within a page, over a flash of ones and a locked one
  of zeroes, with and without checksums.  Two faults are an erase or a write
  that is given up but executed, and a late answer on top.

Deadlock is not checked in `hostprog`, `parser_fields`, `esp`, `usb`, `flashtool` and
`flashtool_success`: when the last frame has been read, the last command of a host that
never started a scan executed, the last transfer made or the tool has ended, nothing
is left to do.

### Fairness

* `Scanner`: `main_loop` is an endless loop without blocking calls and
  `scan_task` is straight-line code, hence weak fairness of their steps; the DMA
  finishes what it has started.  The host, the callbacks and the key need not do
  anything; that a key once pressed is let go is part of `scan_task`.
* `TinyFlash`: the code runs; power may fail for ever, but then `pc` is `"boot"`
  again and again, which `WriteEnds` allows.
* `HostConfig`: both programs run.  Losses and delays are bounded, since no
  protocol settles over a line that loses everything.
* `Ch582`: TMOS calls the task as long as it has events, timers run out, the host
  fetches what there is.  `Observer_ProcessEvent` handles `NEW_BLEDATA_EVT` before
  `NEW_USBDATA_EVT` and every advertisement raises the former, so weak fairness
  would let commands starve; `NewUsbData` has strong fairness because a call
  takes microseconds and there are gaps between two advertisements and between
  two ticks of the timer.
* `EspScan`: `io_task` has its turn in the pauses between callbacks, and the stack
  goes on.  The host need neither send nor read.
* `UsbDevice`: weak fairness of `Control` only: the host carries a transfer on.
* `FlashTool`: weak fairness of `Tool` only: the program runs, time passes for its
  time-outs.  Board, line and flash may be silent for ever.

### Findings

* `flash_permanent`: the old bit rate is deleted before the new one is written.
* `config_full`: three seconds are less than 67 pauses of 50 ms, and they are
  counted from before the first command; a list of 64 addresses is sent again
  and again although nothing is lost.
* `flashtool_success`: the loop around each command of `WriteBlockFlash` ends in an
  unconditional `break` (`TlsrPgm.py:767`), so nothing is retried: a block whose command
  failed is skipped, and if fewer than `ERR_RETRY_COUNT` in a row fail the program ends
  with success.
* `parser_fields`: `read_adv` handles all packets of a chunk but returns one set
  of variables; the payload can be of one packet, the address of another.

Read in the code, without a run: the README says that the red LED means a FIFO
overflow, but it also goes on whenever the transmitter is busy (what does hold is
the converse, `LostResponseShowsRed`: a list or info response that is dropped shows
on the red LED; a scan command is not included, since its handler switches the
LEDs); `read_adv` returns only the last advertisement
of a chunk; a white and a black list sent together end as one black list; a
command unknown to the CH582 blocks all commands behind it (`BufferNotStuck` says
that this is the only way to get stuck); a suspended CH582 keeps
`scan_params.phys`, so that a discovery whose end is reported afterwards is
started again; on the ESP32 a start that is still being carried out overtakes a stop
behind it, since the start is only asked for when the parameters are set
(`ScanAsCommanded` therefore speaks of a host that waits).

Also: `README.md:50-51` and `scanning.c:155-161` disagree on which LED stands for which
PHY, and `README.md` says of all firmwares that frames end in a CRC16, which those of the
CH582 do not; the CH582 drops a command that comes while the one before is still being
copied, and acknowledges it; SET_CONFIGURATION does not reset the toggles of
endpoint 2; the length of a request that is not standard is not limited by what there
is to read, and its code is taken for a standard one behind the SETUP stage (`Served`,
`Hangs` and `parted`); `R8_UEP2_CTRL` is read and written by task and interrupt, which can
cost a packet, one at a time (`OutIsPipe`, `InIsPipe`).  In `TlsrPgm.py`, `we` from an address inside a page erases bytes that it has just
written when a block lies across a sector border; `es` rounds size and
address each for itself and may not reach the end of its region; blocks of 0xFF only are
neither written nor checked; and the loops of `ws` and `wa` (585-611, 637-664) have the
same `break`.

Hazards that are not in the list, being harmless or about single calls: `uart_read`
returns a length of more than the 16 bytes it has copied (`scanning.c:285`); a host
started in the middle of a CH582 message takes any byte for a length
(`adv2usbuart.py:129`).

## 4. Proofs

All theorems hold for every value of the constants that satisfies the module's
assumption: `ASSUME`d by the module, or a hypothesis of the theorem (`AppFifoAssumption` and
`FlashAssumption` where the module is instantiated, `FlashToolAssumption`, `ListsFit`).

**MyFifo** (`NumAssumption`: the size is a power of two of at most 128, as
`my_fifo_wptr` needs it).  The invariant is `FifoInv`, the type and
`QueuedSlotsIntact`: at most `Num` slots are occupied, and each occupied slot holds
what was written to it.  The lemmas are about the arithmetic: `SlotInjective`
says that two counters less than `Num` apart address different slots, modulo 256;
`OccupancyAfterNext` and `OccupancyAfterPop` say that the difference of the
counters changes by one although they wrap.  The queue of `BoundedQueue` is the
sequence of the slots from `rptr` on; `NextRefines` and `PopRefines` map the
writing and popping to `Put` and `Take`.

**Scanner.**  `TypeOK` is inductive as it stands, one lemma per group of actions.
`CommandsOnceInOrder` is not: it needs `CommandInv`, which relates the numbers of
the command executed last, the copy, the receive buffer and the command sent
last: a copy still to be executed is newer than the command executed last, and as
soon as the DMA brings another command the copy is strictly older than that.
`LostResponseShowsRed` needs `LedInv`: when `scan_task` has come past
the transmit step and the FIFO is full, the red LED is on.  `ScannerImplementsQueue`
maps FIFO and transmit buffer to one queue (`Pending`): starting a DMA is then
invisible, its end is `Take`, and a callback or a response is `Put`.

**HostStream.**  `Knowledge` is a recursive function on the number of frames.  That it has a
solution, and what it gives for a sequence with a frame more or without its first one, is
shown by induction over the elements of a set of numbers (`Induction`, which follows from
the numbers being well-founded), since the library's induction theorems cannot be
instantiated.  `HSInv` joins `ReplayAgrees` and `AdvsFitReplay` with the types: the proof of the
second needs the first, since a new advertisement was selected with the device's list and
the host's knowledge at the end of the stream must be that list.  There is a case for each
thing that can happen to the stream: a frame arrives, an advertisement or a response is
added, a response is dropped.

**AppFifo.**  The counters enter only through their remainders, so the first lemmas are
about `%`: remainders are unique, and taking one modulo `Size` after one modulo a multiple
of it loses nothing.  The invariant is that the counters, although they wrap, are
never more than `Size` apart.  `RingIsByteQueue` then maps ring and counters to
`ByteQueue`: writing appends, reading takes what it copies out, flushing clears.

**TinyFlash.**  The invariant is `IInv`.  `LiveInv`: at most one record is live and it is in the
sector in use, and from the moment the old one is deleted there is none.
`BootInv`: a restart chooses the sector in use, or, between marking and erasing,
possibly the other one.  So an exchange has nothing to move and its stages cannot be
told apart by a restart.  `RoomInv`: a record is programmed only where it fits.  A write
never gives up: a sector without room begins with a record, which is dead.
From it follow `FlashWriteIsDurable`, `FlashNothingToCopy`, that the records form a chain
within the sector (`FlashTypeCorrect`), and that each step is one of `BaudCell` or none.  For an
exchange of sectors that is none: nothing is live while it is under way, so none of its
operations, and no power loss between them, changes what the next start finds.

**Leds.**  `LedsInv`: while the LED is lit, the tick is `age` ahead of the stamp, possibly by one
wrap, and `age` is at most its time plus the time since the FIFO was last found empty.
With `Long + MaxBusy < Wrap` the difference is then `age` and not a wrap more.

**The parts together.**  The run `parts` checks them side by side in one specification;
`PartsSpecs` and `PartsLine` show that it implies the specification of each, and the theorems named
`Parts...`, `FifoImplementsQueue`, `RingImplementsByteQueue` and `FramesAreProtected` state the properties as the run
does.

**HostConfig.**  The counts are differences of cardinalities, so the first lemmas are about
counting the occurrences in a sequence, in a part of it, and after an `Append`.
`SendInv`: one attempt sends the list from its beginning, and when the time-out is over nothing
of it is on the lines any more (if no answer was late, which the property supposes).
`CountInv`: a count is at least the number of answers that can still come (`Expected`), and if
all counts are just that, nothing was lost, and the scanner has executed all that was sent but
for the command it has just received.  So when all counts are zero nothing is on its way, and the
last attempt was executed as a whole, which is what `SettledIsWanted` needs.  Its hypothesis
`ListsFit` (one of the two lists is empty, the addresses fit into the device's list and can be
announced before the time-out) is what the finding `config_full` violates; the lists of `hostprog`
satisfy it, which TLC evaluates there.

**HostParser.**  The bytes read are divided into those in front of `self.data` and `self.data`.
`LeftAfter`: for each position in front it is decided whether a frame begins there, since a
byte is taken only together with the frame it is in, or when the whole packet that it seems
to begin is there and its CRC does not match; and the frames that begin in front are `handled`.
Reading on changes neither (`ReadingOn`).  No frame begins within another (`NoFrameInside`), as
the positions of its bytes show.  `UndamagedFramesRecognised` then needs that the frames of a
sequence are those in front of a position and those behind it (`FramesOfSuffix`).
`NoPacketIsLeft` says that `Turns` has turns enough for the loop to end.

**Crc.**  The division (`Divide`) is linear: dividing a sum of two words gives the sum of what the
two give, bit by bit.  With a word split into its bytes this makes one look into the computed
table as good as eight divisions (`FastIsSlow`), and lets noise be followed apart from the frame
(`FastLinear`).  The two tables have one form: a bit of an entry is the sum of at most two bits of
the index, or of all (`IsEntry`).  For the typed table that is computed from its 256 numbers
(`TypedRows`, `RowIsEntry`), for the computed one from eight divisions of an unknown byte
(`ComputedEntries`); so each is the reflection of the other (`TablesAgree`) and the two loops agree
(`WaysAgree`).  `ErrorInv` is the invariant behind the bursts: `Error`, which noise has added to
the remainder, is 0 if there was none.  Otherwise it is led by the first bit changed: of what that
bit leaves behind, something is at most 16 places behind it (`Leading`), where the bits changed
later do not reach, since they are less than 16 places behind the first.  When they can no longer
come, a division never makes a word 0 that was not (`DivideNotZero`).  The sender's own CRC makes
the remainder of the bytes as sent 0 (`OwnCrcCancels`).  So `FramesAreProtected` holds for bursts
of up to 16 bits and any length, where the run has up to 10 bits and two bytes of data.

**Ch582.**  `HandshakeInv` joins `BufferNotStuck`, `SendingGoesOn` and
`StoppedStaysStopped` and adds that a command is in work only while the buffer is
taken; each needs no more than that to be inductive.  `StopIsAnswered` uses that
the FIFO is no smaller than a message head.  `StreamWhole` is inductive given the
types; its steps rest on lemmas about streams: a message may follow whole ones,
what precedes the beginning of a message is whole (a flush), and so is what
follows an end (the host takes what a chunk completes).  That the last such end exists
(`LastElement`) uses that the natural numbers are well-founded.

**UsbDevice.**  The invariant has a part for each thing device and host must agree on.
`CtlInv`: in each stage the device has the request that the host means.  `DataInv`: if the
toggles agree, the packet in the buffer follows what the host has; otherwise the
host has it and only the handshake was lost.  `OutInv` and `InInv`: no packet is dealt with
before it is put, and the task's copy of the register differs from it only in the
toggles that have changed since (`raced`).  From them follow `ReadsAreWhole`, `AddressesAgree`, and
that each direction implements `UsbPipe` (`UsbOutIsPipe`, `UsbInIsPipe`), where each action of the
device and of the host is shown to be one step of the pipe or none.

**EspScan.**  `OrderInv`: what waits to be read is newer than what has been executed and
in the order sent.  `BeforeInv`: how far the command in work has come with the list.
`MarkInv`: no answer in the buffer is of a command not yet answered.  `ScanInv`: what the stack
still has to do after a scan command, if the host waits: to stop, to start, or
nothing.

**FlashTool.**  `LineInv`: what is on its way was given up, is an erase or a write, and until
it has come or is thrown away the tool only polls; or the tool waits for it, and it
is the last.  `BusyInv`, `LockInv` and `StatusInv`: a command that changes the flash finds
it ready, and a status the tool still waits for is not out of date.  With the first
no late answer is accepted, with these every command is taken.  `PosInv`, `ErasecInv` and
`CoverInv` place the loops in the region and show `OthersUntouched`: the sector in
which a `we` starts counts as erased.

What has been written needs an invariant about the progress of a job (`WInv`).  `AlignInv`: blocks
start on page boundaries, and the sector of the block in work has been erased or starts with
it.  `BelowInv`: what is on its way to the flash, given up or not, changes nothing below
the block in work, and nothing at all once the board has confirmed.  `PendingInv` and
`ComparedInv`: the pending command is about the block in work, and an answer with a checksum is
about what the flash still holds.  From these follows `SettledInv`: a block behind `offset` was
skipped, holds the file or is of 0xFF only (`VerifiedIsWritten`).  `CleanInv` follows a run
in which nothing was given up or ignored: in the stage `SectorDone` the rest of the sector is
blank, in `BlockDone` the block is written, and what is behind holds the file
(`CleanRunHasWritten`).

Proved and not checked by a run: the types of `MyFifo`, `Scanner`, `TinyFlash`, `HostConfig`, `Ch582`, `UsbDevice`,
`EspScan` and `FlashTool`, with the bounds of their buffers.

Every invariant and every action property that a passing run checks is stated by a theorem.  Only
model-checked is liveness (`ResponsesDelivered`, `ReceivedCommandsExecuted`, `WriteEnds`,
`RetriesEnd`, `TakenCommandsExecuted`, `ScanSettles`, `TransfersEnd`, `ToolEnds`), which is out of
the prover's reach.

## 5. Assumptions

* The UART DMA delivers a frame as it was when the transfer was started, since
  `uart_send` copies it; a receive transfer ends once per host command.
* A CRC never matches by chance (for bursts of up to 16 bits `Crc` proves it), and a frame never
  contains another one.
* Erasing a flash sector and programming a word are not cut in the middle, except
  for records.
* TMOS sets and clears event bits atomically, also from the interrupt, and calls
  tasks and callbacks from one loop.
* The compiler keeps the order of the accesses in `send_cmd_resp` up to
  `app_cmd_len = 0`, and of the stores of `io_task` to `mac_list`.
* The USB host keeps to the protocol, and the controller answers NAK until an
  interrupt has been handled.
* The serial line to the programmer board keeps the order of what it does not lose,
  a damaged command or answer is recognised as such, and the job lies within the flash.
* The programmer board writes a block that crosses the border of a page through to the
  next page.  `OthersUntouched` needs this for a start within a page; `CleanRunWrites` and
  `VerifiedBlocksWritten` are about starts on a border, from which no block crosses one.
* An LED's FIFO is found empty at least every 266 s.
* No address is 0xffffffff, with which `TlsrPgm.py:716` marks that no sector has been erased
  (`None \notin Unit`).
* One of the two lists of the host program is empty, and they can be announced in three
  seconds and held by the scanner (`ListsFit`; for `SettledMeansConfigured` only).
* The USB driver of the ESP32 writes a frame completely or not at all, and the
  Bluetooth stack carries out requests in order; the controller refuses new
  parameters only during a scan.

## 6. Not modelled

* Initialisation of the ESP32 and its GATT client, which never connects; therefore
  this component is `partly`.
* `START_DEVICE_EVT` of the CH582, and endpoints 1, 3 and 4, whose handlers do nothing.
* `TlsrPgm.py`: opening the port and its bit rate, activation, and the SWire, analog
  register and dump operations (`ws` and `wa` differ from `we` in the command they send, and
  the rest is one command each).
* Opening and closing the ports, options and logging of the host programs.
* `TlsrMemInfo.py` (reads an ELF file), debug output, and the chips' SDKs: no state the
  scanners depend on, or vendor code of which the models contain what the scanners
  need.  These are by far the largest part of the lines in the repository: register
  definitions, headers and libraries of the three vendors.

## 7. Plan

Done, in the order of importance: `MyFifo` and `BoundedQueue`, `Scanner`, its
theorems, `HostStream`, `TinyFlash` and `BaudCell`, `HostConfig`, `HostParser`, `Ch582`,
`EspScan`, `AppFifo` and `ByteQueue`, `Leds`, `Crc`, `UsbDevice` and `UsbPipe`, `FlashTool`, and a
theorem for every safety property that a run checks, the last for `Crc`.  What could follow: the
registers and dumps of `TlsrPgm.py`, the initialisation of the ESP32, and liveness once a prover
for it is at hand.
