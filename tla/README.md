# Secure-bootloader: specification and verification

TLA+ models of the bootloader of this repository (STM32F446, `src/bootloader`,
`src/shared`), of the tool that talks to it (`src/fw-updater`), of the
signature they depend on (`src/fw-signer`) and of the application it starts
(`src/app`); TLC runs that check them on small
instances; and proofs, checked by TLAPS, for every value of the constants.

## 1. The system

| Part | State | Operations | Interacts with |
|---|---|---|---|
| Main loop, `bootloader.c` | `bootloader_state`, `firmware_length`, `bytes_written`, `sync_seq`, `timer`, `temp_packet` | one `case` per state, `check_for_timeout`, `bootloading_failed`, then validate and jump or reset | polls the packet layer, calls the flash driver, reads flash |
| Packet layer, `comms.c` | framing state and byte count, `incoming_packet_buffer`, `last_transmitted_packet` | `comms_update`, `comms_send_packet`, `comms_receive_packet` | reads bytes from the UART ring, blocks in `uart_write` |
| UART and ring, `uart.c`, `ring-buffer.c` | data register and flags, ring and its two indices | `usart2_isr` (preempts), `uart_read_byte`, `uart_data_available`, setup, teardown | shared memory between the handler and the main loop |
| Flash driver, `bl-flash.c` | flash sectors 2..7 | erase, program | power may fail in the middle of either |
| Image check, `validate_fw_image`; signer, `main.py` | none; the image in flash | CBC-MAC over information block, image, padding | signer and device must agree on the stream of blocks |
| Updater, `index.ts` | `packets`, `rxBuffer`, `lastPacket`, position of the `main` coroutine | `'data'` handler, `syncWithBootloader`, `waitForPacket`, `main` | serial line to the device; handler and `main` take turns at every `await` |
| Timer and tick, `simple-timer.c`, `system.c` | 32-bit tick count, 64-bit target time | `simple_timer_*`, `sys_tick_handler` (preempts) | main loop |
| CRC, `crc.c`; AES, `aes.c` | none; tables | `crc8_compute`; key schedule, encrypt, decrypt a block | packet layer; image check |
| Application, `firmware.c` | `last_tick`, `duty_cycle` | fade an LED every ten ticks, answer bytes | takes over the UART and the tick |
| Build, linker scripts | – | – | – |

What is hard: a line that loses and damages bytes, retransmission with one
packet of memory and no sequence numbers on either side, two programs with
timeouts of their own, an erase that blocks for seconds, power failing in the
middle of flash operations, a handler that shares a ring with the loop it
preempts, counters that wrap under targets that do not, bytes that may be cut into
packets in more than one way, and lengths on block boundaries. What makes each part correct:

- main loop and flash: only a whole signed image is ever started; an image is lost
  only to the erase of a session that got that far; nothing is programmed over
  programmed flash or outside the area; every session ends that leaves comms_update time
  to return; a device that is left alone starts the image it has;
- packet layer: the buffer does not overflow; what was repeated does no harm; no
  packet is made of pieces of others, and none is lost while both ends are in step;
- ring: a bounded queue for its reader, wherever the handler strikes; what is lost on the
  way into it is never replaced by anything but the byte before;
- check and signer: exactly the signed image is accepted, the check ends and reads
  inside the image; the AES of `aes.c` is the one openssl signs with;
- timer: never early, once if it is one-shot, on time if it is polled;
- application: the LED goes on fading past every wrap of the tick count, and every
  byte accepted is answered;
- updater: it ends; success means the image is installed; without faults an update
  completes, also after one that failed.

`PROJECT.json` lists the hazards with the lines where they bite and the properties
that watch them.

## 2. Modules

| Module | Models |
|---|---|
| `UpdateSlot` | abstract specification: a slot that holds a whole image or none and changes only in a granted session |
| `Bootloader` | the device: main loop, packet layer, flash, decision to jump; everything else is an open environment |
| `BootloaderLoop` | `Bootloader` in the order of the main loop: `comms_update` until the line is silent, then the switch |
| `MCBootloader` | small instance of the two; bounds the environment by counting mishaps |
| `BootloaderProofs` | theorems about `Bootloader` |
| `Framing` | the receiver of the device byte by byte; its steps are those of `Bootloader` |
| `HostFraming` | the `'data'` handler of the updater byte by byte; its steps are those of `Updater` |
| `FramingProofs`, `HostFramingProofs` | theorems about the two, for every line |
| `MCFraming` | lines to either receiver: bursts, lost bytes, late sync sequences, reads cut anywhere |
| `ByteFifo`, `Uart` | abstract bounded queue; receiver, interrupt handler, ring and reader at the grain of memory accesses |
| `Application` | the application's main loop and tick on the `Uart` the bootloader hands over |
| `ApplicationProofs` | `Uart` implements `ByteFifo`, for every ring; theorems about `Application` |
| `SimpleTimer`, `SimpleTimerProofs` | the timer and the tick at widths that differ; theorems |
| `ImageMac`, `MCImageMac` | the signer's stream and the loop of `validate_fw_image`, over an ideal MAC |
| `ImageMacProofs` | theorems about `ImageMac` and `CbcMac` |
| `Bytes`, `Crc`, `Aes` | exclusive or; `crc8_compute` and bursts of damage; the functions and tables of `aes.c`, and FIPS-197 to compare them with |
| `ByteTables`, `BytesProofs` | finite facts about bytes and tables, which TLC evaluates; theorems about `Crc` and `Aes` for packets, blocks and keys of any value |
| `CbcMac` | `ImageMac` with `Aes` in it |
| `Updater` | the host tool: handler and coroutine |
| `FirmwareUpdate`, `MCFirmwareUpdate` | `Bootloader` and `Updater` composed by a line with faults |
| `FirmwareUpdateProofs` | the composition is an environment of `Bootloader`; its theorems carry over |

How they hang together: `UpdateSlot` ⊑ `Bootloader` ⊑ (steps of) `Framing`;
`Updater` ⊑ (steps of) `HostFraming`; `Bootloader` + `Updater` = `FirmwareUpdate`;
`Bootloader` ⊑ `BootloaderLoop`, which adds where in its loop the CPU is; `ByteFifo` ⊑ `Uart` ⊑
`Application`. `ImageMac` justifies the outcome of `validate_fw_image` in `Bootloader`, over an ideal
MAC; `CbcMac` is `ImageMac` with the real one computed beside it, for comparison.

### Bootloader

Each state of the `switch` in `main` is an action (`WaitForFwUpdateReq`,
`DeviceIdReq`, ..., `ReceiveFw`); `Timeout` is `check_for_timeout` in the states
that call it; `SyncMatch`/`SyncMismatch` are the raw search for the sync sequence;
the actions of `comms_update` handle one packet each; `jump_to_main_app`,
`scb_reset_core` and `CheckOverruns` are what follows the loop. A reset clears all
statics and leaves flash. `running = "fault"` stands for the fault handler: after
`BKPT` with no debugger, or after reads past the end of flash.

`sent` is the packet the step writes: a state sends at most one. `rx` holds
packets on their way, on the wire or in the UART's ring. A lost byte shortens the
packet at its head; `partial` counts the bytes `comms_update` has taken of a packet
(`current_state` and `data_byte_count`), so everything behind a short packet or a
late sync sequence is framed wrongly, and every 18 bytes of it answered with RETX,
until the boundaries coincide again or the session times out. How much of a packet
the flush of the SYNC state cuts off is left open.

Flash is a function from cells to contents. A cell's content is named by the image
and offset it comes from, so that "flash holds image i" is a statement about every
cell. Programming a cell that is not erased spoils it unless the value is the same.
A torn write may spoil one cell; a torn erase leaves a set of cells of one sector
erased (`TornErasures`) and the sectors before it erased.

`validate_fw_image` is a set of outcomes here: valid, invalid, or overrun (the loop
over a length of 0xFFFFFFFF). `ImageMac` looks inside. An image whose length
is a multiple of the block never validates, as `ImageMac` shows.

`Bootloader` lets the switch take its turn at any time, which is right for safety and too
generous for liveness: check_for_timeout is behind `while(uart_data_available())`
(`comms.c:115`). `BootloaderLoop` keeps the order: `place` says on which side of that
loop the CPU is, `Leave` needs an empty ring, and only then comes a `Turn` of the switch (or an
`IdleTurn` that finds nothing to do). Each of its steps is one of `Bootloader` or a stutter.
In `MCBootloader` the host may send RETX in any state without end (`Stream`).

### Uart

The handler runs to its end before the reader goes on; the receiver does not wait for it.
So the handler is two actions: `ReadFlags` (`uart.c:48-52`) and `ReadData` (`uart.c:62`).
A byte completed between the two is lost and leaves ORE pending, because reading DR clears
only an ORE that was set when SR was read; the handler is then entered again with RXNE clear,
the second disjunct of `uart.c:54` holds, and the stale byte of DR goes into the ring a second
time. The comments at `uart.c:45-47` leave this case out. To the packet layer such a byte is
damage of one byte, the length kept: `Bootloader` and `FirmwareUpdate` have it as a damaged
packet, and in the sync sequence as a mismatch. The
reader's accesses to the indices and to the slot are one action each. Both indices
are loaded in one step: only `write_index` can change between the loads, and a
handler that runs before them gives the same values. Teardown stops the reader and
switches the peripheral off; setup, by the next program, clears the ring. A byte may
wait in the data register across the change.

### Application

Two programs share `Uart`, one after the other: the bootloader reads until it tears
the UART down, then the application sets it up again. Its main loop is six actions;
SysTick comes between any two. `last_tick` and the tick count are 32 bits wide in
effect, their difference is taken in 64: `TICKS` and `TIMES` stand for the two
widths. Bytes are numbers here and serve as their own values, because the loop
answers a byte with its successor (`data + 1`, `firmware.c:105`; its comment, "Echo received
byte back", and DOCUMENTATION.md:197 are wrong about that). `EchoOf` is what the code does;
`BytesAreAnswered` is about one byte being written for every byte read, whatever its value.

### SimpleTimer

`simple_timer_init` and `simple_timer_has_elapsed` read the tick and then use it;
each is two steps, with the tick moving on in between. `since`, `gap` and `elapses`
record what really happened: the ticks since the timer was armed, since the tick
was last read, and how often the timer has returned true.

### Framing and HostFraming

A line is a sequence of items with their bytes, and with the record `Bootloader`
(or the name `Updater`) has for each. The refinement mapping of `Framing` computes
`rx` and `partial` of `Bootloader` from how far the bytes have been read; one byte
is one step of `comms_update` there, or none. An item of which fewer bytes are taken
than read has had a packet end inside it, and the rest counts as taken. The CRC is
computed. The sync sequence may be anywhere, so a burst or a late copy of it is an
item too (`SYNC`, `BAD_SYNC`).

### ImageMac

A MAC is the sequence of blocks chained, so equal MACs mean equal streams. `CbcMac` puts AES in its
place: `prev_cipher_block` is what `aes_cbc_mac_step` keeps, `signature` what openssl computed with
the cipher of FIPS-197, and `DecidesAsIdeal` says that the verdict is the same. A cell is there the
little-endian word of its number. Fields
of `firmware_info_t` are one cell each. `Flashed` pairs an image with the one its
signature was made for: genuine images, any genuine image with the signature of
another, and images with one changed cell or a changed length.

### Updater and FirmwareUpdate

`host_state` is where `main` is; `OnData` is the `'data'` handler for one packet;
`Main` is `main` between two awaits; `Elapse` is the passing of a second for its
delays and timeouts. `FirmwareUpdate` delivers what one side writes to the other in
order; a packet may be damaged (the CRC then fails), a byte on the way to the
device lost, power may fail. A tick is a second and comes only when neither side
has anything to do: a packet takes under 2 ms. Two exceptions: an erase may take up
to the timeout, and an endless exchange of RETX lets time pass. For the same reason the
operator starts the tool (`Start`) only when the device has dealt with what an earlier
run wrote (`DeviceQuiet`): a new process of node takes longer than that. In the fault
handler nobody reads the UART, so what was on the line is gone by the time power returns.

## 3. Runs

| Run | Checks | Instance |
|---|---|---|
| `Bootloader_run` | `TypeOK`, `OnlyIntactImagesRun`, `SuccessMeansBootable`, `ChunksLandOnErasedFlash`, `WritesStayInArea`, `ImageLostOnlyByErase`, `ImplementsUpdateSlot`, `SessionsEnd`, `BootsWhenLeftAlone` | 3 images (two signed), 40 cells, blocks of 8, one mishap, RETX without end, 699 000 states |
| `Application_run` | `TypeOK`, `AppTypeOK`, `RepeatsStandForLost`, `ImplementsFifo`, `StepsApart`, `KeepsFading`, `BytesAreAnswered` | ring of 4, 5 bytes, a tick count of 5 values, steps of 2 ticks: both indices and the tick wrap, the ring fills and the handler is overrun, 373 000 states |
| `SimpleTimer_wrap` | `NeverEarly`, `OneShotOnce`, `NeverLate` | a tick of 16 values, waits of 3 and 5, polls up to 4 ticks late, 26 500 states |
| `Framing_bytes` | `NothingByChance`, `NothingInvented`, `StoredInOrder`, `PacketSteps`, `OnDataSteps` | packets of 18 bytes, 530 000 states: see below |
| `ImageMac_check` | `PaddedImagesAccepted`, `OnlySignedAccepted`, `ReadsEndWithImage`, `Decides`, `KeysExpanded`, `DecidesAsIdeal`, `MacDecides`, `DecryptionInverts` | 5 lengths around block boundaries, tails that look like padding; blocks of 4 cells, each a column of an AES block; the facts of `ByteTables`; 8 900 states |
| `FirmwareUpdate_safety` | `SuccessMeansInstalled`, `BufferNeverFull` | two images, three runs of the updater, two faults of any kind, 2.5 million states |
| `FirmwareUpdate_liveness` | `BootloaderSteps`, `UpdaterEnds`, `UpdateCompletes` | one image, three runs, one fault, 24 400 states |
| `Bootloader_bad_image` | violated: `BadImageResets` | as `Bootloader_run`, fewer packets |
| `Bootloader_timeout` | violated: `TimeoutRefusesToJump` | the same |
| `ImageMac_aligned` | violated: `SignedImagesAccepted` | |
| `FirmwareUpdate_damage` | violated: `DamageIsRepaired` | timeouts of 5, 3 and 10 s |
| `FirmwareUpdate_last_byte` | violated: `AnyLastChunkInstalls` | no faults at all |

Run one with `tlc -config X.cfg M`; the module of each is in `PROJECT.json`.
No run checks for deadlock: a device in the fault handler, an application
that is running and an operator who has given up are ends the system really has.

What the five violated claims show:

1. *A bad image does not always reset* (comment at `bootloader.c:538`). The length of
   an image that was flashed without being signed is 0xFFFFFFFF and the loop has no
   bound.
2. *Images of a multiple of 16 bytes are never accepted* (comment at
   `bootloader.c:215`): the branch that adds the block of padding is dead.
3. *One damaged packet can fail an update* (`index.ts:5-8`). Each side remembers one
   packet; FW_UPDATE_RES and DEVICE_ID_REQ are sent back to back, and the RETX for
   the first is answered with the second.
4. *A last chunk of one byte cannot be sent* (DOCUMENTATION.md:241): its length byte
   is 0, and the device refuses it.
5. *A timeout does not refuse to jump* (DOCUMENTATION.md:440-441). After the NACK the loop
   ends, and what follows starts whatever valid image is in flash. That is what lets a device
   without a host boot (README.md:151 says so of SYNC, and `BootsWhenLeftAlone` rests on it), but
   it is so in every state.

Three more places where text and code differ are stated as what does hold, in the passing runs:

- DOCUMENTATION.md:440 and README.md:362 give every state a timeout of 5 s. A host that sends
  RETX or damaged packets without a pause gets 18 bytes for 18, all inside `comms_update`, and the
  timeout is checked behind it. It takes a line that is never silent, that is bytes ahead in the
  ring (those that came during an erase) or a host with a slightly faster clock. `SessionsEnd` has
  the proviso `CommsUpdateReturns` for it.
- `uart.c:45-47` and `uart.c:56-57` say that reading DR clears both flags, and `uart.c:210` that a
  byte in the ring has not been consumed yet. `RepeatsStandForLost` says what a byte that
  arrives between the handler's two readings leaves of that: a byte may be read twice, in place
  of the next one.
- The echo of the application, as told above.

### Bounds

- `MaxMishaps = 1`: in `MCBootloader` a packet the protocol does not expect in the
  device's state, a lost byte and a power loss are a mishap each; expected packets
  are free. One mishap already takes every branch that fails a session and every
  kind of torn flash, from which complete sessions follow. The packet of `Stream`, RETX, is free in
  every state, so that the endless exchange of RETX and the host that never pauses are in the
  run. The theorems hold without this bound, and for the pieces of other images the run has few of.
- `RX_CAPACITY` bounds the packets on their way (1 in `MCBootloader`, where packets
  come at any time anyway; 7 in `FirmwareUpdate`). `PACKET_BUFFER_LENGTH = 2` in
  `MCBootloader` makes the overflow reachable; `FirmwareUpdate` has the real 8.
- `DEFAULT_TIMEOUT`: 1 tick in `MCBootloader`, where ticks interleave freely. In
  the passing runs of `FirmwareUpdate` the 5, 3 and 10 s of the programs are
  scaled to 2, 1 and 4 ticks; order and strictness are kept. `FirmwareUpdate_damage` and
  `FirmwareUpdate_last_byte` have the real values.
- `MaxFaults`, `MaxSessions` in `FirmwareUpdate`: two faults for safety, one for
  liveness, and a second and a third run of the updater, so that it may meet the remains
  of both earlier ones in flash, in the device's state and on the line.
- `Application`: `MaxSince` bounds the ticks between two steps of the LED, `MaxBytes`
  the bytes of the line. A host that never pauses would keep the loop at answering;
  with finitely many bytes `KeepsFading` holds.
- `SimpleTimer`: `MaxGap` is how late a poll may be. `NeverLate` leaves out targets
  within `MaxGap` of the last tick: those are missed, in reality once in 49.7 days,
  and the timer then does not elapse before its next reset.
- `MCFraming`: one line at a time with at most one fault. A whole chunk is hit by
  every burst of up to seven bits at every place; packets in a row by bursts of one
  and of seven bits (`FewBursts`); a transfer loses each of its bytes in turn. Bursts
  of eight bits would be too many: the CRC misses one (xor 0x6C in the last byte of
  data and 0x03 in the CRC), and two single bits 127 apart. `BurstsNoticed` proves of all packets and
all bursts of up to seven bits what the lines here show of a few packets. Reads return 1, 18, 19 or 40
  bytes, so that packets are cut and lumped together.
- In `ImageMac` the lengths leave every remainder of the block, on both sides of
  a boundary, with one or several blocks behind the signature.
- Flash sectors do not start on block boundaries in the instances, so that a torn
  erase cuts through the information block.

### Fairness

`BootloaderLoop!Fairness`: the CPU goes on from wherever in the loop it is (`WF(MainLoop)`, one
condition for all of it, so that the order of the code decides what comes next), and SysTick
fires. Nothing is assumed of the host, the line or the power supply: what `SessionsEnd` and
`BootsWhenLeftAlone` need of them is part of the formulas. `SessionsEnd` has two provisos: power
stays on, and `comms_update` returns again and again (`CommsUpdateReturns`), without which it is
false. `BootsWhenLeftAlone` has that the host leaves the device alone, in
whatever state, and that the image stays bootable.

`FirmwareUpdate` adds that the updater's process is scheduled, that what was written is delivered,
and that time passes when all wait or exchange RETX without end. The device's switch is fair
only where `comms_update` returns: it gets a turn if the line is empty again and again
(`SF(Switch /\ rx = <<>>)`). That it is, is not assumed: where two packets go round at once it need
not be, and the updater ends by its own timeouts.

`Application`: a pending interrupt is taken and the handler ends, SysTick fires, and the main loop
gets the CPU back; the transmitter empties. `CbcMac`: the check runs on. `Uart`, `Framing` and
`SimpleTimer` state safety only and assume nothing.

## 4. Proofs

`BootloaderProofs` proves, for every layout of flash, every set of images, packets
and torn erasures, and every size of the buffers, with no bound on the environment:

- `TypeCorrect`, the type invariant;
- `Invariance`, the inductive invariant `IInv`, and from it `IntactImagesRun`,
  `SuccessBootable`, `ErasedFlashOnly` and `StayInArea`;
- `ImageSurvives`, the action property `ImageLostOnlyByErase`;
- `Implementation`, that `Bootloader` implements `UpdateSlot` under the mapping of
  flash to `SlotOf` and of state to `SlotPhase`.

The properties are not inductive. That a chunk lands on erased flash needs
`bytes_written = 0` when RECEIVE_FW is entered, hence in every earlier state, hence
that only a reset leads back; that writes stay in the area needs
`bytes_written < firmware_length` between chunks. `SessionOK` states this, and
`ImageOK` that a running application or a reported success implies the loop has
ended with a bootable image. From `ChunksLandOnErasedFlash` follows that a write never
touches a cell of a whole image (`WriteKeepsImage`), which carries `ImageSurvives`
and `Implementation`.

`FirmwareUpdateProofs` proves `Environment`: every step of the composed system is a
step of `Bootloader` or leaves its variables alone, because the updater writes only
packets of `HostPackets` (invariant `HostInv`: what it would send again is such a
packet, and before the verdict there is a chunk left to send). So the theorems above
hold of the whole system; three of them are restated, `SystemImplementsSlot` among them.

It also proves `Installed`, that is `SuccessMeansInstalled` for any number of images, runs of
the updater and faults. Neither side numbers its packets, so what has to be excluded is that
the success an updater hears, or the image the device verified, is an earlier run's. The
invariant `InstalledInv` does that by the order of packets:

- before an updater has been greeted, that is before the first answer it will look at is
  SYNC_OBSERVED, it sends nothing but SYNC, ACK, RETX and what it last sent, and that is not
  about an image; so what is on the line behind its SYNC is not about another's image
  (`LineOK`), and a packet of an earlier run that is still there lies before the SYNC;
- to send SYNC_OBSERVED the device reads the SYNC and throws away what is behind it, and its
  buffer is empty in the SYNC state (`DeviceOK`). From then on every packet the device
  is sent, and every chunk it writes, is the greeted updater's (`OwnSession`). A device that
  has got to ERASE_APPLICATION or RECEIVE_FW has read its way past all that could be about an
  earlier image;
- so a session that ends with a valid image ends with that updater's: a valid image is one
  image in every cell, and those written are of `fwImage` or noise. From the success on
  there is no SYNC on the way that could lead to another erase (`ToldOK`), and the updater
  reports what it has been told.

The proof goes by actions of the updater (`HostStepKeeps`, `MainStepKeeps`, `OnDataKeeps`), of
the line (`Delivery`) and of the device. The device's are sorted by what they do to the
queues (`Resets`, `Stops`, `Syncs`, `Stays`, `Commits`, `Erases`, `Fills`), and the invariant is
shown once for each sort. `Follows` says what may happen to a queue on the way: packets leave
at its head, and those left may be cut short.

`ApplicationProofs` proves of `Uart` its `InOrder` and `Implements` for every ring whose size is a power of
two and any number of bytes. `InOrder` is `RepeatsStandForLost`: what the reader gets are bytes of the
line in order, one at most twice, and a repeated byte in place of its lost successor. The inductive
invariant adds to the types

- `ReaderHolds`: past the check for an empty ring there is a byte, the index held in a register
  is `read_index`, and the byte held is the one in its slot, for the handler has overwritten neither;
- `HandlerHolds`: the handler is in the middle of its work only while the USART is on, and between its
  two readings there is a byte in the data register, or ORE alone, which it has then seen;
- `Ages`: what the handler has put on its way to the reader is in order, with each repeated byte in place
  of its successor (`Ordered`), and the data register may follow it (`MayFollow`): with RXNE set its byte
  is younger than all of them, with ORE alone it may be the last of them again, and then its
  successor has been lost.

The lemmas say what `Contents` does when a byte is put or taken, with the wrap of either index.

It proves further that `Application` behaves as `Uart` does (`AppUsesUart`), from
which `AppImplements` and `AppInOrder` follow across the change of programs, and with
`LedInv` (the ticks since `last_tick` are the difference of the two counts, modulo the
width) `AppTypeCorrect` and `LedNeverEarly`, at every width.

`FramingProofs` proves the types of the receiver for any bytes, and `InOrder`: with whole
packets on the line the parser never loses its place. The invariant (`Place`) says that the
state is given by the offset in the packet and that the bytes so far are the packet's; a
packet ends where an item does, and `KindsAssumption` says which are to be stored.

For any line, with pieces of packets and late sync sequences on it, it proves `StepsOfPackets`
(the refinement `PacketSteps`) and `NoneInvented` (`NothingInvented`), on one condition:
`NothingByChance`, that bytes of two items or of the inside of one pass neither for a packet
nor for the sync sequence. A CRC of eight bits cannot promise that, so it is a hypothesis here and
an invariant of the run, where it holds of every fault of the instance; of lines of whole packets,
damaged or not, `NoneByChance` proves it, so that of those the other two hold without condition
(`StepsInStep`). The invariant is `PlaceInv`:

- `Aligned`: a parser that has taken as many bytes as have been read of the item has the item's
  bytes, so a packet that ends with an item of 18 bytes is the item, and its record says what is
  done with it;
- `SyncPlace`: of a sync sequence the search has shifted in what has been read, so it finds each
  one it reads from the beginning (`SyncFound`), and passes over none.

The mapping counts what `Bootloader` has taken of the line: `Ahead` is the first item that is still on
its way, `Left` the bytes that belong to a packet to come. `ByteTaken` and `PacketEnds` say
how a byte changes the two, `PacketsBehind` what the flush does to them, and the lemmas about
`RingOf` that putting and taking a packet, past the wrap of either index, is `Append` and `Tail`.

`HostFramingProofs` proves `HandlerSteps` for every line and every way the port cuts it. The
invariant (`Rejoined`) is that read buffer and unread bytes, put together, are the line from
the first packet not taken. Reading as a packet of a single byte and being that packet are
the same for what the CRC accepts (`SingleIffEqual`).

`SimpleTimerProofs` proves `Early`, `Once` and `Late`. The invariant relates readings of
the tick to the ticks that have passed (`Readings`: never ahead of them, and exact up to
the first wrap), the latch to the mode (`Latch`), and the last poll that returned false
to the instant due (`Punctual`).

`ImageMacProofs` proves `ReadsStayInside`, `SignedAccepted` and `OthersRejected` for every
length, every size of block and every place of the information block. Its invariant says
that what has been chained is the signer's stream up to the offset, after the information
block and without the two blocks skipped, and that the offset is a multiple of the block.
Most of the work is that two sequences of blocks are equal only if the images are, cell
by cell.

`pc` says in `CbcMac` what it says in `ImageMac`: the verdict of the ideal MAC. What is true of the
real one is stated of `prev_cipher_block` and `signature`, and proved for every key, image and length:

- `Expanded`, that the round keys are those of FIPS-197, and `Inverted`, that decryption gives back
  what is chained;
- `SignedPasses`, one half of `MacDecides`: an image with its own signature passes the memcmp with AES itself. The invariant
  `CbcInv` says that `prev_cipher_block` is at every moment what openssl would have computed of the
  blocks so far; at the end those blocks are the signer's (`StreamRebuilt`);
- `AlteredFails`, the other half: an image altered inside one block never passes. This is the part of "nothing else is
  accepted" that is true of the real MAC without luck: as the cipher can be inverted, two different
  blocks have different cipher texts, and the difference survives every equal block that follows
  (`DifferenceSurvives`). Of changes in several blocks it cannot be proved, because there are collisions.

`BytesProofs` proves what those proofs, and the others about damage on the line, take from the
arithmetic of bytes:

- `EncryptIsCipher`, `DecryptInverts`, `ScheduleIsKeyExpansion`: `AES_EncryptBlock` is the cipher of
  FIPS-197 and `AES_DecryptBlock` its inverse, for every block and all round keys, and
  `AES_KeySchedule128` the key expansion, for every key. The definitions of FIPS-197 in `Aes` are written
  from what it defines (inverse and affine transformation, products of polynomials), not from tables;
- `BurstsNoticed`: a burst of up to seven bits anywhere in a packet, of any length and content,
  leaves it with a CRC that is not that of its data.

It takes finite facts from `ByteTables`: that the tables of `aes.c` are what FIPS-197 defines, that exclusive
or is associative on nibbles, that the factors of the two matrices are linear and their product is the
identity, that the inner loop of `crc8_compute` is linear and loses nothing. Each is about all bytes or all
pairs of them, stated as an assumption, and TLC evaluates it in full in `ImageMac_check`. Everything else is
proved from them. Loops are functions of the turn (`after[i]`, `crc[i]`), and what holds after every turn is
shown by the least turn after which it would not (`WFMin` and `NatLessThanWellFounded`), since the
induction theorems of the library take an operator.

Assumptions: those named `...Assumption` in the modules, which TLC evaluates in the runs.
In `Bootloader` and `FirmwareUpdate` they say that the area holds the longest firmware plus
a chunk, that sectors 2..7 cover it, and that images are long enough to contain their
information and signature blocks; in `Uart` that the ring's size is a power of two; in
`SimpleTimer` and `Application` that the wider count is wider; in `ImageMac` that
`Flashed` holds images of a length that fits and that the information block begins on a
block boundary; in `CbcMac` that the key is a block of bytes, that a block has four cells and a
cell is a number of 16 bits; in `ByteTables` the finite facts above; in `Framing` and `HostFraming` that items have at most the length of a
packet, that replies have exactly it, and that the names given to them are what their bytes
say, the CRC included (`RecordsAssumption`: an item is as long as its record says, equal bytes have
equal records, and an item called SYNC is the sequence).

Only model-checked:

- `BufferNeverFull`. It is a statement about few faults. Each fault may leave a packet repeated, but what
  follows is not bounded by the number of faults alone: a late sync sequence or a lost byte shifts the framing
  of everything behind it, each 18 bytes of which are answered with RETX, the updater answers with what it
  last sent, and a control packet read out of step is one more. How many there can be depends on how
  much may be on the line (`RX_CAPACITY`) and on the timeouts, and an invariant would have to count the repeats on both
  lines at once. In the instances the buffer holds at most one packet more than there have been faults.
- `NothingByChance` for lines with lost bytes and late sync sequences, as it depends on what the CRC makes of bytes
  put together anew.
- `DecidesAsIdeal` for images that differ in more than one block, where it says that those of the instance
  do not collide.
- Liveness (`Decides`, `SessionsEnd`, `BootsWhenLeftAlone`, `UpdaterEnds`, `UpdateCompletes`, `KeepsFading`,
  `BytesAreAnswered`), which is out of this prover's reach.

## 5. Not modelled

- In `FirmwareUpdate` a damaged packet is noticed, always. `BurstsNoticed` proves it of bursts of
  up to seven bits; beyond them a CRC-8 misses one damage in 256. The device's safety does
  not depend on it (its environment may send anything); `SuccessMeansInstalled` and
  `UpdateCompletes` do.
- A chunk of two bytes that reads as ACK or RETX in `FirmwareUpdate`; `Framing` has it, as
  the ACK or RETX it is taken for.
- The collision of two images under the MAC: `OnlySignedAccepted` is about an ideal MAC, and
  `DecidesAsIdeal` about the images of the instance. `AlteredFails` excludes it for images that differ
  in one block.
- `crc32` and `GF_ModularProduct`, which nothing calls (the second is only declared).
- The PWM timer of the application: its compare value is a function of the duty cycle.
- Clock, GPIO and NVIC setup, which only write registers; the build and linker scripts.
- Loss of bytes on the way to the updater: it has no timeout inside a packet, and
  what it has of one is dropped only after the sync.

## 6. Plan

Done: 1. `UpdateSlot`, `Bootloader`, its proofs; 2. `ByteFifo`, `Uart`; 3. `ImageMac`;
4. `Updater`, `FirmwareUpdate`, proof of `Environment`; 5. `Framing`, `HostFraming`;
6. `SimpleTimer`; 7. proofs of `Uart`, `ImageMac` and `SimpleTimer`; 8. `Application` and its
proofs; 9. `Aes`, `CbcMac`; 10. proof of `SuccessMeansInstalled`; 11. proof of `PacketSteps` for
every line of which nothing passes for a packet by chance; 12. proofs about `Crc` and `Aes` for
packets, blocks and keys of any value, and of `CbcMac`; 13. the handler in two steps against the
receiver, with its proofs; 14. `BootloaderLoop`.

Open: `BufferNeverFull` for any number of faults and a buffer of the size they call for (see
"Only model-checked" above for what stands in the way).
