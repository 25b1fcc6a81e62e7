# A TLA+ verification of RISCV_SOC

This directory models the RISC-V system on chip of this repository (PicoRV32 on
an AXI4-Lite crossbar, with RAM and ROM, timer, watchdog, UART, SPI, I2C, AES-128
with CBC and CTR, an encrypting DMA engine, and a JTAG bridge that is a second
bus master) in TLA+, and with it the benches that test it: their bus driver, their
reference models, their calls and their checks. TLC checks the models on small
instances; TLAPS proves, for every value of the constants, the invariants of the bus path
from the core's adapter to the RAM, of the AES peripheral, the DMA engine, the JTAG bridge,
the timer, the watchdog, the UART and the firmware with its interrupts, and that the
crossbar's write half and the DMA engine implement their abstract specifications.

One step of a model is one rising edge of the clock that drives the modelled
process, unless its header says otherwise; an operator on wires is the value
before the edge. Source files are named below by their last component:
`timer.v` is `src/blocks/timer/rtl/timer.v`.

To check a run: `tlc -config XbarWrite.cfg MCXbarWrite.tla`; to check a proof
module: `tlapm XbarWriteProofs.tla`. `PROJECT.json` lists the runs, the theorems,
and for every definition the lines of the source it translates.

## 1. The system

### Components

| Component | Source | State | Operations |
|---|---|---|---|
| Crossbar, write half | `axi_lite_xbar.v:226-418` | four-state machine, grant, address and data latches with their have/issued flags, response, `LAST_DECERR_WADDR` | accept AW and W in either order, decode, issue, wait for B, respond |
| Crossbar, read half | `axi_lite_xbar.v:420-583` | the same for AR and R, `LAST_DECERR_RADDR` | accept, decode, issue, wait for R, respond; serve the CSR window |
| Address map | `addr_map.vh`, `decode_addr` | none | region and page decode, DECERR for holes |
| SRAM, boot ROM | `sram.v`, `boot_rom.v` | words; one-cycle responses | write, read |
| CPU bus adapter | `picorv32.v:2731-2808` | three acknowledgements, `xfer_done` | turn `mem_valid` into AW/W or AR, forget on completion |
| CPU interrupt logic | `picorv32.v:1471-1562, 1915-1963` | `irq_pending`, `irq_mask`, `irq_active`, `irq_state` | latch, enter, claim, `maskirq`, `retirq` |
| Firmware | `main.c`, `start.S` | program counter, counters, saved mask | start-up, wait, report; handler: clear, kick, stop |
| Timer | `timer.v` | RELOAD, EN, count, EXPIRED, pulse | register writes, count down, reload |
| Watchdog | `watchdog.v` | TIMEOUT, EN, count, WARNING, RESET_REQ, pulse | kick, count down, warn, ask for reset |
| UART | `uart.v` | transmit machine, bit and clock counters | accept a byte, shift a frame out |
| SPI master | `spi_master.v` | mode, divider, edge counter, shift registers | a transfer in any of the four modes |
| I2C master | `i2c_master.v` | bit-level machine, ACK handling | START, address, byte, STOP |
| AES core | `aes_core.v`, `aes_key_expand.v`, `aes_pkg.vh` | round state, eleven round keys | expand, eleven rounds, both directions |
| AES modes | `aes_chain.v` | IV or counter, latched mode | ECB, CBC, CTR for one block |
| AES peripheral | `aes.v` | key, data, IV registers, DONE, pulse | START, LOAD_IV, readback |
| DMA engine and memory | `dma_engine.v`, `dma_ram.v` | nine-state machine, bursts, block counter; burst slave | read block, encrypt, write block, next |
| JTAG TAP and DTM | `jtag_tap.v`, `jtag_dtm.v` | TAP state, IR, DR, address, data, RW | scans, START, fetch of the result |
| JTAG bridge | `jtag_axi_bridge.v` | toggles and synchronizers of two clock domains, bus state machine | start, write, read, report |
| Reset synchronizers | `soc_top.v:63-82` | two flops per domain | assert at once, release after two edges |
| Testbench ends of the lines | `fake_spi_slave.v`, `fake_i2c_slave.v`, `fake_axi_lite_slave.v`, `sim_main.cpp` | | the other side of SPI, I2C, the bus, the UART line |
| Testbench driver | `axi_lite_bfm.h` | the VALID and READY pins it drives, clocks waited | write, read, give up after a time limit |
| Testbench models | `timer/dv`, `watchdog/dv`, `jtag/dv/tap_sim_main.cpp`, `aes/dv/diff_sim_main.cpp` | the count and flags they predict; AES from its definition | advance by one call; compare |

### Interactions

The two bus masters (core through its adapter, debugger through the JTAG bridge)
meet in the crossbar; its halves share nothing but the CSR window and the
interrupt wire. The slaves commit a write when AW and W are offered together and
hold their response for a single cycle. The AES peripheral and the DMA engine
each contain a chain, and each chain an AES core, coupled by one-cycle start and
done pulses. The DMA has a private burst port to its own memory. Timer, watchdog,
crossbar, AES, DMA, SPI and I2C raise one-cycle interrupt pulses that the core
latches; the firmware enables the timer and the watchdog. The debugger's clock
`tck` is independent of `clk` and may stop.

### What is hard

* *Order of events.* AW and W, and their acceptance, come in any order;
  arbitration must not move while a transaction is half latched; slaves do not
  wait for READY.
* *Software at any time.* Every register may be written in any cycle, in
  particular the one in which hardware sets the bit the write clears.
* *Two clocks.* The JTAG bridge transfers a start, a completion and unsynchronized
  payload between clocks of any ratio; resets reach the domains at different times.
* *Unreset state.* The adapter resets one of its four flops.
* *Interrupts.* Pulses arrive while others are claimed, and while the handler has
  already restored the mask but not yet returned.
* *Boundaries.* LEN, RELOAD, TIMEOUT and DIVIDER at 0 and 1, wrapping addresses.
* *Starvation.* Fixed priority on the bus; interrupts faster than their handler.

`PROJECT.json` lists 40 hazards at their lines, with the properties that cover each.

## 2. Modules

| Module | Models | Composed from |
|---|---|---|
| `AddrMap` | address decode, response codes | |
| `WriteBus` | abstract: an atomic bus, one write at a time, each taking effect once before its answer | `AddrMap` |
| `XbarWrite` | write half, both masters, fast and slow slaves | `AddrMap`, `WriteBus` as abstraction |
| `XbarRead` | read half, with the CSR window | `AddrMap` |
| `XbarRam` | RAM words behind both halves at once | instances of `XbarWrite` and `XbarRead` |
| `XbarBench` | the bus driver of the benches, the fake slave, and the calls and checks of the self-test, the RAM, the ROM and the crossbar bench | instances of `XbarWrite` and `XbarRead` |
| `CpuAdapter` | memory port of the core, adapter, any bus | |
| `AesPkg` | S-boxes, GF(2^8) products and layers as the code computes them | |
| `AesReference` | the reference model of the differential test, from definitions in GF(2^8); the published answers | `AesPkg` for bytes only |
| `AesCore` | round and key-schedule machines on real 128-bit data | `AesPkg`, `AesBlock` as abstraction |
| `AesBlock` | abstract block unit: operands taken at start, result some time later | |
| `AesChain` | modes around a block unit | `AesBlock` |
| `AesPeriph` | register file around a chain | `AesChain` |
| `AesBench` | the programs of the peripheral and the chain bench, with their answers | `AesPeriph` on the real cipher |
| `DmaRam`, `DmaCopy`, `DmaEngine` | burst memory; abstract block-by-block copy; the engine | `AesChain`, `DmaRam`, `DmaCopy` as abstraction |
| `DmaBench` | burst helpers of the memory bench, polled operations of the engine bench, the multiplexer between them | `DmaEngine` |
| `JtagDtm` | the TAP and the DTM around it | |
| `JtagBridge`, `JtagReset` | bridge with both clocks; with the reset synchronizers | |
| `JtagChain` | debugger, TAP, DTM and bridge | `JtagDtm`, instance of `JtagBridge` |
| `JtagBench` | the two chain benches and the JTAG part of the system bench, at their clock ratios | `JtagChain` |
| `Timer`, `Watchdog`, `TimersUse` | the register processes; any software around them, with the models of their benches beside | |
| `Uart`, `SpiMaster`, `I2cMaster` | the masters, each with software and the other end of its line | |
| `SocIrq` | timer, watchdog, interrupt logic of the core, firmware | `Timer`, `Watchdog` |
| `MC*` | the instances TLC checks, and the choice of who drives them; in `MCJtagChain` also any walk of TMS and TDI | |
| `XbarWriteProofs`, `XbarReadProofs`, `MemPathProofs`, `AesProofs`, `DmaEngineProofs`, `JtagResetProofs`, `JtagChainProofs`, `DevicesProofs` (with `SocIrq`) | theorems | `MemPathProofs`: instances of the first two; `JtagChainProofs`: of `JtagResetProofs` |

State variables carry the names of the registers they stand for, actions the names
of the states of the code's `case` statements. A Verilog process is one action per
state or one `next_...` operator per register; assignments that come later in the
process win, as in the code. Variables marked *history* in a declaration are
observers: no guard of the model reads them, except to bound a run and to say what a held
reset is (`clkHasReset`, `tckHasReset`).

`AesBlock` is how the layers of AES are taken apart: `AesCore` is shown to
implement it on real data, and chain, peripheral and DMA are checked on top of it
with small abstract blocks and keys. Its only assumption on the data is that
deciphering undoes enciphering and that exclusive or cancels.

Data are abstracted where the properties do not tell them apart: bus addresses are
records of the fields `decode_addr` looks at, bus data and requests model values,
byte strobes part of the payload. Widths are constants (`LenBits`, `Width`,
`WdtWidth`, `CntWidth`, `DivWidth`), and counters that wrap in the code wrap here.

A bench is modelled by what it can do: its calls are made in any order and any number
of times up to a bound, where the program makes them once in one order; after each call
stand its checks. What a bench computes to compare with (the count of a timer, a TAP
state, a ciphertext) is a model of its own, translated from the bench and not from the
design, so that a run compares two independent descriptions.

The operators named `Bad...` are variants of a definition with a plausible slip, each
used to see that a property notices it. They are not part of any specification.

## 3. What the runs check

Ten runs pass. Names in parentheses are conjuncts of a property.

**xbar_write** (`XbarWrite.cfg`). Two masters, RAM slow (it takes AW and W when it
likes), ROM fast (one-cycle response, answers SLVERR), two holes, two payloads.
* `WriteInv` (`LatchedBeatsAreTheOwners`: an address is never paired with the other
  master's data; `MissAddressRecorded`: who is told DECERR finds its own address in
  the CSR).
* `ImplementsBus`: the crossbar implements `WriteBus`: every write takes effect
  exactly once, with its own address and data, before it is answered with its
  target's own code; writes do not overlap.
* `PulsePerMiss`: one interrupt pulse per miss.
* `EveryWriteAnswered`: always for the CPU; for JTAG if the CPU pauses now and then.

**xbar_read** (`XbarRead.cfg`). The same for reads, with both CSR words.
* `DataIsForOwnRead`, `EveryReadAnswered`, and `ReadInv` (`ReadInFlightIsTheOwners`,
  `FastDataIsCaught`: the one-cycle data of a fast slave is never missed,
  `ReadMissRecorded`).

**mem_path** (`MemPath.cfg`). Three parts of a memory access, one at a time.
* Adapter, under any sequence of transfers, any bus timing, resets at any cycle and
  arbitrary power-up contents of its three unreset flops: `TransferInv`
  (`BeatsAreTheTransfers`, `ReadyMeansDone`), `ValidHolds` (AXI: an offered beat stays),
  `EveryTransferEnds`.
* RAM behind both halves of the crossbar: `MemoryInv` (`ReadIsCurrent`: a read returns
  a value the word had during the read; `ReadsOwnWrite`: a master that was answered
  its write reads it back, unless the other one wrote since).
* The benches of the bus: `BenchInv`. The driver looks at READY after the edge, so VALID
  outlives the beat that was taken; the checks hold all the same, no call gives up, each
  call moves one transfer and pulses the interrupt once if it misses. The exception is
  the contention test, whose second port stays valid while it loses: the s1 write is made
  twice (`call.moved = 2`), which its data make invisible.

**aes_core** (`AesCore.cfg`).
* `MatchesFips197`: the S-box tables, constant products and layers of the design against
  the reference model of the differential test, which computes them from GF(2^8) alone;
  the reference against the published answers of FIPS-197 in both directions.
* `ImplementsBlock`: the core implements `AesBlock` with the FIPS-197 cipher, and each
  operation takes 21 cycles whatever its operands.
* `CoreInv` (`BusyIsInProgress`, `RoundKeysAreTheJobs`), and the programs of the
  peripheral and chain benches on the real cipher: the ECB, CBC and CTR answers of FIPS-197
  and SP 800-38A, and the differential pairs, come out of the register file.

**aes_periph** (`AesPeriph.cfg`). Any register write in any cycle around a block.
* `ResultIsTheBlock`: the result is SP 800-38A's for the operands of the START.
* `PeriphInv` (`IvAdvances`, `ReadbackIsChainIv`, `DoneIsShown`).
* `EveryBlockInterrupts`.

**dma** (`Dma.cfg`). Operations of one block and of two, in place and overlapping, with
software that does as it likes; or the benches.
* `ImplementsCopyInSoc`: what the engine does to the memory is the block-by-block copy
  `DmaCopy`, with the mode, addresses, length and IV of the START.
* `AgreeInv` (`BurstsInStep`: engine and memory agree on the beat; `StartIsTaken`: no
  start pulse of the chain is lost; `BusyIsWorking`; `DoneIsShown`).
* `BenchInv`: bursts of any length and strobes are answered and read back; a polled
  operation ends, and the memory holds the expected blocks.
* `EveryStartInterrupts`.

**jtag_bridge** (`JtagBridge.cfg`). Any interleaving of the clocks, in four
environments chosen at the start: edges apart, edges that may coincide (each bit
sampled across then yields its old or its new value), held resets, short resets.
* `PayloadsArrive` (`BusHasTheRequest`, `ResponseHasArrived`), `EveryStartEnds`,
  `HandshakeInv` (`InFlightIsBusy`, `EveryResetReachesBothDomains`, and that after a held
  reset neither BUSY nor the bus is up without a START).

**jtag_chain** (`JtagChain.cfg`). A debugger doing `axi_write` and `axi_read` scan by
scan; or any TMS and TDI; or the three benches.
* `DebuggerServed` (`TransactionsSucceed`: a write that was polled to its end has
  happened; a read returns the word; RESP_OK is that of the bus; IDCODE and BYPASS.
  `ReadsBack`: what a bench writes it reads back). The debugger shifts RW in again while it
  polls; the benches shift in zeros, `keeps_rw` is FALSE, which drops the result of a read whose first poll ends before the bus is done.
  Theirs never does: at ten edges of `clk` per edge of `tck`, and at five edges of `tck` per
  edge of `clk`, the bus is done within the scan. (Trying other ratios: up to six edges of
  `tck` per edge of `clk` reads come back, from seven on they are lost.)
* `MeetsTheBridge`: TAP and DTM keep what `JtagBridge` assumes of its requester.
* `EveryTransactionEnds`; `ScanInv` (`FiveOnesReset`, `ScanArrives` through any
  pauses, `BypassIsOneBit`, and `WalkMatchesModel`: the TAP is where the model of
  `tap_sim_main.cpp` is, after any walk).

**devices** (`Devices.cfg`). Timer, watchdog, UART, SPI and I2C, one at a time.
* `OnTime`: the timer interrupts RELOAD + 1 enabled edges after it was loaded and at
  no other time, under any writes. `ResetIffStarved`: RESET_REQ stands exactly while
  the watchdog is unfed for longer than TIMEOUT.
* `TimerModelAgrees`, `WatchdogModelAgrees`: under any writes on any edge, far from the
  one sequence of calls the benches make, the devices and the models of their benches show
  the same, but for EXPIRED after a clear on the edge of an expiry.
* `BytesCross` (UART: software that polls loses nothing; SPI: in all modes each side
  gets the other's byte; I2C: a transfer without NACK did what was asked, NACK says
  that nobody answered).
* `LinesKeepProtocol` (one-cycle pulses; whole UART frames; SCLK rests; SDA stable
  while SCL is high; the I2C line is released).
* `DevicesInv` (who is interrupted finds the status bit set; the warning comes in
  time; no half period is longer than DIVIDER).
* `EverythingEnds` (timer interrupts again and again, a starved watchdog asks for a
  reset, every byte offered is sent, every transfer ends).

**soc_irq** (`SocIrq.cfg`). Two timer periods, one longer than the handler and one
far shorter than it.
* `EachPulseCountsOnce` (longer period): no pulse lost or counted twice.
* `FirmwareInv` (no nesting; the report is exact; the watchdog is fed until then: the last
  two if the watchdog's timeout exceeds two periods and its warning margin, `WellFed`.
  `main.c:14` asks for five periods. With less than two, a pulse the handler has not served
  yet can meet the warning.)
* `EverythingGoesOn` (either period: main reports, the handler ends, a pulse that
  comes while the handler runs, or while its predecessor is claimed, is served).

Two runs show a disagreement between the code and a comment:

**aes_fresh_iv**: the completion of a block overwrites an IV that software wrote
meanwhile (`aes.v:136`); the comment above it says such a write "still lands for the
*next* load_iv".

**soc_bites**: after its report the firmware stops the timer, and with it the only
place that kicks the watchdog; warning and reset request follow. The comment at
`main.c:91-92` says the watchdog never fires. (`soc_top.v:40-42` wires the request
nowhere, so nothing visible happens.)

### Bounds

| Run | Bound | Why it is enough |
|---|---|---|
| xbar_* | one address per kind of target (two holes), two payloads, two masters | two masters are all there are; the halves hold one transaction each; two holes tell apart whose miss was recorded |
| mem_path | one RAM word, two payloads, four requests; benches: seven addresses (two slaves, two holes, both CSR words), two words, two byte lanes, three calls after reset, the limit of 200 of the code | order within a word; three requests can be involved at once (previous, current, second word); three calls give each call one before and one after it |
| aes_core | two keys, three blocks, all 256 bytes for the tables; benches: their own vectors, three pairs for the random ones | tables are walked in full; the data path has no data-dependent control |
| aes_periph | three blocks, two keys, `DataIn` and `Ivs` written | blocks only need to be told apart; the permutations used are not both their own inverse |
| dma | two-word blocks, four-word memory, `LenBits` = 1 (LEN 0 is two blocks, as 0 is 2^32 in the code), `MaxStarts` = 2, one disturbing write per operation; benches: `MaxCalls` = 3, `SpinLimit` = 3 for the code's 50, operations from word 0 to words 0 and 2 of one and two blocks | two blocks exercise the loop, wrap and overlap; a second operation starts from whatever the first left; three clocks are more than the memory ever takes, so a wait that reaches the limit would reach any |
| jtag_bridge | one-bit address and data | the synchronizers are per bit; coinciding edges mix bits |
| jtag_chain | debugger and benches: the 32 bits of the code, three addresses (4, 8, 60), one written word and 0, one poked register, each handshake of the crossbar within one period of `tck`; walks: data registers of two bits | words are taken bit by bit, so none of their bits is lost sight of; how fast the polls come against the bus is that of the code; a walk may stop, pause and repeat a scan at any bit, so short registers lose nothing |
| devices | counters of two or three bits, UART of three bits, SPI and I2C of two, dividers 2 and 3 | every comparison in the code is reached on both sides; all three values around 0 are used |
| soc_irq | periods 6 and 51, two interrupts to count, `MaxStall` = 4 | the handler takes at most ten program steps; 51 leaves room for it, 6 never does |

Where a run covers several units "one at a time" the choice is part of the initial
state; the units share no state, so no interleaving is lost.

### Fairness

* The clock runs: weak fairness of the edge. In `jtag_*`, of each clock's edge.
* A master takes its response (`s_bready` of the adapter and the bridge is up while
  they wait), and a slave that accepts a write answers it: for the fast slaves this
  follows from the model, for the slow one it is stated, since a slave that never
  answers hangs any bus. The JTAG master's liveness is conditional on an idle cycle
  of the CPU's requests, because arbitration is by fixed priority.
* The bridge and the adapter assume of the bus what the crossbar runs show of it.
* The block unit under the chain ends what it began: `aes_core` shows it takes 21
  cycles.
* Nothing is assumed of software, except in `Uart` for the software that polls.

## 4. What is proved

Theorems hold for every value of the constants: any set of addresses, payloads,
requests, blocks and keys, any cipher with an inverse, any width, margin and set of
register values. They state properties of all ten passing runs.

**`XbarWriteProofs`**: `WriteInvariant` and its parts `TypeCorrect`,
`NoTransactionChangesHands`, `NoBeatIsForgotten`, `OwnResponseCode`, `OwnMissRecorded`.
None of these is inductive alone. The invariant `IInv` adds `MastersOK` (a master's AW
and W are off together) and `PipelineOK` (the have-flags fall as W_ISSUE is entered, at
most one of the two is up in W_IDLE, the target selected is the decode of the latched
address): a beat that was handed over could otherwise have gone to a grant that has since
moved. The proof has a lemma per state of the machine, and one for what the masters do on
any edge. The response code needs `RespInv` on top: the code is right once the slave has
answered, or once a local answer has been set, before `s_bvalid` is shown.
`XbarIsBus` is the refinement `ImplementsBus`. `BusInv` adds `SlavesInv` (a slave holds just
the beats it was issued until it performs the write, and then the answer, and no other slave
holds anything) and `EffectInv` (`performed` is up for the owner of the grant only, from the
effect to the answer). Each edge then maps to `Perform`, `Answer`, `Finish`, a new request,
or a stutter of `WriteBus`. `OnePulsePerMiss` is `PulsePerMiss`.

**`XbarReadProofs`**: `ReadInvariant`, `OwnDataIsRead`. `IInv` consists of `ReadersOK` (who
waits asked for an address of the program), `PipelineOK` (state, grant and selection
belong to the latched address), `SlavesOK` (a slave's data is for the address it was
given, and a fast slave's one cycle falls while the crossbar waits) and `AnswerOK` (what is
in the response registers is the owner's).

**`MemPathProofs`**. Adapter: `TransferInvariant` and its parts, `OffersStand`, for any power-up
contents. `IInv` says that a beat the bus holds is acknowledged (`HeldIsAcknowledged`), and
that `xfer_done` while `mem_valid` is up can only be the first cycle of the second word of
a fetch, in which the stale acknowledgement still masks the request (`DoneIsMasked`). The
proof splits on whether a transfer is pending and whether it ends.
RAM: `RamIsCurrent`, and `MemoryInvariant` for the composition the run checks. It stands on the
invariants of both halves of the crossbar, whose modules it instantiates. To them it adds
`Written` (the word is in the RAM once the crossbar waits for the response), `Kept` (a word is
what its last writer wrote unless that master has another write of it on the way), `Seen` (the
present value is one the reader may return, and the only one while its own write stands) and
`Carried` (so is the value on its way to the reader).
Benches: `BenchesPass` (`BenchInv`), for any bytes, lanes, number of calls and addresses no two of
which are one word of a fake slave (`BenchAssumption`), and any time limit of at least 15. A call
drives one half of the crossbar and the other rests (`WriteRests`, `ReadRests`). `WriteOnWay` and
`ReadOnWay` say what every register of the half holds in each state of the access, `WriteAt` and
`ReadAt` how many edges it has taken, so no call reaches the limit, and `StoredBut` that every word
is what the bench expects except the one being written. VALID outlives the beat that was taken
because READY is up after an edge only when the access is over: what is up is the same request, and
it falls in the edge that ends the access. In the contention test nobody lowers s1's, so its write
is made a second time (`RawWrites`).

**`AesProofs`**. Peripheral: `ResultIsOfTheOperands`, `PeriphInvariant`. The invariant
(`InProgress`) relates the block in the unit to the operands recorded at START and to the
mode and IV registers of the chain, through every register write meanwhile; `BlockOK` says
that the unit is empty in the cycle of its done pulse. Of the cipher only that deciphering
undoes enciphering is used, of exclusive or only that it cancels.
Core, for all 128-bit keys and blocks and any behaviour of the inputs: `CoreKeepsStep` (`CoreInv`)
and `CoreIsABlockUnit` (`ImplementsBlock`). `KeysKeepStep` says which round keys there are while
the expander works, each a `NextRoundKey` of the one before, and that nobody reads them until
it is done. `OnItsWay` says that `core_data_reg` is the state before round `rnum` of the
reference's cipher; on the way back it is a step behind the reference, which undoes the
layers of a round in another grouping. The reference is recursive, and over ten rounds
the recursion is ten definitions: `ChainExists` names them, `RoundKeysAre`, `EncryptIs` and
`DecryptIs` show that the reference computes them. The only hypothesis is `CoreOperands`: keys
and blocks are of 16 bytes, and `NoBlock` is not an operation.
`CipherFitsTheModes` is what the peripheral's theorems assume of the cipher, of the real one:
`Decrypt(k, Encrypt(k, b)) = b` for every key and block, so CBC and ECB come back from the design
itself. A byte is taken as eight bits of its number (`SameBits`); exclusive or acts on each
(`XorBits`), doubling moves them (`XtimeBits`) and so distributes over exclusive or (`XtimeXor`).
With that every term of a column that went through `MixColumns` and back occurs twice, except
the byte itself (`MixCancels`). The S-box tables are each other's inverse entry by entry.

**`JtagResetProofs`**: `HandshakeAgrees`, `PayloadsCrossWhole`. `InStep` is the position of
the toggle of a START on its way through seven registers, there and back: either all agree,
or those up to some point have changed and those behind it have not; and the bus is busy
exactly while `start_toggle_sync2_d` and `done_toggle_clk` differ. That it survives edges of either
clock and coinciding edges, where the first flop may take the old or the new value, gives
the ratio-independent handshake; `OnBus` and `ResponseFollows` hang the payloads on it,
`AtRest` and `SyncsFollow` the resets.

**`JtagChainProofs`**: `ScansArrive` (`ScanInv`), `DebuggerIsServed` (`DebuggerServed`),
`ChainMeetsTheBridge` (`MeetsTheBridge`), for registers of any width in the walks and of at least
24 bits with the debugger and the benches (`BenchAssumption`; 32 in the code), any words,
addresses and transactions. Walks: `AfterOnes` is where the last so many ones can have led, and
during a data scan the last `count` bits of the register are those of the history (`WalkInv`).
Debugger: the TAP is where the edge of the scan says (`TapAt`), `Entered` is what has been shifted in
of the code or the word, and `Seen` is the word that was captured, in part in the hands of the
debugger and in part still in `dr_shift`; a shift moves the boundary by a bit and leaves both
unchanged (`EnterOne`, `SeenOne`). `Settled` says that nothing is asked of the bridge and nothing
owed by it. A poll whose captured BUSY is 0 was captured settled (`Captures`), and settled the chain
stays until the next START (`TckStays`, `ClkStays`), which `Stays` takes from the invariants of
`JtagResetProofs`, instanced here. `AskedInv` and `AnsweredInv` then follow the transaction to the bus
and its answer into `data_reg`. The result is dropped only when RW has been shifted away before BUSY
has been seen to fall (`OnTime`): the debugger keeps RW, and for the benches `FastInv` and `SlowInv`
add up the edges to come: at most five of `clk` to the answer (`ClkLeft`), three of `tck` to the
DTM (`TckLeft`), 29 edges of `tck` from the START at five per edge of `clk`. `MemoryInv` is what the
slave holds meanwhile.

**`DmaEngineProofs`**: `EngineAgrees`, and `EngineAndMemoryAgree` for the engine under software or
under the benches (`AgreeInv`). `UnitInv` holds of engine, registers and chain whoever drives
the memory: the state of the engine tells which of its handshake outputs are up, where the chain
is and what BUSY and DONE show (`Phases`). With the memory to itself, `WriteStep` and `ReadStep`
put the two machines of a port in step, beat by beat. `EngineIsCopy` and `EngineIsCopyInSoc` are
the refinement of `DmaCopy`: `SourceRead` says that what has been taken of a block is what stands
in the memory, and the block is written in one step of `DmaCopy`, on its last beat.
Benches: `DmaBenchesPass` (`BenchInv`), for a memory of any size, bursts of at least 2 words that fit
it, a loop long enough to collect one (`Beats <= 10 * SpinLimit`; 4 and 50 in the code) and
operations of any number of blocks that LEN can state, on any regions. The limit of 5000 polls is
not part of the model; that DONE comes at all is `EveryStartInterrupts`. `InMemory` is the
part of a write burst that is in the memory, `Collecting` the part of a read burst that the helper
has, `Waits` why an address loop runs to its limit behind the multiplexer and not at all without it,
`NotTaken` that BVALID stands from the burst that stored the source to the first of the engine.
During an operation `InRun` says that the memory seen by `DmaCopy`, its IV and its next addresses
are those the bench knows by heart after as many blocks: every edge is a step of `DmaCopy`
(`EdgeSees`), and each `DoBlock` is the next block of the bench (`BlockCopies`). The recursion over the
blocks (`Known`) needs no induction over data: that there is one function so far, and that all such
end in the same memory, is part of the invariant (`KnownIs`), and a block more extends it.

**`DevicesProofs`**. Timer: `TimerTypeCorrect`, `InterruptsOnTime`, `NoHiddenExpiry`,
`PulseIsOneCycle`, `TimerModelOfTheTestbench`. The counter plus the edges run is the value
loaded (`CountsDown`), and an interrupt comes with a reload (`PulseReloads`). Watchdog:
`WatchdogTypeCorrect`, `ResetExactlyWhenStarved`, `WarningInTime`, `NoHiddenWarning`,
`OneWarning`, `WatchdogModelOfTheTestbench`. The counter is the time left (`TimeLeft`), and
the warning has come exactly if less than the margin is left of a timeout that had it
(`InterruptedWhenDue`). `OneWarning` assumes WARN_MARGIN # 0; with 0 the code repeats the
warning on every edge once the count has stopped at 0.
UART: `OnlyWholeFrames` (`ArrivesIntact`), `PollingLosesNothing` (`NothingDropped`), for frames and
bit periods of any length. `BitNo` is the bit being sent; the line shows the one before
(`OnLine`), the receiver's next sample falls half a bit into its own (`InPhase`), what it has is
what was sent (`Sampled`), and while it hunts no frame is under way (`Hunts`), so that the byte
owed is the byte in `tx_shift` until the stop bit is in (`Owed`). `BitFits` is assumed:
CLKS_PER_BIT at most 2^CntWidth, without which a bit never ends; for `NothingDropped` also
MinGap # 0, as the property says.
SPI: the slave of the testbench sees every line an edge of clk late (`SpiBehind`: after an
edge of SCLK it has counted one edge less, otherwise as many), and after e edges each shift
register holds what CPHA says it has shifted out and in (`SpiExchange`). I2C: half a period is
settled one edge of clk after the master has moved, so there are two tables of what the
slave is at for each state, half and bit of the master, once it has followed (`I2cSettled`) and
just before (`I2cLagging`); the line is a function of the same state (`I2cLine`), and
`I2cProgress` says what an ACK or NACK received so far means. From these, for bytes of any
length, all modes, any address and any writes in between: `DevicesKeepTheirState`
(`DevicesInv`), `BytesCrossTheLines` (`BytesCross`), `LinesAreProper` (`LinesKeepProtocol`).
They assume `DevicesFit`: what the UART needs, as above; WARN_MARGIN # 0; and dividers of at least
2, because with 1 the slaves of the testbenches, which sample the lines with clk, cannot
answer in time: with `SpiDividers = {1}` TLC refutes `LinesKeepProtocol`, with
`I2cDividers = {1}` `BytesCross`. (The masters accept 1; what they then do with a faster slave
is not modelled.)
Firmware (`SocIrq`): `FirmwareInvariant`, `NoPulseLostOrDoubled`, for every period, timeout, margin,
number of interrupts and stall. `ClaimIn` bounds the edges until a pending timer interrupt
is claimed by what is left of the handler at its slowest; `Served` says that with
`Unhurried` this is less than what is left of the period, so that no pulse finds its predecessor
pending, and `OnceEach` counts: pulses seen plus the one on the line, pending or claimed. `KickIn`
bounds the edges to the next kick in the same way, and `Fed` keeps it below the watchdog's
count by the warning margin until main has its interrupts; `Over` and `Reported` say that the
timer is then stopped before it pulses again, so the report is exact. What does not need
`Unhurried` (types, the stack of mode bits, the return to main) is proved without it.

Assumptions are those of the modules (`BridgeAssumption`, `TimerAssumption` and so on: types
of the constants, and that `None` is not a payload). Some of them say what a reader takes for
granted: that a width or a number of interrupts is at least 1 (`LenBits`, `TARGET_TIMER_IRQS`),
that the RAM is behind some address, one per word (`XbarRam`), that a power of two is a natural
number (for SPI and I2C: 4 or 8 at least).

Only model-checked:
* All liveness, which is beyond the prover, and what recursive functions over data compute.
* `aes_core`: that the tables and layers are those of FIPS-197 (`MatchesFips197`), which is a
  computation over all bytes and the published answers.
* The benches of AES, which compare with published answers.

## 5. What is not modelled

* The instruction set and pipeline of PicoRV32 (vendored): a program step stands for one
  or a few instructions; pipeline stalls are `MaxStall`.
* The contents of the boot ROM. (Bytes are merged by strobe in `XbarBench` and `DmaBench`;
  elsewhere the strobe is part of the payload.)
* Of the benches: the fixed sequences of the UART, SPI and I2C benches, which are among what
  the software of `Uart`, `SpiMaster` and `I2cMaster` may do, START while busy and TXDATA
  changed during a transfer included; the boot phase of the system bench (`SocIrq` models the
  firmware it waits for); calls that only toggle bits for coverage; and printing.
* Bus reads and responses of the small peripherals: their registers do not change by
  being read.
* A UART, SPI or I2C line that misbehaves; I2C clock stretching and arbitration, which the
  code does not have either.
* Build, lint, simulation and report tools.

Behaviour of the code worth knowing when using it, seen while modelling. None contradicts a
run: where a property depends on it, the model or the property says so.

* Timer: RELOAD = 0 expires on every edge and holds the line up, where the header promises a
  pulse. Watchdog: a TIMEOUT shorter than WARN_MARGIN asks for a reset unwarned.
* UART: TX_BUSY rises a cycle after a write is accepted, and a second write in between is
  dropped. `clk_cnt` has eight bits, so CLKS_PER_BIT above 256 never ends a bit.
* SPI, I2C: `div_cnt` is compared for equality; lowering DIVIDER during a transfer makes the
  counter run through 2^32. With DIVIDER = 1 the testbench's SPI slave cannot follow.
* DMA: BRESP and RRESP are ignored; LEN = 0 copies 2^32 blocks. KEY is read per block, so a
  KEY written during an operation takes effect at the next block (`DmaCopy` says so).
* AES peripheral: START and LOAD_IV in one CTRL write begin the block with the IV as it was
  and end it with the one loaded, so the two belong in separate writes (`taken` is then `None`,
  and nothing is claimed of that block's result).
* JTAG: a transaction that the debugger starts while BUSY puts the two toggles out of step
  for good; RW is read when BUSY falls, so a poll that shifts in another RW drops the result
  of a read, as does a TAP reset during it. Resetting the chip while `tck` stands still, or
  for less than a period, can leave BUSY up until the next held reset. With coinciding edges
  the response data may follow BUSY by one edge of `tck`.
* Crossbar: the responses of the two halves reach the core's adapter without their codes;
  DECERR and SLVERR are visible only through the interrupt and the CSR window. `decode_addr`
  ignores address bits 27 to 16 (and 27 to 12 of RAM and ROM), so each page has many aliases.
* The benches: the multiplexer of the DMA test top shows the helpers READY and BVALID only
  while they ask, and they look before they clock, so every burst waits out its limit of 50
  clocks for the address, and BVALID still stands when the engine's first burst begins
  (harmless: `BenchInv`). `bfm_selftest_main.cpp` has the reset as `dut->rst` where the port of the
  slave is `resetn`. The system bench says that only JTAG drives the bus while it pokes
  (`soc_top/dv/sim_main.cpp:115-116`); the core keeps fetching its idle loop, and the crossbar
  sorts it out.
* `start.S:39-46` masks all interrupts because the core "keeps re-checking for pending irqs" in
  the handler. `irq_active` already keeps it from entering twice (`ReturnsToMain` holds in the
  stretch between the restored mask and `retirq`, too); and the lines are pulses.

## 6. Plan

Written in this order: crossbar and address map; AES from tables to peripheral; DMA; JTAG from
TAP to chain and reset; adapter; peripherals and their lines; interrupts and firmware; the
benches of timers, JTAG, AES, bus and DMA; proofs of both halves of the crossbar, adapter, AES
peripheral, JTAG bridge, timer and watchdog; proofs of the DMA engine, the firmware, the RAM
behind the crossbar, the UART, the SPI and the I2C master, the AES core, and of the three
refinements. Still open, most valuable first:

1. Models. Crossbar with adapter and bridge as its masters in one composition; AES and DMA
   interrupts in `SocIrq`; the boot phase of the system bench.
