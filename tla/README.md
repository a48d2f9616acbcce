# TLA+ models and proofs for parcore

parcore decodes Parquet column chunks on an FPGA. SystemVerilog modules under
`src/hardware/src/hdl` parse page headers, decompress pages, decode the RLE/bit-packed hybrid
encoding, look values up in a dictionary and align the result; the C++ library under
`src/software/parcore` feeds chunks to those decoders from several threads and puts a CPU
decoder behind the same interface. Python under `src/hardware/unit-tests/data` reads and writes the
page headers the hardware is tested with, and `src/tools/ila_generator` generates the debug probes of
the hardware. This directory holds specifications of the parts that carry the program's own control
logic, configurations that model-check them, and proofs.

Every definition is translated from the code, and `PROJECT.json` maps it to the lines it stands
for. A *slip* next to a definition (its comment begins with "Slip:") is the same definition with a
plausible bug; it is used by nothing in the specification and exists to see that a property notices.

## 1. Inventory

| Component | State | Operations | Correct when |
|---|---|---|---|
| **ColumnChunkDecoder** (`column_chunk_decoder.sv`) | FSM state, current page, values left, eight configuration registers with a valid bit each, what every stage between the multiplexers holds | take a chunk, take a page, drive the configurations, let each consumer take its own, move beats | each configuration reaches its consumer once and for its own page; the output of a chunk is its values under its type |
| **PageHeaderParser** (`page_header_parser.sv`, `varint_decoder.sv`) | buffer of `NUM_BYTES + 4`, Thrift state, page registers, remaining payload and values | refill, read or skip a field, announce a page, forward its payload | every page is announced once and its payload, no more and no less, is one transfer |
| **RunDecoder** (`run_decoder.sv`, `expand_*.sv`) | window of two databeats, data and header offsets, look-ahead header, order queue | read a header, unpack RLE or BPE runs, shift the window, move on to the next run | every value is unpacked from its own bytes, in order, and nothing unread is overwritten |
| **HybridPageDecoder** (`hybrid_page_decoder.sv`) | page state, 7-bit offsets, kept bit width, values left, whether `last` was seen | configure, skip levels, find the bit width, pipe, drain padding, dummy beat | bit width and first run are the bytes behind the levels; pages are kept apart; `last` only at the end of a group |
| **TypedNormalizeUntil** (`normalize_until.sv`) | count, gate, type register and FIFO, skid buffer | take a size and a type, pass that many values, pack | one type per transfer, in order; a chunk is one transfer |
| **StripLevels** (`strip_levels.sv`) | offset left, rotation, merge register | wait for a length, drop whole databeats, mask, rotate and merge | the levels are gone and nothing else |
| **Decompressor** (`decompressor.sv`, `vhsnunzip_wrapper.sv`) | two selectors, databeat being fed, reset counter, held beat | around or through vhsnunzip, reset between pages, move `last` to the last bytes | no page loses bytes to the reset of the one before; one `last` per page |
| **Chunk configuration registers** | bounded FIFO of configurations | write (host), take (hardware) | never written when full |
| **Host decoder and hardware readers** (`column_chunk_decoder.cpp`, `hardware_reader.cpp`, `file_reader.cpp`, `memory_reader.cpp`) | mutex, configured count, queue of output handles per reader, buffers | enqueue a chunk (configure, read file, transfer), fetch the next chunk | configuration, bytes and output handle are of one chunk; buffers outlive the transfers from them; each caller gets its own chunks |
| **HybridReader, MultiReader, Adaptor, CPUReader** | a queue per level, scheduling heap | enqueue, has next, get next | chunks come back in enqueueing order, under their own number of values and type; load is balanced |
| **Parquet page headers in Python** (`ttypes.py`, `strip_header.py`) | an object, the position in the transport, the call stack of `read()` | write, validate, read, skip | what is read is what was written, of whatever version; the position is the size of the header |
| **ILA generator** (`tools/ila_generator`) | files to parse, configurations found, probe files, the script | match a declaration, generate probes, write them | every bit of every marked signal is probed once; script and probe files agree |
| Metadata, Arrow conversion, `cpu::` baseline, vFPGA wiring, scripts, test harnesses | none that changes | – | not modelled (section 7) |

How they interact. A thread of the host takes the mutex of a decoder through a handle, writes a
configuration, and starts DMA transfers of the chunk's bytes. The hardware takes configurations
and bytes from separate queues. PageHeaderParser and the FSM of ColumnChunkDecoder each get a
copy of the configuration; the parser announces pages (`page_conf`) and sends payload beats, and
the FSM drives those of the eight configurations that the page needs. Every page goes through the
Decompressor, which has a way around; a multiplexer chooses between plain values (StripLevels) and values
looked up in the dictionary (HybridPageDecoder over RunDecoder, then TypedDictionary),
RewriteLast marks the last value, TypedNormalizeUntil packs values into databeats. The host gets the
result through an output handle taken when the chunk was enqueued.

What is hard here:

* *interleaving*: eight consumers take a page's configurations at eight different times; parser
  and FSM are apart by whole pages; host threads share a decoder;
* *stale or look-ahead state*: the header of the next run is read before its databeat may have
  come; `page_conf` is driven from registers that the next header overwrites; a kept bit width, a type
  register and a reset counter outlive the page or chunk they are about;
* *ordering*: four levels of queues in software, two decoding units of different speed in
  hardware;
* *numeric edges*: windows, buffers and rotations that shift by 1 to 64 bytes, levels that end at a
  databeat's edge, padding of bit-packed runs;
* *partial failure*: every `enqueue_column_chunk` changes state before a call that may throw; a
  nested `write()` raises with half of the message out; a run of the ILA generator raises between files;
* *versions*: a reader of headers meets fields it does not know or knows under another type;
* *liveness*: everything in the decoder waits on everything else through ready/valid.

`PROJECT.json` lists each hazard at its line with the properties that watch it.

## 2. Modules

| Module | Models | Builds on |
|---|---|---|
| `ColumnChunkDecoder` | FSM, configuration channels, multiplexers and the stages between them | – |
| `ColumnChunkStream` | what the decoder promises: chunks in, their values out, typed, in order | – |
| `PageHeaderParser` | the parser, byte by byte | – |
| `PageStream` | what it promises: every page announced, its payload one transfer | – |
| `RunDecoder` | window, header look-ahead, FSM and both expanders | – |
| `HybridPageDecoder` | levels, bit width, piping and draining around the RunDecoder | – |
| `Decompressor`, `StripLevels`, `TypedNormalizeUntil` | one stage each of the way of a plain page | – |
| `PlainPath` | the three stages composed as `column_chunk_decoder.sv` connects them | instances of the three |
| `RunStream` | the promise of a decoder of databeats: the expected sequence, one at a time; `RunDecoder`, `HybridPageDecoder` and `PlainPath` each implement it for a sequence of their own | – |
| `HardwareReaders` | host threads, one decoder, configuration FIFO, transfers, buffers | – |
| `ReaderStack` | application over HybridReader, MultiReader, Adaptors, CPUReader | – |
| `ReaderInterface` | what `reader.hpp` promises of any reader; both of the above implement it | – |
| `ParquetTypes` | the table of fields of every class of `ttypes.py` | – |
| `ThriftWriter`, `ThriftReader` | `write()`, `validate()` and `read()` over that table | `ParquetTypes` |
| `CompactProtocol` | the bytes of a message (library, external) | – |
| `IlaMatching` | the matchers of the ILA generator, what they evaluate, the probes | – |
| `IlaGenerator` | its runs, over files that earlier runs left | `IlaMatching` |
| `ColumnChunkDecoderProofs`, `PageHeaderParserProofs`, `RunDecoderProofs`, `HybridPageDecoderProofs`, `PlainPathProofs`, `HardwareReadersProofs`, `ReaderStackProofs` | theorems (section 5) | the module, TLAPS |
| `ColumnChunkStreamProofs` | further theorems about `ColumnChunkDecoder` | `ColumnChunkDecoderProofs` |
| `MC...` | workloads and constants for TLC, and the refinement mappings | the module and its abstract specification |

Each detailed module of the decoder and the readers is shown to implement its abstract one: the
abstract specification is instantiated `WITH` a mapping of variables, and its `Spec` is a PROPERTY of a
run (`StreamSpec`, `ReaderSpec`). `ColumnChunkDecoder`, `RunDecoder`, `HybridPageDecoder`, `HardwareReaders` and `ReaderStack`
do so in the module itself, since these five refinements are also proved; the others in their `MC`
module. `RunStream` is told by each of them which databeat comes behind those already out.

### ColumnChunkDecoder

One action per FSM state and per consumer. A configuration channel is its valid bit and its
data (`conf`); `Consume` of a stage clears the bit as the code's `ready` does. The condition of
`ST_PROCESS_PAGE` (line 374) is written with the six channels the code tests, not eight.
Between the multiplexers a stage is what it holds and what it is configured for. Beats carry
their chunk, their page and how many values of the page come before them, so that a beat under a wrong
configuration, lost, doubled or out of order can be told. A page knows how many values its chunk has up to its
end (`upto`). Three assumptions describe what is decoded: `WellFormed` is what Parquet asks of a chunk (a
dictionary first, and one if a page is encoded with it; `num_values` is the sum over the data pages, below
2^32; a plain page has the databeats its values need); `SpanAssumption`, that a chunk behind another does not fit
the skid buffer behind a beat of that one, leaves out the disagreement of section 4; `WidthAssumption`,
that a value fits a databeat.

Stages outside `src/` (libstf, vhsnunzip) and those with a module of their own are
modelled by how the decoder uses them: select and configuration are held until the last beat of
a page; the skid buffer of TypedNormalizeUntil holds at least two beats; TypedDictionary swallows the
dummy beat (no values, `last`) that HybridPageDecoder ends a group with; DataNormalizer is a FIFO;
the duplicator of the chunk configuration does not buffer. Payload bytes are not modelled here,
sizes are.

### PageHeaderParser

Headers are what `ThriftWriter` writes for the page header objects of the tests, put in bytes by
`CompactProtocol`, and the buffer, a sequence of the valid bytes only, is read as the code reads it.
One action per state and branch. The output register is handshaken in a step of its own, so the
consumer may be arbitrarily late. `NUM_BYTES` is 8 in place of 64: what matters is that headers cross
databeats at every alignment. The branch `remaining_bytes == 0` of `PAYLOAD_FLUSH_BUF` is dead:
the state is entered only with bytes remaining.

### RunDecoder

A byte is its position in the page; the window is the pair of databeat numbers it shows. A step
is a clock edge with a handshake. Offsets, header offsets, look-ahead (`varint_in`) and every task
of the FSM (`update_offset`, `goto_decode_bpe`, `finish_rle`, ...) are there at their real sizes,
64 bytes and 16 elements. A select beyond the window reads zeros, as the code's shift does.
A header read from bytes that are none puts the model in `LOST`, which `TypeOK` excludes. The
output is *which bytes* each value was unpacked from; the bit extraction itself is data.
Queue depths are scaled (order 2, RLE 1, BPE 1).

### HybridPageDecoder

The FSM with its real sizes: databeats of 64 bytes, offsets of 7 bits (`Offset` wraps). The
RunDecoder behind it is only what `RunStream` promises: the databeats of a page's values in order, each
once the databeats it comes from have been taken, with as much read ahead as it likes up to the page's
last databeat, and a moment of its own (`RunDecoderDone`) from which it takes no more. A page is the databeats that come out,
each with the number of values up to it and how many databeats in it needs. The input is kept as how many databeats
of each page have been taken (`fetched`). Assumed of a page is that its first run begins in it and
where an `offset_t` reaches it (`RunInPage`; section 4 has the case beyond). The values left
therefore run out before, with or after the page's last databeat, in every order. `Pipe` is a clock edge:
a databeat in, one out, or both, since the code decides about draining by what happens in the same cycle
(line 197). `TakeConf` takes a databeat that is there or waits for it.

### Decompressor, StripLevels, TypedNormalizeUntil and PlainPath

`Decompressor`: one action per handshake. vhsnunzip gives the output beats of a page once it was fed, the
last after it was fed the last part, and may or may not follow with an empty beat (`ghost`, chosen per
page). The reset is what the code does: a counter of two cycles started by the last output beat, in which
the wrapper is neither fed nor read. `ReadyValidDuplicator` of libstf hands out a configuration when both
selectors are done with the one before; the header of the module says why this is the only reading under which
the code works.

`StripLevels`: lanes hold a byte of a page or nothing. Mask, rotation and merge act on lanes, so
that a byte that is lost, moved or left in is seen in the output. `NUM_BYTES` is 8 in place of 64.

`TypedNormalizeUntil`: an action is a clock edge, since its registers are set by what happens in the
same cycle. The type is taken from the databeat at the input when the count is zero, as `size.ready`
demands; `fifo_typ` is cleared only while something is counted. DataNormalizer is the packing it does and
a queue of `PipeDepth`.

`PlainPath` interleaves the three over shared queues. Chunks with dictionaries are `ColumnChunkDecoder`'s.
A workload has, besides what the stages are told, a `layout`: of each page its chunk, its values, the values of
the chunk up to its end and how many databeats come out of the first two stages before it. These running sums are
what `WellFormed` is stated with (the pages of a chunk are of one type and hold as many values as it has), and
what the proofs count by. As in `ColumnChunkDecoder`, a chunk behind another has more databeats than
the skid buffer takes before the chunk is configured: section 4 has the chunk that fits.

### HardwareReaders

Threads call `enqueue_column_chunk` and `get_next_column_chunk` of their own FileReader or
MemoryReader on one shared decoder. Acquiring the mutex, writing the configuration,
`get_chunk_data`, each transfer, releasing the handle, and each step of fetching are separate
actions, interleaved with the hardware taking configurations and bytes. `ReaderSpec` says of every thread
that it has a `ReaderInterface` of its own. The assertion of
`decode_column_chunk` that the configuration FIFO has room is a precondition on the caller:
the constants keep `|Readers| * Window` below `MaxConfigs` (assumption `HostSizes`). `FaultyNext`
adds `GetChunkDataFails`, the exceptions of `file_reader.cpp`. PreloadFileReader takes the
same path but never frees its buffers. The null-buffer (side-channel) input is not modelled.

### ReaderStack

A call by the application's thread runs through all levels without another thread seeing the
intermediate state, so one call is one action, with all its pushes and pops in order. Completions
on decoders and CPU threads are asynchronous. Costs are positive, as the setup factor of
`multi_reader.hpp` makes them. The application asks for a chunk only when `has_next` says there is
one.

### ParquetTypes, ThriftWriter, ThriftReader

`ttypes.py` has the same three methods for each of 55 classes, written out over the class's fields.
The model has the fields once, as a table (`ParquetTypes`), and each method once, over the table. A
message is the sequence of calls that `write()` makes to the protocol. `read()` recurses; its call stack is
a variable and a step is one turn of its loop or one call to the protocol, so that a message may end, or be
something else, at any of them. The table is a parameter of the writer: newer versions of the format (fields
added in the middle, nested structs of unknown classes, a field whose type changed) and an older one
write messages which `read()` meets with the table of this version. A field of unknown id or of another
type is skipped, by a recursion of the library. Two classes have defaults other than None (`New`).
`TBinaryProtocolAccelerated`'s fast path (`_fast_decode`) is the library's and is not taken with the
protocol `strip_header.py` uses.

### IlaMatching, IlaGenerator

A matcher is a record, matching one gives how many tokens it took, what its callbacks were called with
(also by matchers whose group failed later) and whether an exception ended it. `MatchGroup`'s test for the end
of the tokens comes before it looks whether the element is optional, as in the code. Expressions are
evaluated from what the callbacks gave, as `Expression` does: a nested expression is the left operand
wherever it stood. Tokens are what verible gives; its call and its JSON are external. A run of the generator
parses all files first, in an order the file system chooses, raises on a declaration it does not understand,
then empties the script and writes, file by file, the probe file and its part of the script. Sources are
edited between runs, and what an earlier run wrote stays. The declaration of probes as strings is abstracted to
name, indices, field and width.

## 3. Runs

| Run | Shows | Workload and bounds | States |
|---|---|---|---|
| `ccd_multi` | page configurations are consumed exactly once and for their own page; types meet their transfers; every dictionary is reset once, at the end of its chunk; the output is that of `ColumnChunkStream`; every chunk is delivered | pairs of chunks: dictionary then one or two hybrid pages, dictionary then hybrid then plain, plain alone, with padding and several input beats; two types of width 1 and 2, databeats of 2 bytes, the second chunk of more than one databeat | 64,025 |
| `php_pages` | every page announced, payload forwarded byte for byte, buffer within its size, registers stable while announced | one or two pages, second header at each alignment, CRC and statistics, two chunks in a row | 9,023 |
| `rd_runs` | every value from its own bytes and in order; window and offsets agree; every page decoded | two or three runs per page, headers at start, middle and end of a databeat, bit widths 1, 3, 8, 12, 19, two pages in a row | 95,276 |
| `hpd_pages` | bit width and first run are found; pages are kept apart; values and `last` are those of the pages; every page is decoded | levels of 0 to 123 bytes around one and two databeats, one to three output databeats, 0 to 2 databeats of padding; two pages of a group, groups with a dictionary reset between | 26,541 |
| `pp_plain` | the reset between pages loses nothing; types are queued once; every value comes out once, without levels, under its chunk's type | levels around one and two databeats of 8 bytes, raw and compressed pages with and without ghost, pairs of pages, two and three chunks of 1-, 4- and 8-byte values that fit a databeat each | 21,570 |
| `hwr_shared` | configuration, bytes and handle of a chunk stay together; buffers outlive transfers; FIFO never overrun; each thread gets its chunks | two threads, three chunks, window of two, two transfers per chunk | 9,940 |
| `rs_stack` | order, type and number of values of every chunk; heap whole and balanced; every chunk returned | two decoders, costs 1 and 3, four chunks | 4,950 |
| `thr_versions` | what is read is what was written; reading ends with the message; half a message is no object | all classes with the least, all, and one field more or less; four classes of a newer version, three of an older; a full page header cut after each call; a write that raised | 12,341 |
| `ila_probes` | script and probe files agree between runs, also after one that raised; every bit of every marked signal is probed once | two runs; 30 declarations of logic and AXI4SR with up to three dimensions and bounds that are expressions; one or two files, one or two marks in a file, an unmarked one between | 3,302 |
| `php_int64`, `rd_late`, `hwr_faulty` | the disagreements of section 4 | the smallest workload that has the case | – |

Why the bounds are enough. Two chunks are needed for one chunk to meet what another left; a
third adds no configuration or register that is not already overwritten by the second, except in
`pp_plain`, where a third chunk meets a type FIFO of two that is full. Two databeats
per transfer distinguish first, middle-and-last and only. In `HardwareReaders` three chunks through a
window of two make a buffer be freed while another is queued. Four chunks over two decoders fill a
decoder's queue past the other's cost. Parser, run decoder and level stages are deterministic but for
handshakes, so their workloads enumerate alignments in place of lengths: sizes are chosen to put
every field boundary on every offset of a databeat (parser), a header at, before and
beyond each half of the window (run decoder), and the end of the levels at, before and behind the end of a
first and a second databeat (hybrid and plain pages). `SizeMod` and `2^16`-like moduli are above every
size that occurs: the width of the counters is not what is checked in these runs. The reader of headers acts
on one field at a time and keeps nothing but its stack, so each class with one field more or less, at every
nesting that the classes have, is each case of its loop.

Fairness. Hardware stages are clocked every cycle, so weak fairness of every stage, or of the step of a
module whose stages never compete, is what a clock
gives; the sink is assumed to accept output eventually. In `HardwareReaders` threads and the hardware
have weak fairness and the acquisition of the mutex (`DecodeColumnChunk`, `FinishedDecoding`)
strong fairness: a `std::mutex` may in
principle starve a thread, and `EveryChunkReturned` is stated under the assumption that it does not.
In `ReaderStack` completions and the application's fetching are weakly fair; the application need not
enqueue. `ThriftReader` and `IlaGenerator` are sequential and have no liveness to state beyond
deadlock, which TLC checks for the first.

`CHECK_DEADLOCK FALSE` appears in `hwr_faulty`, where a thread can be left waiting for the
output of a chunk whose bytes went elsewhere, in `rd_late`, whose finding is that the decoder stops and
where the temporal property says so, and in `ila_probes`, where the last run of the generator ends.

## 4. Where code and documents disagree

Three of these are runs that TLC finds violated; `PROJECT.json` quotes the comment or test.

* **php_int64** (`page_header_parser.sv:255`): an `i64` field of value 0 (`null_count`) is taken for
  the end of a struct.
* **rd_late** (`run_decoder.sv:523`): the look-ahead header is not read again when an RLE value
  brought in its databeat, and the decoder waits for input that never comes.
* **hwr_faulty** (`hardware_reader.cpp:44`): `get_chunk_data` throws after the configuration was
  written; the next chunk of any thread is decoded under it.

The others were met in the same way and are left out of the passing runs by the definition named; a
run that includes them fails on the property named.

* `column_chunk_decoder.sv:374`: `ST_PROCESS_PAGE` waits for six configurations although its comment
  says all. A chunk that fits one databeat is accepted by the skid buffer of TypedNormalizeUntil
  while that is busy with the chunk before; the FSM returns to `ST_IDLE` and `num_values` is still waiting.
  Left out by `SpanAssumption` and `MultiBeatWorkloads`; `NumValuesConsumed`, which is proved under that
  assumption. (`hybrid_num_values`, the other one left out of the
  condition, is safe: proved.)
* `page_header_parser.sv:277`: `SKIP_VARINT` leaves in the cycle that only refills the buffer, without
  passing the last byte of the varint. Left out by `MisreadVarint`; `StreamSpec`.
* `page_header_parser.sv:298`: a page of `NUM_BYTES + 1` or `+ 2` bytes that is wholly in the buffer when
  its header ends becomes two transfers. Left out by `SplitPage`; `StreamSpec`.
* `page_header_parser.sv:157`: a last page of fewer than three bytes is waited for until more input comes.
  Left out by `ShortTail`; `EveryPageOut`.
* `run_decoder.sv:389`: a short bit-packed run over a databeat boundary leaves an offset of the wrong half,
  against the assertion in `update_offset` (283-287). Left out by `UnmovedHeader`; `WindowFollows`.
* `hybrid_page_decoder.sv:99`: with levels of more than 123 bytes the sum wraps in `offset_t`. Left out
  by `RunInPage`; `RunsFound`, which is proved for all levels up to there.
* `hybrid_reader.cpp:23`, `multi_reader.cpp:34`: a throwing enqueue leaves its choice in the queue, or its
  decoder out of the heap. `ReaderStack` has no enqueue that throws.
* `axi_ila_configuration.py:41`: `AXI4SR.s axis_host_recv,` is given as an example of what is parsed. It is
  refused: `MatchGroup` finds no token left before it learns that the array is optional. `Refused` has it,
  as a declaration the generator raises on.
* `matching.py`: dimensions other than the last are counted from 0 in place of their lower limit
  (`logic [3:1]` probes elements 0 to 2); `a - (b + c)` is evaluated as `(b + c) - a`, as both operands are made by
  `generate_left_recursive_expression`; an unpacked dimension behind the name of a logic is ignored; `/` gives
  a float; an empty dimension ends in a RecursionError. The declarations of `MCIlaGenerator` have
  `FromZero` dimensions where an index is written, and an expression in parentheses only on the left.
* `__main__.py`: a file that loses its last mark keeps its old `.probe.sv`, though the script has no
  ILA for it any more. `ScriptFitsProbes` is therefore about what the script names.

Parquet bit-packed runs of width 0 and RLE runs of no values are not generated.

## 5. Proofs

TLAPS checks these for all values of the constants that satisfy the named assumptions of the
modules (positive widths and depths; `num_values` of the parser's chunks a `data32_t` and databeats of four
bytes at least; databeats of more than four bytes and a first run within reach of an `offset_t` for
`HybridPageDecoder`; chunks as Parquet has them, `WellFormed` and `SpanAssumption`, for
`ColumnChunkDecoder`; chunks of whole plain pages, `WellFormed`, whole values in a databeat and no more
databeats in the pipeline than types in the FIFO, `PathSizes`, for `PlainPath`; decoders a finite non-empty set, costs positive integers; `|Readers| * Window` below
`MaxConfigs`). TLC evaluates each of them on the workloads of the runs.

**ColumnChunkDecoderProofs.** `TypeCorrect`: registers, channels and streams keep their types.
`PageConfsAlwaysConsumed`: whenever the FSM is between pages, no page configuration is left over,
`hybrid_num_values` included. The FSM does not wait for that one, so the statement is not
inductive. `PageConfsInv` adds `CountNeedsSelect` (while the count is valid, or RewriteLast has
values of it left, `out_select` of the same page is valid, and the FSM does wait for that one) and
`CountTakenOnce` (the count is not offered while RewriteLast is counting): out_select is freed by the
beat that RewriteLast marks as last, and by then the count has been taken. Each action is one step
of the proof.

In the same module, `AlwaysMeetTheirPage`: a beat at the demultiplexer is of the chunk the FSM works
on and of a page of the kind that it selected, for every workload, although the parser has its own copy of the
configuration and decides by itself when a chunk ends. The inductive invariant has two parts.
`ChunksInStep` relates the two chunk counts: while the FSM has pages of a chunk to come, the parser is in
that chunk (or about to take its configuration); when the FSM has the last page, the parser is at the end
of the chunk or in the next. `PagesInStep` says where the last beat of the FSM's page is: yet to come from
the parser, before the Decompressor, behind it, or gone, and what the other beats are in each
case. Only an FSM that is out of a page takes the next, which is the parser's, of the same chunk; only the last
beat frees `in_select`.

`AlwaysReset`: every dictionary gets its reset, once, from the last page of its own chunk and not before. A reset
is a beat with `last` on the hybrid path: it comes with a last hybrid page, or as the dummy beat of a chunk with a
dictionary that ends on a plain page. One too few leaves the dictionary in service, and the next chunk
cannot load its own; one too many takes a later chunk's dictionary away from its pages. What makes it hard is that
three parts know a piece each: the parser found the dictionary in a header, the FSM keeps that in `dict_seen` and may be
at the next chunk while the reset is still in HybridPageDecoder, and the next dictionary may be at the
demultiplexer by then. `SeenInv` ties `dict_seen` to the parser's page (`DictTaken`), and says that a dictionary page never is
the last one; `ResetInv` that the reset is in one of its three places exactly while the dictionary is owed it;
`DictOwed` that a chunk with `dict_seen` and pages to come has its own dictionary in service once it is loaded.

**ColumnChunkStreamProofs.** `ImplementsStream`: the decoder implements `ColumnChunkStream`. What the sink gets
is one transfer for each chunk, of its type, with the values of its data pages in order, each once,
looked up in its own dictionary, and closed by the last; for every workload, width and depth. The invariant
(`DeliveryInv`) has a layer for each part of the way, over what is already known of pages and configurations:

* `CountInv`: what the parser has left to count is what the pages it has not parsed hold, so that it
  sees the last page exactly when it is the last, and which page the FSM took last (`FsmPage`).
* `SourceInv`, `PlainInv`: the beats of a plain page follow each other from the parser to the multiplexer,
  without a gap, and the last one ends at the page's last value.
* `HybridInv`: conservation. What TypedRewriteLast has still to count is what waits in the configuration,
  in HybridPageDecoder, as indices, and looked up. `DictInv`: the dictionary served is the chunk's, until
  the `last` that unloads it, which is in exactly one of four places.
* `SkidInv`, `GateInv`, `PipeInv`: from the multiplexer to the sink there is a chain of *places* (a chunk, and
  how many of its values come before). The output ends where the pipe begins, the pipe where the gate
  is, the skid buffer goes from the gate to what has entered; `remaining` is the distance to the end of the chunk.

`AlwaysNumValuesConsumed`: the FSM does not wait for `num_values`, and returns to `ST_IDLE` with the chunk's
last beat gone from the multiplexer. While a beat of the chunk before is in the skid buffer, what is there of this chunk
came behind it, at most `SkidDepth - 1` beats; by `SpanAssumption` that is not the whole chunk, so the gate has
got to it, which takes its size. `AlwaysTypesMatchTransfers`: the queued types are those of the chunks
between the gate and the sink.

**PageHeaderParserProofs.** `TypeCorrect` and `ConfAlwaysHeld`: whatever bytes arrive, headers or not, in pages of
any size. The parser appends a whole databeat to a buffer with room for only four bytes more, and moves only two
bytes behind a full beat down when it flushes: `BufferRoom` and `BeatsShort` say that a refill finds less than
four bytes, and a header cycle leaves three at least, so that the payload is never flushed from an empty buffer
or a longer one. `InStruct`: `struct_depth` is not 0 while there are optional fields to come, also
while one of them is skipped, so it never goes below 0. `ConfState`: a page is announced only in the payload states,
which touch none of the registers that `page_conf` is driven by; the FSM leaves them once it was taken. A
header that is misread (section 4) thus gives wrong pages, but no register outside its range.
The beats come from `FlattenSeq`, which is recursive. `NatSetInduction` makes of the well-foundedness of `<` an
induction over a *set* of numbers, which the provers can take, and `FlattensExists` and `FlattenType` use it: there
is a function of that recursion for a sequence of any length, and what it puts together are bytes.

**RunDecoderProofs.** `HeadersAlwaysFound` and `WindowAlwaysFollows`: `TypeOK`, which says that no other bytes are ever
taken for a header, and `WindowFollows`. They hold for every sequence of pages that are `Decodable`: runs of any number
and length, headers of one to four bytes, any first byte, any padding behind the last BPE run, without the two kinds of page of section 4
(`LateHeader`, `UnmovedHeader`), and of indices of which 24 fit a databeat. The last is needed: while the last input of
a BPE run is waiting, the code tells from `offset` and `varint_offset` alone whether the header behind the run is in the first
or the second half of the window, which three times the bit width beyond a databeat makes ambiguous. `common.sv` wants
19 bits supported, which is 57 bytes of 64. These hypotheses (`MadeFor`) are of the theorems and not an ASSUME, since
`rd_late` runs the decoder outside of them. The inductive invariant `IInv` says, for the page and run that the decoder is in:

* `WindowInv`: the halves hold the databeats taken last (`Holds`, by how many are `Filled`), and `last_received` is
  whether these reach the end of the page.
* `HeaderInv`: `varint_offset` points at the header of the run (`AtHeader`), never more than three bytes into the second half, and
  what the varint decoder holds was read there and is as much of it as the window has got (`Given`).
* `RleInv`, `BpeInv`: `offset` points at what is left of the run (`BytesLeft`), `count` and the number of inputs are
  what that is. `varint_offset` points at the header behind the run only when the run fits one input or its whole inputs are
  used up; until then it is the header's place in *some* databeat, and valid bytes are there only for a run of one
  input and a group.

Each task of the FSM has a lemma (`GotoDecodeKeeps`, `FinishRleKeeps`, `FinishBpeKeeps`, `AdvanceBpeKeeps`, ...), where the arithmetic
of offsets modulo one and two databeats is done. The layout of a page is a sum over its runs; `Sums` is a recursive function,
and `SumsStep` and `SumsGrow` prove what is needed of it with `NatSetInduction`.

In the same module, `ImplementsRunStream`: for the same pages, what is put out are the databeats of their runs in order, each with its values
unpacked from where the page has them (`StreamSpec`). The place of the decoder in the stream is counted in databeats: `Decoding(d)` says that
`d` of them have been handed to the expanders when the FSM is where it is in a page and run (`offset`, `count` and the inputs left, which `RleInv` and `BpeInv`
tie to the page). Between that place and `Len(out)` are the order queue and the two expander queues, and no queue alone says what comes next:
`Planned` is that there are three functions of the entries of the order queue (the place each begins at, the item of each expander's queue
that it stands for) which agree with all three queues from end to end. An item of ExpandRLE is a row of databeats of the same value (`RleItem`), one of
ExpandBPE a single databeat (`BpeItem`). A task of the FSM appends to the plan (`RlePlanned`, `BpePlanned`), an output takes its first databeat
(`RleContinued`, `RleDone`, `BpeDone`), which is the one that `RunStream` has next.

**HybridPageDecoderProofs.** `TypeCorrect`, `AlwaysRunsFound`, `AlwaysPagesApart` and `ImplementsRunStream`, for every
length of the levels that an `offset_t` holds, every size of a databeat, every padding and every time
at which the RunDecoder gives its last value. The heart of the inductive invariant is `Located`: where the
byte behind the levels is, seen from the databeat at the input. There are four cases while the
configuration of the RunDecoder is pending (levels that end before, at, or behind the end of the first databeat
or at the end of the second) and two in `ST_CONSUME`; each step of the FSM turns one into
another, `offset_t` arithmetic included. `FetchedInOrder` and `SeenLast` say which databeats have been taken, so that
`seen_last` decides rightly between draining and not; `Told`, that `num_values` is what the
RunDecoder has not given; `OutAt`, how far the output is, from which each step either is the next
databeat of `RunStream` or leaves the output alone.

**HardwareReadersProofs.** `AlwaysInStep`: whatever transfer is next for the hardware, the configuration
it meets is that of its own chunk, and every output handle stands for the chunk that was configured
with it, for any number of threads, chunks and transfers per chunk. `InStep` speaks of the heads
of three queues only. The inductive invariant `IInv` says it of the whole of them: `TransfersInOrder` is
that there is a function from the queued transfers to the configurations that each will meet, which
starts with the first, moves on after the last transfer of a chunk and never goes back, and ends with the
chunk of the thread that holds the mutex, or, when nobody does, one past all configurations. That
a thread's own transfers belong there needs `MutexHeld`: a thread holds the mutex exactly from
`decode_column_chunk` to the end of `enqueue_column_chunk`; `AlwaysExcludes` is its consequence that no two
threads are in between. `BuffersHeld` counts the buffers of a reader. `TypeCorrect` comes out of the same
induction (`TypeOK` is not an invariant of a run; TLC has checked it on the same instance).

In the same module, `AlwaysBuffersAlive`: no transfer reads from a buffer that was freed. A buffer is
freed by the thread that got the last part of its chunk, so what is needed is that a chunk's last part is decoded from
its last bytes. `RowsInOrder`: the chunks a thread has tried are those returned, fetched, queued and
enqueued, in a row. `ConfigsDistinct`: no chunk is configured twice, and only while it is under way.
`PartsOwn`, `PartsWhole`, `TransfersCounted`: the parts at a handle are of its chunk, as many as the transfers that
were decoded; a chunk that the hardware is done with has all of them, one it has not come to has none.
`AlwaysConfigsCounted`: the count that the assertion of `decode_column_chunk` reads is the number of
chunks under way (`EnqueuedCounts`, a cardinality over all threads, changed by one per step); at most `Window` per
thread are under way, and the configurations in the FIFO are distinct ones among them. With `HostSizes` the FIFO is never
overrun. `ImplementsReaders`: every thread has a reader as `reader.hpp` promises it, its chunks whole, each
once and in its own order, though the decoder is shared.

**PlainPathProofs.** `AlwaysResetBetweenPages`: for all pages and depths, while vhsnunzip is being reset the
wrapper holds nothing of the next page, and what comes out of it is of the page of the selector. The
inductive invariant `IInv` says where the one page that is compressed can be: the selectors of demultiplexer and
multiplexer are out only for the page that is in the wrapper (`AroundOK`, `WrapperOK`), its last databeat is
in at most one of input, wrapper and output, and the reset is pending or running only when
that databeat has left (`PageOK`, `LastOK`). The other two stages leave all of it alone.

In the same module, `TypeCorrect` and `AlwaysTypesQueuedOnce`. The count of a chunk stays a natural number, and its type is
queued once, because it reaches zero with the last databeat of the chunk's last page and with no other: a
fact about how many bytes each stage lets through. The databeats between two stages are numbered. `Row(S, q, n)` says that
a queue holds the databeats `n + 1`, `n + 2`, ... of the set `S` of numbered databeats, and of each stage the
invariant (`InPlace`) says how many it has taken and given. `DecPlace(d)`: `d` databeats were taken from the
Decompressor, and what is in input, wrapper and buffers follows. `StripPlace(d, m)`: the offset that is left, the
rotation and every lane of the register are what `d` databeats leave of the page, when `m` have come out; each is the slice
of the page's bytes that it should be, which a merge takes on to the next (`NumberedPlains`). `NormPlace(m, g)`: of these `m`
databeats `g` passed the gate, and `remaining` is the size of the chunk less the values in them, so that it is zero
exactly at a chunk's end. `Types` then counts the types in register and FIFO against the databeats
with `last` in the pipeline and in the output. From one databeat to the next the sums of the `layout` are used, from page to
page `NatSetInduction`.

`ImplementsRunStream`: for all workloads and depths, what comes out of the plain path are the values of the chunks, in
order and without levels, packed without a gap over the ends of pages, each chunk under its own type and with
one `last`. `Streaming` strengthens the invariant by what TypedNormalizeUntil has of the stream. A position is a
chunk and how many of its databeats came before (`Position`), a chain of databeats leads from one position to another, and
the pipeline is a chain from the position of what is out (`OutPlace`) to that of what was made
(`Making`): from there, `packed` has the next bytes of the chunk, and the values that are not counted yet are exactly what
it has behind those. `PassBytes` is the step that matters: by `InPlace`, a databeat that passes the gate has the bytes
of its chunk behind `packed`, although the page that it is of began in the middle of a databeat. `CutsOn` and `CutsOff` say
what the DataNormalizer makes of them, at most two databeats, the second only at the end of a chunk, and `ChainAppend` adds
them to the chain. `TypesOwn` numbers the types in the FIFO by their chunks, so that the head of the FIFO is the type of the
databeat it leaves with. The stream is stated without recursion: byte `x` of a chunk is looked up in the page that holds it
(`ByteOf`), and that only one page does is `HoldsAlone`. TLC compares it with one that is put together from the pages
(`BeatsOf`, in `EveryChunkDelivered`).

**ReaderStackProofs.** `TypeCorrect` is `TypeOK /\ HandlesMatch`: the type of a returned chunk comes
from the head of an Adaptor's queue, which is defined only because that queue is as long as
the reader's output, and that is what `HandlesMatch` says. `HandlesAlwaysMatch`: a chunk comes back under
its own number of values and type whatever the order of completion. `HeapAlwaysWhole`: each
decoder is in the heap exactly once as long as nothing throws. `AlwaysBalanced`: no decoder is
charged more than one chunk beyond another; inductive because the top of the heap is minimal, so
that only a least-loaded decoder grows.

In the same module, `ImplementsReader`: the stack of readers implements `ReaderInterface`, for all
decoders, chunks and costs: the n-th chunk returned is that of the n-th call of enqueue, under its own type.
What is pending at the interface is the calls that were not answered, so the theorem is that every level
picks out the oldest of them. The invariant `InOrder` (`AlwaysInOrder`) says what each level has of them:
HybridReader one choice for each; CPUReader those chosen for software, oldest first; and there is a *plan*, the
chunks for hardware with their decoders, oldest first, of which MultiReader keeps the decoders
and each decoder's reader its own chunks. No queue in the code holds the plan, each has a projection of
it. A call of enqueue extends it, a call of next takes its first entry, decoders that finish leave it alone.

Only model-checked:

* all liveness and fairness (`Delivered`, `EveryPageOut`, `EveryPageDecoded`, `EveryChunkDelivered`,
  `EveryChunkReturned`), which together with ENABLED is out of this prover's reach;
* the refinement of `PageHeaderParser`: what is put out is compared with a
  sequence that is put together from all pages, by folds and recursive functions. `NatSetInduction` has been taken as far as sums
  (`SumsStep`), not to sequences of sequences;
* everything about `ThriftReader` and `IlaGenerator`. `ThriftWriter`, `CompactProtocol`, `IlaMatching` and the `MC`
  modules over them declare RECURSIVE operators, after the recursion of the code, which the prover
  does not take; the other modules declare none.

## 6. Plan

Done: the decoder core with proofs that it delivers its chunks; the parser with proofs about its registers;
the run decoder with proofs that it finds its runs and unpacks them in order; the hybrid page decoder
with proofs; the plain path with proofs; host readers and reader stack with proofs, refinements included;
page headers in Python; ILA generator. What is left:

1. `TypedNormalizeUntil` in place of the FIFO in `ColumnChunkDecoder`, once libstf's latencies are known.

## 7. Not modelled

* `metadata/`: parsing of a serialized summary into vectors that never change.
* `adaptor.cpp` conversion to Arrow, `cpu/cpu.cpp`: synchronous data conversion. Which number of
  values and type a conversion is given is modelled (`HandlesMatch`); what a chunk in several buffers
  turns into is listed as a hazard. An exception in a thread of `cpu_reader.cpp:53` ends the program.
* `vfpga_top.svh`: wiring of independent decoders.
* libstf, vhsnunzip, Coyote, the Thrift library, verible: not in the repository, modelled only as the
  code uses them.
* `NormalizeUntil` without types (`normalize_until.sv:1-93`): the same gate and count, used by none of
  the decoders modelled here.
* `ready_valid_ila_configuration.py`: nothing imports it. `process_runner.py` starts verible.
* `fit.py` of the scheduler calibration fits a curve to measurements; `broken.py` is a
  test harness that feeds three recorded chunks to the hardware.
* Packing of registers, profiling counters, scripts, examples and test harnesses.
