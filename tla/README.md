# A verification development of the CSF assignments

The repository holds five programs in C and C++. The largest one that runs
concurrently is the chat server of `csf_assign05`: it is the core of this
project and the first part modelled. The others are a multi-process merge sort
(`csf_assign04`), a cache simulator (`csf_assign03`), a 256-bit integer library
(`csf_assign01`) and a hex dump in C and assembly (`csf_assign02`).

## 1. Inventory

### The chat server (`csf_assign05`)

A client connects over TCP and speaks lines `tag:data\n`. A *sender* logs in,
joins rooms, broadcasts (`sendall`), leaves and quits; a *receiver* logs in,
joins one room and is then sent every broadcast of the room as a `delivery`.
The server starts one detached thread for each connection.

| Part | State | Operations | Interacts with |
|---|---|---|---|
| `MessageQueue` (`message_queue.cpp`, `guard.h`) | deque of `Message *`, mutex, semaphore | `enqueue`, `dequeue` (waits at most 1 s) | a broadcasting thread and the receiver's own thread share it |
| `Room` (`room.cpp`) | name, mutex, set of `User *` | `add_member`, `remove_member`, `broadcast_message` | `broadcast_message` calls `enqueue` of every member with the room's mutex held |
| `Server` (`server.cpp`) | mutex, map from name to `Room *`, listening socket | `listen`, `handle_client_requests`, `find_or_create_room` | every thread calls `find_or_create_room` |
| client threads (`server.cpp`: `worker`, `chat_with_sender`, `chat_with_receiver`) | the `User`, the request, the reply | login, the sender's loop, the receiver's loop | `Connection`, `Room`, `MessageQueue` |
| `Connection` (`connection.cpp`) | descriptor, read buffer, `m_last_result` | `connect`, `send`, `receive`, `is_open`, `close` | the `rio_` functions of `csapp.c` |
| `sender.cpp` | the number of the command, `loop_exit_case` | log in, read a line, send it, read one response | a user's input, its thread in the server |
| `receiver.cpp` | `sender` and `msg_text`, reused for each delivery | log in, join, print deliveries | its thread in the server |
| `csapp.c` | `rio_t`: a buffer of 8192 bytes | robust I/O and socket wrappers of the CS:APP textbook | vendored; the rest of it is never called |

Behaviours that are hard here: several threads inside one room and one queue;
a semaphore that is posted after the mutex is released; a timeout that races a
post; two nested mutexes; a receiver that joins or leaves while a broadcast
walks the set of members; a peer that stalls, closes or resets while the server
sends; descriptors and threads that are only released when a send fails. On a
connection: reads and writes that move part of what they are given, lines longer
than the buffer, an end of file in the middle of a line, and requests and
replies that are paired by their order alone.

What makes the parts correct:

- `MessageQueue`: one thread at a time touches the deque, `front()` is never
  called on an empty one, no message is lost or doubled, first in first out,
  both operations return.
- `Room` and `Server`: one `Room` for each name; the set of members does not
  change under a broadcast's iterator; a member is queued every message
  broadcast since it joined, once, in the order every other member sees; a
  thread that is gone is a member of nothing and is queued nothing; no broadcast
  waits for a client.
- client threads: every request is answered, an acknowledged broadcast reaches
  every confirmed member, a thread whose client has gone ends.
- `Connection`: the bytes stay in order however they are cut; a line is one
  message, or a piece of one that is too long, and fits the buffer.
- the clients: a response belongs to the last request, up to the first message that
  was cut off and whose rest is answered or is an answer; no client waits for its
  thread while the thread waits for it; an exit status tells its cause; what a
  receiver prints is what was said, by whom and in that order, or what was left over
  of it.

### The other programs

| Part | State | What is hard | What makes it correct |
|---|---|---|---|
| cache simulator (`csf_assign03`) | sets of blocks, a tag index for each set, counters, a clock | eviction order, dirty blocks, 32-bit counters | the tag index and the blocks agree; LRU and FIFO evict what they say; a dirty block is written back |
| `parsort.c` (`csf_assign04`) | one shared mapping, a tree of processes | children that die, a parent that fails while they run | live processes work on disjoint ranges; exit status 0 means a sorted permutation; no processes wait for each other in a circle |
| `uint256.c` (`csf_assign01`) | four 64-bit limbs | carries; digits that `strtoul` finds behind a limb's own | arithmetic modulo 2^256; a number and its string of digits stand for each other |
| hex dump (`csf_assign02`), in C, in assembly and mixed | a 16-byte buffer, an offset | short and failing reads, signs of bytes and counts | columns and text are those of the bytes read; an offset is where the line's bytes are |


## 2. Modules

    FifoQueue   <-- implements --  MessageQueue  <-- EXTENDS --  MCMessageQueue, MessageQueueProofs
        the queue is atomic in Rooms because of this
    RoomLog     <-- implements --  Rooms         <-- EXTENDS --  MCRooms, RoomsProofs
        a Room operation is atomic in ChatServer because of this
    RoomLog     <-- implements --  ChatServer    <-- EXTENDS --  MCChatServer, ChatServerProofs
        a line of ChatServer and Clients is what Framing makes of a message
                                   Framing       <-- EXTENDS --  MCFraming, FramingProofs
                                   Clients       <-- EXTENDS --  MCClients, ClientsProofs
                                   ParSort       <-- EXTENDS --  MCParSort, ParSortProofs
    CachePolicy <-- implements --  CacheSim      <-- EXTENDS --  MCCacheSim, CacheSimProofs
                                   UInt256       <-- EXTENDS --  MCUInt256, UInt256Proofs
                                   HexDump       <-- EXTENDS --  MCHexDump, UInt256Proofs

The chat server is modelled at three levels, each with the interleavings that
matter there. A level takes the one below as atomic, as the refinement one
level down allows. The four refinements (queue, rooms, threads, cache) are checked by runs
and their safety is proved (section 4). `Framing` is the bytes below all of this, and
`Clients` the programs at the other end of the connections.

Some definitions, such as `WaitUnchecked` or `RefillEarly`, each under a comment that starts
with "Mutant:", are plausible bugs. No specification uses them: with one of them in the place of the definition that comes after it, the
property it is meant for fails, which is how each property is known to say
something.

### MessageQueue and FifoQueue

`m_messages`, `m_avail` and `m_lock` are the deque, the semaphore's value and the
owner of the mutex. `pc` is the line a thread is at. A critical section is two
steps: `Guard` takes the mutex and notes in `view` the deque the thread sees, and
the access computes the new deque from `view` before `~Guard`. The model thus
does not make the section atomic by decree: without the mutex the second of two
threads undoes what the first one did. `sem_timedwait` is `SemTake` at once when
the count allows it, otherwise `SemBlock` and then either `SemTake` or
`SemTimeout`, also when a post has come in the meantime. `FifoQueue` has `Put` and
`Take` and nothing else.

| Actions | Code |
|---|---|
| `CallEnqueue`, `EnqueueLock`, `PushBack`, `SemPost` | `enqueue` (`message_queue.cpp:30-42`) |
| `CallDequeue`, `SemTake`, `SemBlock`, `SemTimeout`, `DequeueLock`, `PopFront` | `dequeue` (`message_queue.cpp:44-76`) |

### Rooms and RoomLog

The server's map and mutex, the `Room` objects with their mutexes and sets, the
`User`s with their queues, and the threads inside `find_or_create_room`,
`add_member`, `remove_member` and `broadcast_message`. `seen` is what a thread
found in the map when it took the mutex: `FindExisting` and `CreateRoom` decide on
that. A broadcast takes the members one at a time (`NextMember`, `EnqueueTo`) in
any order, as the set is ordered by address, and `sent` is what lies behind its
iterator. The receiver's sends are outside every mutex and have no fairness: a
client that does not read stalls its own thread only.

`log`, `start` and `got` are history: what was broadcast to a room, how much of it
came before a receiver joined, what a receiver was sent. They are the state of
`RoomLog`, in which a room is a log and a receiver reads on from where the log
ended when it entered, which is forgotten when it leaves (`entered`).

### ChatServer

The threads' control flow: `worker`, `chat_with_sender`, `chat_with_receiver`, the
accept loop, and of `Connection` what the loops depend on, `m_last_result` after
each call. A client is any program: it may write without waiting for replies,
write nonsense, and close at any point, with the rest of its lines unwritten. A
connection goes from `open` to `closed` when the client closes, to `doomed` when
the server has then written to it (which TCP answers with a reset) and to `reset`
when the reset has come; only then does a write fail. A Room operation is one
step. `Setups` gives the lines each client may write and the limits on
descriptors and threads the process runs under.

The threads implement `RoomLog` too: a receiver is in a room from its join's `add_member`
to the `remove_member` at its thread's end, and has got what was sent to it by
deliveries that succeeded. Where it entered the log is not kept but follows from the
rest: what it has got, is being sent and has queued is the log's end. `Nowhere` is the
room of the others.

A line is a record of its tag and argument. What `receive` does to tell them
apart is kept where it matters: tags it does not know make it return false with
`INVALID_MSG`, which is not the end of the connection, and the data of a line
still ends with the newline when `chat_with_receiver` compares it with `""`: a
nameless join is refused only if the client closed before the newline (`JoinCutOff`).

### Framing

One direction of a connection, byte by byte. `unwritten` is what `rio_writen` has
left, `net` the socket, `rio` what lies between `rio_bufptr` and the end of the
buffer, `buf` what `rio_readlineb` has collected for `receive`. Writes and refills
move any number of bytes; the writer may stop between any two of them (a failed
send, or a program that ends), and a read may fail.

| Actions | Code |
|---|---|
| `Send`, `Write`, `Close` | `Connection::send` (`connection.cpp:62-79`), `rio_writen` (`csapp.c:781-798`) |
| `Refill`, `ReadEof`, `ReadFails` | `rio_read` (`csapp.c:811-836`) |
| `TakeChar`, `Return`, `Parsed` | `rio_readlineb` (`csapp.c:877-899`), `Connection::receive` (`connection.cpp:81-109`) |

A tag is one character, and no tag is a newline (`message.h:27-37`). `Joined` puts
one after the other what a function makes of each message. `MaxLen` stands for 255 and `BufSize` for 8192: what counts
is which of a message's length, `MaxLen` and the pieces is longer. A `send` that
fails returns `FALSE` in the code after part of the message may have been written,
which is `Close` after some `Write`s.

### Clients

`sender.cpp` and `receiver.cpp` as the sequences of steps between their reads and
writes, with the threads that serve them: `s_pc` and `r_pc` are where the programs
are, `s_thread` and `r_thread` what the server does with their connections. A line
on a connection is what `receive` returns there. As `Framing` shows, a message of more
than 254 characters arrives in several: the first has its tag, and each of the rest is
whatever the text says there, which `Users` and `Said` leave open. A rest may be
rejected by `receive`, or be any message: from a sender a join, a text, a leave or a
quit that nobody typed, to a sender an answer, to a receiver a delivery. This is so of
every message that can be too long:

| Message | Its lines |
|---|---|
| what a user types (`sender.cpp:53-99`) | `line` and `rest` of the command |
| login of either client, join of the receiver | the login and `rest` of the `Name`; the join and `join_rest` |
| `"Logged in as "` and the name (`server.cpp:195`), at most 263 characters | ok and, from 238 characters of name on, `reply_rest`: a line of at most ten characters, which has some tag or none |
| a delivery (`room.cpp:48`) | `Delivery` and `rest` of the text |

The sender takes a line that `receive` rejects as it takes ok and err: the connection
is open, so the loop goes on (`sender.cpp:115-126`). What `Show` finds in a delivery's first
line is its `shows`: the text whole, up to a colon or cut off, a piece of a name with a
colon, or, when the name or the room fills the line, no text or no name: then what
`getline` left in `msg_text` and `sender` is printed. `here` is the test of
`receiver.cpp:96`, that the line's first part is `room_name`; `plain` says that this holds
of the deliveries of the receiver's room, whose name then has no colon and fits.
`"/join "` with a blank is a join to `"none"`: it is confirmed, and the user is in no room.

A user is a record of `Users`: what it types, its name, and the empty text that the
sender says after the end of its input, which may come after any line. `of` and
`nth` are history: the number of the message a line comes from, and of the line in
it; no guard reads them except the bound `MaxOthers`. Other senders in the room are
the action `OtherSays`.

### ParSort

A process is its stack of `merge_sort` calls, its position, and its exit status
(`unused`, `live`, `zombie`, `reaped`). `Fork` starts the child on the left half and
the parent's own call on the right one; a call remembers its `child`; `Wait` is `waitpid` with the two tests
that follow it; the loop of `merge` is a function of its turns (`Turn`, `Merged`) and the merged elements are
copied back one assignment at a time. `qsort` makes any array that is sorted in the
range, has the range's elements and is the old one outside (`QSorted`).
`open`, `mmap`, `fork`, `waitpid` and `munmap` may fail, and a process may be killed
between any two steps, inside `qsort` with the range in any state. A process that
exits leaves its children running, as in the code.

### CacheSim and CachePolicy

Each set is its vector of blocks, its map from tags to positions and its
timestamp. Index and tag are taken out of an address bit by bit
(`CopyBits`): a shift distance counts modulo `Bits`, as what is compiled does it, and a
tag of no bits copies nothing. A full set evicts what `choose_evicted_block` finds, and every
counter wraps at `Word`. `Order` lists the valid blocks of a set by their times, which makes
the set a queue. `CachePolicy` has no blocks, times or bits: a set is a queue of tags in
the order of eviction, and an address belongs to a block by division. That the
first implements the second is what makes the numbers the simulator prints those
of LRU and FIFO.

### UInt256

The operations limb by limb, over `Limbs` limbs of `Bits` bits. A behaviour is one call.
Powers are functions (`Bit` of 2, `Weight` of a limb's base, `Place` of the radix), and so is
what a loop has computed after each turn (`Carries`, `Products`, `Number`).
The properties compare results with the integers and state, besides, exactly when
they differ (see section 6). The conversions work on digits of the radix `Radix`
(16 in the code). `tail` is what follows the 16 bytes of `temp` in its heap block: any
digits that an earlier string left there, the same for each limb of a call, as
the block is freed and allocated again in each turn of the loop.

### HexDump

One module for the three programs of the Makefile: `main` and `funcs` say in which
language each part is, and the few places where the assembly differs from the C
are tests of them: signed comparison of the index with the count, signed
comparison of a byte in `hex_write_string`, the index at which a failed read puts the
NUL. Numbers are formatted digit by digit, with `DigitPlace` for the powers of 16. A
line is its offset, its columns and its text, as codes of characters. A
program's writes are taken to succeed (the assembly counts on it: it uses what
`write` leaves in a register). `DumpInit`, `DumpSpec` and the like have names apart from those
of `UInt256`, as one module proves both.

## 3. Runs

`CHECK_DEADLOCK FALSE` stands in every configuration but that of `message_queue`:
clients stop sending, receivers wait for messages, programs end, and a call is
made once.

| Run | Question | Bounds, and why they are enough |
|---|---|---|
| `message_queue` | Are mutex, semaphore and deque in step, is the queue a FIFO, do both operations return? | Two producers, two consumers, three messages: every pair of operations overlaps, with the deque empty, with one element and with more. Theorems cover every number. |
| `rooms` | One Room per name, one order per room, nothing missed or doubled, nothing after leaving? | Two senders, two receivers, three names (the empty one among them), three Room addresses, two messages, two joins. There are as many Room addresses as names, so that a second Room for a name has where to go. Symmetric in senders, receivers, Room addresses and messages. |
| `rooms_live` | Do joins and broadcasts return while receivers stall? | One room, no symmetry. |
| `chat` | Do replies, acknowledgements, membership and deliveries agree? | Five scenarios of two or three clients; between them every request meets the user in and out of a room, every refusal happens, and two senders share a room. |
| `chat_live` | Is what is queued delivered, what the client has left given up, and are rooms with the threads around them still the logs of `RoomLog`? | Three scenarios, among them a receiver that joins before, between or after what a sender says and goes at any time, one that joins no room, and two descriptors and one thread for three clients. Theorems cover every number of receivers. |
| `framing` | Do bytes and messages arrive whole, in order and in lines that fit? | Two messages, any of six: shorter than a line of `MaxLen` - 1 = 4 characters, as long, and longer with a rest that is or is not a message; pieces of one to all bytes, a buffer of 3, so that a line spans refills and a refill spans lines. Theorems cover every length. |
| `clients` | Do replies, exit codes and what is printed mean what they seem to? | Twelve pairs of users. Between them they type every command in and out of a room, and texts, joins and names whose rests are rejected, obeyed (join, text, quit), answered or printed; a name's confirmation has a rest of each kind; one room has a name with a colon or one too long. One text of another sender, of each of the `Shows` that a name or a room can cause, with rests that are printed or not. The input may end and the server may exit anywhere. Four messages of the sender: a script, and in most of them an empty line after its end. Theorems cover every script, name and text. |
| `parsort` | Do processes stay apart, are failures reported, does success mean sorted, does anybody wait for ever? | Files of four elements of two values: the smallest in which the child itself forks and the elements repeat. Five processes: one more than a threshold of 1 needs. Two faults, so that a second one meets a tree that is already failing. Thresholds 0 and 1. |
| `cache` | Do map and blocks agree, is there a block to evict, are the numbers those of LRU and FIFO? | Five accesses to five addresses, which fill, reuse and evict in sets of up to three blocks; every policy; sizes that are refused; caches without blocks. One of the caches takes up every bit of an address, so that its tag has none. `Word` = 8192 keeps the counters from wrapping in five accesses. Theorems cover every cache. |
| `uint256` | Are the results exact, and when not? | Three limbs of two bits, every pair of numbers: carries run through a middle limb, and a lost one is visible in the last. Every string of up to seven binary digits, one more than fits, and up to two digits left in the heap. Theorems cover every width and number of limbs and digits. |
| `uint256_sum` | Violation: see section 6. | As above. |
| `hexdump` | Are columns, text and offset those of the bytes read? | Lines of two bytes: any byte alone, and pairs of the bytes at the bounds of each conversion and of a signed char, after buffers with any remains. Offsets of one digit, which go round after eight lines. |

**Fairness.** `MessageQueue`: weak fairness of each thread's operation, since the
scheduler runs every thread, `sem_timedwait` returns by its timeout, and the
receiver's loop calls `dequeue` again; the number of messages is finite, so a
thread that waits for a mutex cannot be overtaken for ever. `Rooms`: the same for
threads inside the component, for a finite number of commands, and none for
commands, replies and deliveries, which depend on clients. `ChatServer`: threads
and the accept loop run, and data for a closed socket is answered with a reset;
sends end, that is, clients read. No client has to close or write. `Framing`: what
`rio_writen` has left is taken up in the end, and a reader that has something to
read, be it the end of the file, reads it; nothing makes a program send or close,
and no read has to fail. `Clients`: each program and each thread runs when it can;
a user need not type, the server need not exit, and a reset need not overtake a line. `ParSort`: each live process is
scheduled; no call has to fail. `OperationsReturn` and `NobodyIsStuck` would not
follow from weak fairness for an endless stream of commands: pthread mutexes
promise no order.

## 4. Proofs

| Module | Theorem | Property | Assumptions beside the types of the constants |
|---|---|---|---|
| `MessageQueueProofs` | `TypeCorrect`, `OneThreadInside`, `SemaphoreAccounts`, `FrontDefined` | the types, `MutualExclusion`, `SemaphoreCountsMessages`, `FrontIsDefined` | finite disjoint sets of producers and consumers |
| | `QueueIsFifo` | safety part of `ImplementsFifo` | |
| `RoomsProofs` | `TypeCorrect`, `OneRoomPerName`, `IteratorStaysValid`, `MembersExact`, `NothingAfterLeaving`, `NothingLost` | the types, `UniqueRoom`, `IteratorValid`, `MembersAreServed`, `GoneGetsNothing`, `NothingMissedOrDoubled` | senders and receivers disjoint, null values not values |
| | `RoomsAreLogs` | `ImplementsRoomLog` | |
| `ChatServerProofs` | `TypeCorrect`, `MembersExact`, `ConfirmedGetsAll`, `OneReplyPerLine`, `AcksAreTrue` | the types, `MembersAreThreads`, `ConfirmedMissesNothing`, `AnsweredOnce`, `AckedWasBroadcast` | none |
| | `ThreadsAreLogs` | `ImplementsRoomLog` | `Nowhere` is not a room |
| `FramingProofs` | `TypeCorrect`, `BytesStayInOrder`, `LineAlwaysFits`, `LinesAreThePieces` | the types, `StreamInOrder`, `LineFitsBuffer`, `LinesArePieces` | `MAX_LEN` above 1; no newline in a message's data or tag |
| `ClientsProofs` | `TypeCorrect`, `InStep`, `NobodyWaits`, `StatusIsTrue`, `PrintedAsSaid` | the types, `RepliesInStep`, `NoMutualWait`, `StatusTellsWhy`, `ShownAsSaid` | none |
| `ParSortProofs` | `Invariant`, `NoCommonElement`, `HonestExit`, `SortedAtZero`, `NeverStuck` | the types and the nesting of calls, `WorkersDisjoint`, `ExitIsHonest`, `ExitZeroMeansSorted`, `SomebodyGoesOn` | none: any file, threshold, number of processes and of faults |
| `CacheSimProofs` | `MapAgrees` | `IndexMatchesBlocks` | none |
| | `VictimExists` | `VictimIsDefined` | fewer accesses than a time can count (`MaxAccesses < Word`) |
| | `BlocksAreQueues` | `ImplementsPolicy` | `NoOverflow`: no counter wraps, and a cache's offset and index fit in an address |
| `UInt256Proofs` | `CarryFoundExactly`, `SumIsExact`, `OthersAreExact` | `AddIsExact`, `DerivedAreExact` | any number of limbs of any width |
| | `StringsAreNumbers` | `HexIsExact` | a limb has as many values as `LimbDigits` digits |
| | `DumpIsAlwaysRight`, `OffsetsArePositions` | `DumpIsRight`, `OffsetIsPosition` (of `HexDump`) | lines of at least one byte, which `Chunks` and `Junk` are about (`HexDumpAssumption`) |

`MutualExclusion` and `LineFitsBuffer` are proved and in no run: what they guard
against breaks `ImplementsFifo` and `LinesArePieces`, which the runs check. The theorems are
about the specifications of the runs: what a run shows of a small
instance they show for every value of the constants, the bounds included. Where a
theorem has a hypothesis, the run's constants satisfy it.

**MessageQueue.** The invariant is `TypeOK`, the semaphore's equation
`SemaphoreCountsMessages`, `SectionOwned` (a thread between `Guard` and `~Guard` owns the
mutex and its view is the current deque) and `ArgumentHeld`. The equation is not
inductive alone: a pop is known to shorten the deque by one only if what the
consumer read is still the deque, which is what the mutex is for. `FrontIsDefined`
then follows from the equation: a consumer that was let through is counted, so
the deque is not empty. `QueueIsFifo` maps each step to a `Put`, a `Take` or a stutter.

**Rooms.** The invariant says what each mutex protects. `Finding`: what a thread
found in the map is so until it inserts. `Registered` and `Pointers`: names and Rooms
belong together, and a pointer a thread holds is the registered one; this needs
that nothing is ever removed from the map. `Owned`: a thread inside a Room's
method holds its mutex; so while a broadcast stands at a member nobody joins or
leaves, which gives `IteratorValid`. `MembersAreServed` is carried along, and a
broadcast's iterator being a member makes `GoneGetsNothing` an action property of
the same invariant. `NothingMissedOrDoubled` counts on more (`OInv`): nothing lies
behind the iterator of a broadcast that has not begun (`Behind`), a receiver that is
not in yet has been queued nothing (`Fresh`), and a log is never shorter than where
a receiver entered it (`Started`). As the mutex lets one broadcast run in a room, a
member is owed at most its one text (`OwedIsOne`), and each step either moves that
text from what is owed to what is queued or touches neither. With that, `LogStep`
maps each step to a step of `RoomLog` or a stutter.

**ChatServer.** `Talks` ties what a client has been told to where its thread is: nothing
before its login is answered, one reply more than the lines read in the sender's
loop, as many while a line is handled, the join's confirmation as a receiver's second
line. `Waiting` and `ConfirmedMissesNothing` say that what has been delivered, is being
delivered and is queued is the end of the room's log, also between `add_member` and the
reply to the join; a broadcast adds to both at once. A connection that was reset
swallows replies: what is said of their number is about connections that are open,
and it is part of the invariant that a reset one stays so. `AckedWasBroadcast` compares
the number of "Message sent!" with that of broadcasts, which differ by one exactly between a
broadcast and its reply (`ToldAt`); that a join of no room leads to no broadcast is
`log[NoName] = <<>>`.

For `ThreadsAreLogs` each step is looked at for its receiver and for everybody else's. A
broadcast of `ChatServer` adds to one log and to the queues of the room's members at once
(`BroadcastPublishes`), so that nobody's entry moves. A delivery that succeeds is the next
message of the log (`DeliverDelivers`, by `PendingIsNext`); one that fails loses its message with the
receiver, which is then on its way out. The hard case is a join whose reply failed:
its thread is in the room and nobody was told, but it never delivers anything, since
its loop ends at the first test (`LeftAt`, which makes `LInv` of the invariant).

**Framing.** `StreamInOrder` says that the bytes written are those in returned lines,
in `buf`, in the `rio_t` and in the socket, one after the other; it is inductive with
the types, since each step moves bytes from the front of one to the end of the
one before (`Cut`, `CutOne`, `Regroup`). `LineFitsBuffer` alone is not inductive: a full `buf`
would still accept a character. `RoomForOneMore` says what the loop's bound gives, that a
line in progress has room for a character and the terminator. For `LinesArePieces` the
invariant (`LInv`) places the reader in what was sent: the lines returned are those of
the first n messages and j pieces of the next, and `buf` is where the next one begins
(`InProgress`), until an end of file has broken a line off (`BrokenOff`); `AllWritten` says
that what was and will be written is what was sent, as far as it goes. A newline is the
last character of its message only, which is why a piece that ends with one ends a message.

**Clients.** For the sender (`SInv`): while it waits for a response, one is on its way or a
line that will be answered is (`AnswerComes`), and, unless such a line was cut off (`Cut`),
there is one such answer or line only and it is the last request's (`OneAnswer`).
`QuitTyped` and `EndTold` carry the reason of an exit. That only the rest of a confirmation
ends the sender with 7 is because every other answer is ok or err (`AnswersAre`). For the
receiver (`RInv`): it prints nothing before both replies are read (`RepliesFirst`), and a
reply it cannot use has a long name as its reason (`RepliesAre`, `JoinComes`); the lines on
the connection come in the order of what was said, first lines and rests, and without a gap if
the room's name is plain (`InOrder`, `Queued`), and so do those printed, of which name and
text are those of the line or, where it had none, of the one that set them last
(`SetTogether`, `ShownInOrder`). Last, each line said in the room for our sender is one it
sent, and those still on their way come after those said (`ToBeSaid`, `SaidInOrder`). Users'
scripts, names and texts are constants in these proofs, so that they hold for every one.

**ParSort.** Every process holds a region of the file, and the regions of those that hold
one are disjoint (`RegionsDisjoint`): a fork splits its parent's region, the wait for a
child that exited with 0 joins the two again, and the region of a process that failed
stays lost for ever. That is why orphans do no harm: nobody gets back what they work
on. The induction needs that the calls on a stack nest (`Nested`) and that a child's first
call is on the half its parent left to it (`LeftToChild`). `NeverSmall` is the
threshold of 0, `Reasons` and `Within` make exit codes honest. `Contents` says of each process that can
still succeed which part of its region is sorted already and that it has the elements of
the input; that a merge of two sorted halves is right (`MergeIsRight`) goes by
induction on the turns of its loop. `SomebodyGoesOn` is the safety part of `RootEnds`. Its
invariant, `Kinship`, says that a call's child is no other call's, so that the one `waitpid`
for it has not taken place yet. And a child's range is part of its parent's and shorter, so
that of the live processes the one with the shortest range does not wait for another
live one (`LeastGoesOn`).

**CacheSim.** `CInv` is what map, vector and configuration have to do with each other: the blocks
in use are the first ones, as many as the map has tags. `TInv` adds that the times of a
set's blocks lie before its timestamp, and that the timestamp has not run ahead of the
accesses; so it has not wrapped, and a full set has an oldest block. `GInv` adds that the blocks of
a set can be listed in the order of their times without ties, that only blocks in use are
dirty, and that counters are below `Word`. The list is the queue of the policy: a hit
moves a block to its end, a load appends one, an eviction takes the first. `AddressParts`
shows that the bits copied are quotient and remainder, which needs that offset and
index fit in the address (`FieldsFit`; see section 6).

**UInt256.** A number is the sum of its limbs' weights, built from prefix sums; after k limbs
the prefix of the result is that of the operands' sum less the carry, and one limb is
`CarryFoundExactly`. The first carry that is lost shows (`ExcessShows`), so that the sum is exact
only if none is. Shifts double, multiplication adds up the bits of its left factor (`BitsAddUp`). A
string is read from its end in pieces of `LimbDigits`; the pieces add up to its number
(`PiecesAddUp`), and a digit that is read behind a full piece always changes the limb (`TailChanges`).

**HexDump.** Its theorems stand in `UInt256Proofs`, because a line's offset and columns are digits
of a number as the strings there are, and their lemmas about quotients, remainders and
powers serve both. `DumpInv` relates the offset to the number of bytes read for as long as
every read was full (`OffsetsAgree`) and the buffer to the last read (`BufferIsRead`). What makes it
inductive is `TextRemains`: the loop turns bytes into text in the buffer it read them to, and
after a read that failed the assembly prints what is there once more, as the text of a
line without a byte.

Induction over numbers is done inside the proofs, through the least element of a set of
counterexamples (`LeastNat`, `SetInduction`), and what a recursive function is through the
existence of a function with its equations (`RecursionExists` and its like).

**Model-checked only.** Liveness (`OperationsReturn`, the fairness part of `ImplementsFifo`,
`NobodyIsStuck`, `QueuedIsDelivered`, `ClosedConnectionEnds`, `DeliveryEndsGoneReceiver`,
`StartedLineEnds`, `ClientsEnd`, `RootEnds`): fairness is a matter of what is enabled, which the prover
does not reason about. Of `RootEnds` it is proved that somebody can go on (`NeverStuck`), not that
the turns run out. `SumOfTwoValues` is false of the code, and the violation is what its run shows.

## 5. What is not modelled

- Memory. Messages, Users and Connections are never freed; that `new` fails is not
  modelled. The destructors of `MessageQueue` and `Room` never run, as nothing
  deletes a `User` or a `Room`.
- `Server::listen`, `server_main`, `open_listenfd` and `open_clientfd`, which run once
  before the first state; the parsing of command lines. The trim functions of
  `client_util.cpp` are never called.
- The functions of `csapp.c` that no program calls, which are most of it.
- `is_sorted`, the generators, the test framework and tests, the binaries under
  `reference/`, which have no source.
- In `Clients`, characters: a rest is any line, whether or not a text can be found with that
  rest at that place. A NUL byte in a line, behind which `receive` sees nothing
  (`std::string message(buf)`, `connection.cpp:96`). A line broken off by the end of its
  connection (`Framing` has it, and `ChatServer` where it matters), and a client that is
  killed from outside (`ChatServer`: `ClientClose`). Names with a newline are logins with a rest.
- In `CacheSim`, times near 2^32: after 2^32 accesses to one set the timestamp wraps
  and `choose_evicted_block` may find no block. `Word` is a constant so that this can
  be tried; the runs stay below, and the theorems that need it say so.
- No run has a cache with more sets and bytes than there are addresses. The model has
  them (a shift distance counts modulo `Bits`), `IndexMatchesBlocks` and `VictimIsDefined` are proved for
  them too, but `ImplementsPolicy` is false of them and `BlocksAreQueues` excludes them.

## 6. What the checks found

`uint256_add` loses a carry when two limbs are all ones and a carry comes in
(`uint256_sum` shows it). `AddIsExact` and `DerivedAreExact` say that this is the only way the
operations go wrong, and `SumIsExact` and `OthersAreExact` prove it for every width and
number of limbs.

Behaviours of the code the models contain and no property calls wrong:

- `Accept` of `csapp.c` exits the process when it fails, so the branch at
  `server.cpp:271-274` is dead and running out of descriptors ends the server. A
  thread that cannot be created leaves its descriptor open (283-287).
  `ClosedConnectionEnds` exempts both.
- `handle_error` reports a number of blocks that is no power of two and goes on
  (`cachefuncs.cpp:61-64`); with 0 blocks the first miss writes through an iterator
  that was never set. `VictimIsDefined` says that this is the only case.
- Nothing checks that sets times bytes of a block is at most 2^32: beyond that `readIndex` shifts
  1 by 32 or more (`cachefuncs.cpp:138`), which is undefined, and what is compiled takes bits
  from the address's low end again. Two blocks then share a set that should not, so
  the numbers are not those of the policy.
- A store that misses leaves its block clean in a write-back cache.
- A failing process of `parsort` leaves the children it forked running; they work on
  ranges of their own (`WorkersDisjoint`).
- A threshold of 0 makes `parsort` fork until it cannot (part of `ExitIsHonest`).
- A receiver whose client has gone is noticed only by a delivery. The comment at
  `server.cpp:139` says the loop ends when the connection closes, but `is_open`
  reports the last send or receive and the loop never reads.
  `ClosedConnectionEnds` exempts these, and `DeliveryEndsGoneReceiver` says that a delivery
  ends them.
- A line with an unknown tag gets no reply: the branch that would answer it
  (`server.cpp:93-98`) is inside `if (receive())`, and `receive` returns false for such a
  line. `AnsweredOnce` counts the others, and `NoMutualWait` shows that the repository's
  own sender never waits for the answer.
- A join that names no room is confirmed: the test against `""` (`server.cpp:114`) comes
  before the newline is cut off (125). Nobody is ever heard in the room it enters
  (`AckedWasBroadcast`).
- `message.h:8-12` allows 255 characters of message, and `receive` reads 254 at a time: the
  newline of the longest message becomes a line of its own, which `receive` rejects.
  `LinesArePieces` says what becomes of every length, and `Clients` what the programs do
  with the rests:
  - The server obeys a rest that begins with a tag, as if it had been typed: it may change
    the room, say something or end the connection, and it is answered, so that the sender takes
    each response for the one to its next message.
  - The confirmation of a login by a name of 238 characters or more arrives in two lines.
    The sender takes the second for the response to its first message, and is one behind from
    then on; if it happens to begin with the tag of another message, the sender ends with
    7. A receiver takes it for the reply to its join, and ends with 3 or 4 or, if it is ok, never
    looks at that reply.
  - `RepliesInStep` and `StatusTellsWhy` name these cases (`Cut`, `reply_rest`) and hold in all others.
  - The receiver prints the rest of a delivery that begins with `delivery:` and its room's
    name like a message (`ShownAsSaid` says that it stands after the delivery it was cut off from).
- The end of a connection within a line makes the line's beginning a message
  (`LinesArePieces`).
- At the end of its input the sender client says empty lines until its connection
  fails, and the line `/join` aborts it (`StatusTellsWhy`). `/join` with a blank and no name is
  confirmed, and the user is then in no room.
- The receiver prints a text up to its next colon, and beside a name that fills the
  line it prints the text of the delivery before (`ShownAsSaid`). If the sender's name has a colon, a
  piece of the name is printed for the text, and if the room's name has one or is too long for
  a line, nothing is printed.
- `uint256_create_from_hex` copies 16 digits into a block of 16 bytes without a
  terminator; a digit that an earlier string left behind them changes the value,
  and a string of more than 64 digits aborts the program (`HexIsExact` says for which
  numbers the result is nevertheless right, and `StringsAreNumbers` proves it).
- After a read that returned fewer than 16 bytes the offsets of the hex dump are
  ahead of the input (`OffsetIsPosition` ends there). After a read that failed the C
  program crashes, and the assembly one prints the text of the last line again and
  goes on (`DumpIsRight`).

## 7. Plan

Every program of the repository has its model, and every safety property of the runs its
theorem, but the one that is false. What is left:

1. The safety part of the progress properties of the server, as `SomebodyGoesOn` is for
   `parsort`: who can take a step while a thread waits for a mutex, a semaphore or a line.
2. The number of turns that a tree of `parsort` processes can take, which would bound
   `RootEnds` without fairness.
3. `Server::listen` and the set-up of sockets.

Runs are few by intention: a new property joins a run that asks a related question.
