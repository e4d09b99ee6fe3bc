# TLA+ models of the HMI-Board learning machine

The repository is the firmware of a children's learning machine on a Renesas RA6M3 HMI board
(RT-Thread, LVGL 8.3), together with the vendored RTOS, GUI library and vendor HAL. This directory
models the program's own logic: the application under `src/apps/` and the board drivers under
`src/mcu/ra6m3-hmi/board/` that carry it. `src/rtos/`, `src/components/packages/` (LVGL, lwIP,
wlan drivers), the FSP HAL, the generated SquareLine screens, fonts and images are third-party or
generated and only appear as the environment of the modelled code.

## 1. Inventory

Threads and their priorities (RT-Thread: smaller is more urgent): `wifi_thread` 10, player 18,
LVGL 20, `ai_chat` worker 20, `app` 25, `sd_mount` RT_THREAD_PRIORITY_MAX - 2, the shell, and the
interrupts. Threads of equal priority are time-sliced.

| component | state | operations | interacts with | what is hard | what makes it correct |
|---|---|---|---|---|---|
| AI chat (`app_ai_chat.c`) | `g_ai_busy`, `g_ai_prompt`, `g_ai_reply(_ready)`, `g_ai_sem`, runtime relay host | request, take reply, set relay host, worker loop with one HTTP exchange | AI screen (calls), relay store (file), WiFi status, relay server (TCP) | flag shared without the lock, reply/poll/next question races | one question at a time, one answer each, newest answer shown, relay in force |
| AI screen (`evetns_zhinengai.c`) | panels, output label, poll timer | send, save address, switch panel, poll | AI chat, relay store | label written after the worker was released | the text settles |
| PWM audio (`pwm_audio.c`) | byte ring, `is_give`, two semaphores, device status | init, set_param, write, start, stop, deinit, timer interrupt | player thread, GPT timer interrupt | lock-free ring, wake-up handshake, byte counts per format | FIFO, no lost byte, no lost wake-up, samples stay whole |
| Relay and settings files (`app_file_ini.c`, `minIni.c`, `dfs_file.c`, `dfs_elm.c`) | `/ai_relay.txt`, `data.ini` and its copy, `ai_relay.ini`; open descriptors | save, load | AI chat, WiFi, settings and AI screens | several files in priority order, truncation before write, remove before rename, power loss, readers during a save | what was reported saved is kept, and is what is loaded |
| WiFi link (`app_wifi.c`, `app.c`, `app_led.c`, settings screen) | connect-once flag, status copy, LED | status poll, first connect, LED, save credentials | wlan manager, `data.ini`, SD ready flag | connect-once flag raced by two threads; credentials polled while they are written | saved credentials lead to a connection attempt; WiFi starts once a card was ready |
| SD hot plug (`ports/mnt.c`, `mmcsd_core.c`, `block_dev.c`) | ready flag, mount, block device, card, two mailboxes | poll, mount, give up; probe, initialise, remove | app thread waits for the card | card changes while it is probed; a wait without a timeout; mount and unmount name different paths | ready flag, mount and device agree; a card is mounted, a pulled one given up |
| Games (`events_quweidonghua.c`) | snake, food, board, score, timer | timer step, buttons, gestures, switch, restart | LVGL timer, screens | timer paused off screen, board rules | snake in the field without overlap, score accounts for the tiles |
| Learning screens (`events_yuwenbaozang.c`, `events_yingyuqimeng.c`, `events_shuxueyunsuan.c`) | picture index and total, quiz state | next, previous, mode switch, answer | SD files, `data.ini` | index wrap, missing directories | index inside the set |
| Video player (`ports/avi/player/player.c`, `lv_demo_video.c`) | status, song list, current song, semaphore | play, stop, next, last, delete, decode loop | LVGL buttons, PWM audio, JPEG | commands overwritten while the thread opens a file | the file playing is the current one |
| Touch (`lv_port_indev.c`, `gt911.c`) | detect flag, interrupt mask, last report, last event | read callback, interrupt | LVGL, the controller over I2C | flag and mask changed in two steps against the interrupt; two transfers per read; failing transfers | the panel never goes dead, a held finger is one press |
| JPEG (`drv_jpeg.c`, `r_jpeg.c`) | decoder status, driver status, a semaphore that is never reset | decode a frame, codec interrupts | player thread | timeouts against late callbacks, stale tokens and status bits | every call returns; bands drawn and tokens left add up |
| Smart room (`apps/app_smart_room`) | lamp, air conditioner, OLED copy, UART queues | voice commands, OLED loop | UART, I2C, WiFi | copies compared before redraw | the display shows the state |
| ChatGPT voice app (`apps/app_baidu_chatgpt`) | WiFi and MQTT client state | start, stop, publish | MQTT broker | restart | |
| Relay server (`tools/ai_relay_server.py`) | none | one HTTP request | AI chat, model API | none (stateless) | |

## 2. Plan

Order: what is shared between threads or with an interrupt first, then what survives a reset,
then sequential rules.

1. `AiService`, `AiChat`: abstract service and the two threads behind it. *Done, proved.*
2. `ByteFifo`, `RingBuf`, `PwmAudio`: bounded queue, lock-free ring, driver around it. *Done, proved.*
3. `MiniIni`, `Settings`: the settings files with I/O failure, power loss and readers, up to the wifi
   thread's connection attempt. *Done, proved.* (They replace the planned `RelayStore` and `WifiLink`: the
   hard part of both is the file layer they share.)
4. `Player`: control calls against the decode loop and the audio calls it makes. *Done, proved.*
5. `SdMount`: hot plug threads, ready flag and mount. *Done, proved.*
6. `Touch`: read callback, interrupt and GT911 driver. *Done, proved.*
7. `Jpeg`: one frame against the codec's interrupts. *Done, proved.*
8. `Snake`, `Game2048`: game rules, the 2048 line compaction against a reference definition.
   *Done, proved.*
9. Left: two savers at once; the learning screens and the two demonstration
   applications.

## 3. Modules, state and actions

Conventions: a flag of the C code is 0 or 1; a `pc` variable says where a thread is inside a
function; a critical section under one mutex is one step, and every access to shared data outside
one is a step of its own. `\* history` variables are not in the code: they record what a property
needs (how many bytes were accepted, which reply was displayed) and guard nothing. Operators whose
comment starts with "Mutant of" are broken variants used to show that a property can fail.

**AiService** is what the chat promises: `Ask`, `Answer`, `Show`, one at a time.

**AiChat** has one variable per global of `app_ai_chat.c` and one `pc` per thread (`gpc`, `wpc`).
`SendCreate .. SendThinking` are the statements of `ai_chat_request_async` and its caller
`ai_send_event_cb` that touch shared state; `WorkerTake .. WorkerClear` those of the worker loop and
`ai_chat_http_post`. Questions are numbered, so that an answer tells which question it belongs to.
The exchange itself (resolve, connect, send, receive) is one step with one outcome per error text.
`stored` is the set of hosts the card's relay files hold; a load (`ScreenLoad`, `WorkerLoadHost`) gives any of
them or none (`Loads`), since the card may not be mounted yet or a file be in use, and which file answers is
the subject of `Settings`. A host is in force (`InForce`) if this session knows it, and while it knows none
if the card holds it or it is the default the code falls back to.

**ByteFifo** is a bounded queue from which several bytes are taken at once and which may be emptied.
**RingBuf** has the operations of the ring of `pwm_audio.c`: `rb_write_byte` is two steps (store,
publish), a read in the interrupt is one. **PwmAudio** composes them with `pwm_audio_write` (arm, wait,
measure, convert, loop), the interrupt `cb_timer2` (`Isr`) and the device calls. The audio data is its position in the stream; formats decide byte counts.

**Player** is `player_entry` and the buttons of `lv_demo_video.c`. `status`, `current`
(`song_current`) and `sem` (`sem_play`) are shared, unlocked. The player thread (18) preempts the
LVGL thread (20): a player action runs from one place where it blocks (`IdleTake`, `PausedTake`,
`OpenDone`, `OutputDone`, `ReadDone`, `ReadLast`) to the next, and a callback (`PressPause`,
`PressSkip`, then `SetStop .. SkipStatus`) is cut at each statement but runs only while the player is
blocked (`~PlayerReady`). Files are taken to be AVI files that open and parse.

**Snake** is the snake of `events_quweidonghua.c`: one variable per global, `g_snake` up to
`g_snake_len` as a sequence. All of it runs in the LVGL thread; what varies is the order of the
snake timer (`Tick`), LVGL's animation timer that makes a loaded screen active (`LoadStart`) and the
buttons. A click is a press and a release and so takes longer than the animation timer's period:
none is handled while a load is pending. `Enter` contains both switches the code makes, the one of
`screen_quweidonghua_pre_init` and the one of the menu entry.

**Game2048** is the other game of that file: `compress_line`, a move in each direction, the new tile
and the end test. `fours` is history: the fours that were spawned, which the score does not count. The rules
`compress_line` is compared with (`ByRules`, `Made`) are stated without its loops: in a run of equal tiles
every second one, counted from the front, is taken up by the one before it.

**MiniIni** is what `minIni.c` makes of a file's lines: where a key is found, what a save in place, a
copy and a new file contain. **Settings** puts it on the file layer. `disk` is what the card holds and
`fd` what each thread has open; every call on the file layer is a step (`PutOpen .. PutRename` of
`ini_puts`, `TxtOpen .. AltWrite` of `ini_save_ai_relay_info`, `LoadOpen`, `LoadRead`), fails or not, and
text reaches the card when its file is closed. `TxtWrite` (write and close of `/ai_relay.txt`) ends in one
of three ways: the text is on the card; the write succeeded and the close, whose result nobody looks at,
did not, so the save is reported and the file is empty; or nothing was written and the next file is tried.
A part of a text never reaches the card: these files are shorter than a sector, and FatFs `f_write`
(`ff.c`, lines 3950 to 4062) fails before it copies anything, for want of a cluster or with a card error,
while the size on the card changes only in `f_sync` (4071 to 4141), when the file is closed. `Opened`, `Alone` and `Truncated` are what
`dfs_elm_open` and `dfs_elm_close` do when a file is already open in another thread. `PowerLoss` starts
every thread anew on the card as it is. `kept` and `address` (history) are what the program last reported
saved and `due` the address a load should find as far as the files tell; `call.clean` says whether a reader
was in the way.

**SdMount** has the sd_mount thread of `mnt.c` (`Boot .. WaitOut`), the `mmcsd_detect` thread
(`DetectTake .. DetectRemove`), their two mailboxes, the app thread's start of WiFi (`AppStart`) and a hand
that inserts and pulls cards of four kinds at any moment. `card` tells a card in the slot from one that
was pulled since it was initialised.

**Touch** has the fingers and the controller (`PutDown`, `Slide`, `Lift`, `Report`) and the statements of
`touchpad_read` and `gt911_read_point` between which a report or an interrupt may fall
(`ReadNothing .. ReadEnable`). Each of the three transfers of a read may fail, the one that clears the status
register too, whose result the driver ignores. `Tracked` is the driver's comparison of two reports, with the points it
goes through beyond the one it read.

**Jpeg** is `JPEG_Draw_frame` cut where it meets what an interrupt changes, `R_JPEG_InputBufferSet` and
`R_JPEG_OutputBufferSet`, and the codec's interrupts (`SizeReady`, `BadData`, `InputPause`, `BandWritten`,
`TransferEnd`). Frames follow each other; the semaphore carries over. The picture is the number of bands
drawn. The two driver calls read `p_ctrl->status` in one step and store the changed one (`word`) in another
(`InputGo`, `OutputGo`), as `r_jpeg_status_change` does, so what an interrupt puts there in between is lost;
the several tests such a call makes before it are one step. A band and a used-up block may share an
interrupt, and the end of the transfer (DBTF, enabled next to DOUTLF) comes with the last band or as an
interrupt of its own after it; that it does not come before is a property of the codec the source does not
settle. `R_JPEG_DecodeImageSizeGet` cannot fail (Error 4), since `BSP_CFG_PARAM_CHECKING_ENABLE` is 0, and of
the errors of `r_jpeg_decode_line_number_get` an image of no lines is the only one: the stride is the
image's own width.

## 4. Runs

| run | question | bounds |
|---|---|---|
| `ai_chat` | Do flag, semaphore, worker and reply agree in every interleaving and implement `AiService`; does a request go to the relay in force although any load may fail; does every question settle and "Thinking..." end? | 2 hosts, 3 questions: a question can be overtaken and the relay replaced under a request; a fourth question meets the same states |
| `pwm_board` | The board's own pins and duty width: is the ring a FIFO (it implements `ByteFifo`), no byte lost, mono samples whole, a sleeping writer woken without its timeout? | ring 16, threshold 4 (the proportion `rb_create` asserts), 8 and 16 bit, mono and stereo, chunks of 18 bytes: larger than the ring and not a multiple of 4 |
| `pwm_stereo` | A comment of `pwm_audio.c` the code does not live up to | 16 bit, chunks of 6 and 20 bytes |
| `player` | Buttons at any moment the player is blocked: index in the list, audio calls in order, no command slept over, a resumed player goes on | 3 videos (next, last and both wraps differ), 2 tokens (a second release while one waits) |
| `player_current` | Is `song_current` the "Playing video"? | as `player` |
| `snake` | Every game: the snake a path, food and score right, the neck out of reach of any turns, no timer left running off screen | a field of 4 by 2, small enough to be filled, so that growth at `SNAKE_MAX_LEN` and food without a free cell happen |
| `game_2048` | Every game: score, end test; `compress_line` against the rules | a board of 2 by 2, on which every game ends; each board is also read as one line of four cells, the length the firmware uses |
| `settings` | Is what was reported saved kept and loaded, whatever fails or reads meanwhile, what else may a load find after a failure, and does the wifi thread get its credentials? | 2 saves, so that each kind follows the other and itself; 2 faults, shared by failing calls and power losses, so that a second fault meets the remains of the first; a card whose first save was cut short, so that a key is added between two sections, replaced in place and by a copy |
| `settings_halt` | Does the file layer's assertion hold when two threads use one file? | a new card, 1 save, no fault |
| `sd` | Do ready flag, mount and device agree, is a card mounted and a pulled one given up? | none: the hand may go on for ever |
| `touch` | Does the panel stay alive, is a held finger one press where it is, are touch and lift seen? | 2 places (a move differs from a hold), 2 fingers, 1 failing transfer |
| `jpeg` | Does every frame end, is the buffer handed over, do bands and tokens add up? | 3 bands (first, middle, last), frames of 1 or 2 blocks, semaphore up to 4: one more than a frame can leave |

The type invariants of the modules with proofs, and what a refinement checked by a run covers as the
user sees it (`ReplyIsLatest` by `ServiceSpec`; `RingHoldsUnread` and `ReadsInOrder` by `FifoSpec`), are proved
and not model-checked again; those of `Game2048` and `Settings` are conjuncts of `ScoreAccountsForTiles`
and `IniWellFormed`, and `JpegTypeOK` is an invariant of its run: that no band beyond the last is written
is not evident, since a late block of input may restart a codec that is done, or an old status replace its
"done".

`MaxRequests`, `MaxBytes`, `MaxSem`, `MaxTokens`, `MaxSaves` and `MaxFaults` are the only bounds: they
cap counters. In `PwmAudio` no new buffer is offered once `MaxBytes` bytes were accepted; the buffer
under way goes on past it. `MaxSem` and `MaxTokens` stand for `RT_SEM_VALUE_MAX` and a semaphore
saturates there as `rt_sem_release` does (it returns an error and leaves the value). Deadlock is not
checked in the settings runs: once the saves and faults are used up, the saver is idle and the wifi
thread connected or halted, the model rightly stops.

### Fairness

`AiChat`: a callback that has started goes on (weak fairness of `Callback`); LVGL's timer handler
runs a due timer however many events it handles in between, so `Poll` is strongly fair; the worker
has the priority of the LVGL thread and is time-sliced, so it is weakly fair. This includes that
`recv` returns, which the code leaves to the network: it sets no receive timeout. Nothing is
assumed of the user. `PwmAudio`: the timer keeps interrupting while it is on, the player thread is
scheduled; the timeout of a wait is *not* assumed to happen. `Player`: the card and the decoders
answer, so the player thread is weakly fair; a callback is strongly fair, since the player blocks
again and again but not for good. `Snake`: `lv_timer_handler` runs a timer that is due and not
paused, so `Tick` and `LoadStart` are weakly fair; no button is. `Settings`: a thread inside a call on
the files goes on with it (`GoesOn`, weakly fair for each thread); no save has to begin and no fault to
happen. `SdMount`: the two threads and the app thread are weakly fair, the hand is not; the 200 ms delay
of `_sdcard_unmount` outlasts the app thread's 10 ms poll, so `GiveUp` waits for `AppStart`. `Touch`: the
controller reports every 10 ms while a finger is on, LVGL calls the callback every 30 ms, so both are
weakly fair and a call finds that the controller has reported since the last one (`Due`). `Jpeg`: the
player thread runs and its waits time out, so `Frame` is weakly fair; the codec is not fair at all.

### Findings

* `pwm_stereo`: the discard of the right channel reads one byte too many (line 594), and a
  half-written frame is also split, so the left pin plays bytes of the right channel.
* `player_current`: `player_entry` sets `PLAYER_RUNNING` after opening a file whatever the status
  became meanwhile; a skip pressed during the opening has moved `song_current`, and the old file
  plays on under the new index (`player.h`: "Playing video").

* `settings_halt`: `dfs_elm_open` returns early for a file that is already open and leaves the new
  descriptor without a file object; the assertion of `dfs_elm_read`/`dfs_elm_write` then stops the
  thread for ever. The wifi thread polls `data.ini` while the settings screen saves to it.

Seen while modelling; no run states these, since they contradict no comment that can be put as one
property, or only bound what a property may say:

* `rb_wait_semaphore` clears `is_give` before it takes, so the interrupt may add a second token. The
  token sends the writer to a full ring; it drops what is left of the buffer and reports it written.
* `video_start_parser` returns RT_ERROR (1) for a file that does not parse, and the caller uses it as a
  descriptor; `PLAYER_CMD_SET_VOL` writes through the audio handle, which is freed between two files.
* `wifi_connect_flag` is tested and set by two threads without a lock: both may connect, with the same
  credentials. The LED is initialised after the wifi thread was started.
* On the return to the game screen an overdue snake timer may run before the screen is active and pause
  itself, so the snake stands still until a mode button is pressed; a swipe to the left asks for
  direction 1, which is right.
* A reader that holds `data.ini` makes remove and rename fail, and `ini_puts` still returns 1
  (`ReportedIsKept` speaks of saves no reader was in the way of). A failure to open `data.ini` for reading
  is taken for a missing file, and the file is made anew with one setting (`lost`). Power lost between
  remove and rename leaves the settings under the copy's name only (`torn`).
* If `/ai_relay.txt` cannot be opened but `data.ini` takes the address, the older address in the first
  file shadows the new one, although the save is reported. A close of `/ai_relay.txt` that fails leaves it
  empty under a save that is reported, and a load falls through to what `data.ini` was given earlier; if
  its host was replaced and its port was not (the second `ini_puts` failed and `ai_relay.ini` took the
  address), to the new host with the old port. `AddressLoads` says that these are all the cases. The wifi
  thread may read the SSID of one save and the password of the next.
* `mmcsd_detect` sends no mail for a probe nobody answered, and the sd_mount thread then waits for
  ever (`HungUnanswered` says only then). A card pulled and put back between two polls is not noticed.
* With a second finger the GT911 driver goes through points it has not read, and the press jumps to
  the corner (`PressIsTouched` says where a press is for one finger at a time only).
* The codec's last callback may come before the test for completion, which then skips the last band; its
  token stays in the semaphore, and the next frame may draw a band twice, even while the codec writes it.
  A frame of more than 30 KB is fed its first block again, and may lose a pause to the driver's unlocked
  change of its status: the codec is then not resumed and the frame given up after 100 ticks (`FrameEnds`).

## 5. Proofs

`PwmAudioProofs` begins with the ring (any ring size). `RingInv` is the type invariant, the content of the
ring (`RingHoldsUnread`) and the value read last. The content is stated over `Count` and `Adv`, so the
lemmas `CountAdvance`, `AdvTwice` and `CountPublish` do the wrap-around arithmetic once. `StoreStutters`,
`PublishPuts`, `ReadGets` and `FlushClears` map each operation to a step of `ByteFifo`; under the mapping
the queue is the run of numbers from the next byte to read to the last one accepted, so `RunAppend` and
`RunDrop` are all that is needed of sequences.

Its second part is the driver (any threshold, pins, formats and chunk lengths): `PwmInv` adds to
`RingInv` that the ring bytes still to be written fit into the free room (`ChunkFits`: the interrupt
only makes room) and, for mono data, that reads and writes are at sample boundaries
(`SamplesWhole`). `RingHoldsUnread`, `ReadsInOrder`, `NoByteLost`, `WakeupArmed` and `MonoSamplesWhole` are
its consequences; `PwmImplementsFifo` is the refinement: the driver, writer and interrupt together,
implements `ByteFifo`.

`AiChatProofs` (any hosts, any number of questions): `AiInv` adds to the checked invariants where the
LVGL thread may be while a question is in work (`SlotInv`), that the worker's copies are those of
the newest question and nothing is shown before it is answered (`ReplyInv`), and that every host that
could be chosen now, by a load that succeeds or fails, is in force (`HostInv`). From it follow the four invariants and, with
`ServiceStep` (storing is `Ask`, publishing is `Answer`, polling is `Show`), the refinement
`Spec => ServiceSpec`.

`PlayerProofs` (any number of videos): `PlayerInv` adds to the checked invariants that the thread
sleeps in its first state until `PLAYER_CMD_INIT` and never returns to it (`IdleInv`; without it
`song_current` could be 0 when a file is opened), and that a callback past its test for
`PLAYER_STOP` finds another status (`SkipInv`: only the LVGL thread writes `PLAYER_STOP`).

`GamesProofs` has both games. `Snake` (any field that holds a new snake): `SnakeInv` adds to the checked invariants that the
last step's direction leads from the second cell to the head, which is why only the opposite
direction need be refused however often `nextDir` changes between two ticks. `MovedIsGood` shows
that a step keeps the path. That scoring without growing never happens is a counting argument: a
snake of the length of the field covers every cell (cardinality of an injection's range), so the
head cannot enter a free one.

`Game2048` (any size of the board): a loop of `compress_line` is a recursive function over its rounds, so
the proofs begin with what such a definition means (`SetInduction`, `RecursionExists`: a function that
satisfies the recursion exists, hence the one chosen does). `Compacted`: the tiles come first, a full line
stays, a line with a gap ends with an empty cell. `MergingEnds`: a full line without equal neighbours is
left alone; otherwise the first pair leaves a gap, and no later round fills it. `HasMoveIsRight` puts the
lines together: if no direction changes the board, an empty cell makes its row empty (left and right),
then every column (up and down), so a board with a tile is full and has no equal neighbours.
`OverMeansStuck` follows with `BoardInv`, which adds that a game always has a tile: on an empty board the
two sides of the property differ.

The score is a sum over the board, and sums are recursive functions too; their lemmas are `SumSteps`,
`SumUpdate` (one term changed), `SumReversed` and `SumExchange` (a board weighs the same from every side). `Weight(w, line, n)` weighs the tiles of a line by any `w`: compacting leaves it (`CompactWeight`), and a
merge changes it by the sum's weight less those of its two tiles (`MergeWeight`). With `WorthOf` as `w` that
change is the points scored. This is only true if the sum is a tile of which `Worth` is defined, that is if
exponents stay within `MaxExp`, and a bound on the largest tile alone is not inductive: two of the largest would
make one more. `Room` is the strengthening: the cells with at least 2^k number at most `MaxExp` + 1 - k, for
every k. `Big(k)` counts them as another weight, so that `MergeSound`, `CompactSound` and `LineSound`
carry both through `compress_line`. `TileSound`: a new 2 or 4 counts for k = 1 and 2 only, where the bound is no
less than the number of cells. `ScoreInv` is the type, `Room` and the balance, and `GameScoreAccounts`
follows. On the firmware's board a tile is thus at most 2^17, far from the limit of `int`.

The rules: `AfterRound` is the loop invariant of the merging. After round i the cells up to i are what the
rules make of them, the cells beyond are untouched except that the next one is empty when it was taken, and the
round is skipped exactly then (`RoundsByRules`). `PackedIsTiles` and `CompactTiles` show that the two
compactions keep the tiles in their order. `CompressByRules` puts them together for a line of any length and
`GameLineByRules` for every line of every board that a game reaches.

`SdMountProofs` (no constants; any sequence of insertions and removals): `SdInv` adds to the checked
invariants that one change is dealt with at a time (`OneChange`: asked for, probed, initialised or
answered, and only while the sd_mount thread waits) and what the detect thread knows (`DeviceHasCard`: a
device exactly for a card that came up, none while the slot is probed). Without the first a late mail
could end a later wait.

`TouchProofs` (any places, any number of failing transfers): `TouchInv` adds that a press event stays
in `read_data` only while the last report read had a finger (`EventInv`), that a call with nothing to
read finds a quiet panel (`QuietInv`: a report since the last call has masked the interrupt and so set
the flag) and that with one finger the registers hold finger 0 (`SingleInv`). `HeldIsOnePress` needs
`HeldInv`: while LVGL believes in a press only the report of an empty panel can end it, the fingers cannot
cause one without a lift, and an old one that was not cleared is not read again under a new finger, since
the controller has reported that finger before the next call is due.

`JpegProofs` (any number of bands and blocks, any largest value of the semaphore): `LinesInv` is
why no band is written after the last. A late block of input restarts a codec that is done, or the driver
stores a status it had read before over its "done", but then the loop ends, or
`g_jpeg_status` has lost its "done" and the thread is past drawing, so that the output is never resumed
(`Complete`, `Restarted` or `Idling`). `StatusInv` and `WordInv` say that a codec whose status, or the word
about to replace it, shows a header, a pause for output or rest does not write. For a frame of one block `WholeInv` goes through its stages (`Fresh`,
`Sized`, `Running`, `Paused`, `Finished`, `Failed`): in each it says what the two status words are, where
the thread may be, and the books of the semaphore (`Settled`: tokens, the one in hand and the bands
drawn against the bands written, the tokens found and the one of the transfer's end). `BufferHandedOver`, `DrawnOnce` and `TokensSettle`
are read off a stage; none is inductive, since what a token stands for depends on where the thread took it.

`SettingsProofs` (any threads, any number of saves and faults, any earlier content): the first half is
about `MiniIni`. `Found` says without the search which line is a key's, and `KeyLineIsFound` and
`FoundIsKeyLine` that `getkeystring` finds exactly that one. From these, for each way `ini_puts` changes a file
(`RewriteReads`, `CopyReads`, `NewFileReads`): the new file is well formed, has the new value, and every
other key reads as before, wherever the line was put in. The least-element argument (`FirstIsLeast`,
from `WFMin`) replaces induction over the lines. The second half is the protocol. `SettingsInv` adds to the
checked invariants that one thread saves at a time (`OneSaver`), what each may have open by its place
(`OpenInv`), that the copy is its maker's alone until it is renamed (`CopyInv`; otherwise a close by another
descriptor could leave an older text under the name), what `data.ini` and the copy hold at each step
(`StepInv`: during a put its own key counts as not saved), that `data.ini` is away only between remove and
rename (`AwayInv`), and what a load would find once the rename is done (`AddressInv`, with `RelayInv`). The
relay address needs three more parts: what a load finds in `/ai_relay.txt` is due, whole, and
what is due is the address last reported saved or the older one that file still has (`DueInv`); one thread at most has the
file object of a file, so that a close by another cannot bring back its text (`BoundInv`); and as long as
nothing failed and no file was shared, every address goes to the first file and the one reported is the
one due (`CalmInv`), which is why any other outcome of a load has a failure behind it. Each part has one lemma per group of steps: those of
`ini_puts`, those of the address files, and the ones that leave the card alone.

Assumptions are those of the modules: `AiAssumption` (an empty host is not a host),
`RingAssumption` (at least two slots), `PwmAssumption` (the assertions of `rb_create` and
`pwm_audio_init`), `PlayerAssumption` (at least one video, at least one token),
`SnakeAssumption` (a new snake lies in the field), `GameAssumption` (a board of at least 2 by 2: on a
single cell a new game would be over), `TouchAssumption` (no place is the corner or away),
`JpegAssumption` (at least one band, block and token) and `SettingsAssumption` (the wifi thread neither saves
nor loads on request; what an earlier run left on the card is well formed, which `SettingsWellFormed` shows
of this one). The bounds `MaxRequests`, `MaxBytes`, `MaxSaves` and `MaxFaults` are arbitrary naturals.

Only model-checked: liveness (`EveryQuestionSettled`, `ThinkingEnds`, `WriterWakes`, `ResumeWakes`,
`TimerRests`, `Connects`, `CardMounts`, `PullIsSeen`, `TouchFollowed`, `FrameEnds`), since it rests on
fairness. Every invariant and every other action property of a passing run is a theorem.

## 6. Not modelled

JSON escaping and the HTTP text, sample arithmetic and volume, widget layout, logging. Of the modelled
parts: two savers at the same time (the shell is a service interface), the math settings (their save has
no caller), the wlan manager's link and the LED, the blitter and the display flush (register writes),
files that do not parse as AVI. Not at all: the learning screens (an index that wraps and a quiz of
random numbers over widget code), the smart room and ChatGPT applications (separate demonstrations; the
files they share with the board application are near copies of it), the relay server (stateless), the
generated screens. `PROJECT.json` lists each with its reason. RT-Thread, LVGL, lwIP and the vendor's HAL
are third-party; of them the models take the functions the properties depend on (semaphores, the file
layer, card detection, the codec driver).
