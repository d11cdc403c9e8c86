--------------------------- MODULE StreamManager ---------------------------
(***************************************************************************)
(* The streaming manager of the GUI (r4w-gui/src/streaming): one source at *)
(* a time (a file, a generator, a simulation or a UDP port), the windows   *)
(* that show its latest samples, the recording, and the thread that        *)
(* receives the datagrams.                                                 *)
(*                                                                         *)
(* The GUI thread runs one operation at a time; it stands still while it   *)
(* joins a receiver.  A sample is its number in its source, and a datagram *)
(* holds one sample, or a part of one.                                     *)
(***************************************************************************)
EXTENDS Naturals, SequencesExt

CONSTANTS
    FileLen,       \* samples of a loaded file
    Block,         \* samples that a waveform modulates at a time
    Window,        \* capacity of the windows
    MaxRecording,  \* max_recording_samples
    MaxBatch,      \* bound: samples of one tick
    MaxBlocks,     \* bound: refills of the sample buffer
    MaxReceivers,  \* bound: receivers started
    MaxPackets     \* bound: datagrams and errors that a receiver gets

ASSUME StreamAssumption ==
    /\ {FileLen, Block, Window, MaxRecording} \subseteq Nat \ {0}
    /\ {MaxBatch, MaxBlocks, MaxReceivers, MaxPackets} \subseteq Nat

Sources   == {"None", "File", "Generator", "Simulation", "Udp"}
Receivers == 1..MaxReceivers
NoOne     == 0
Other     == MaxReceivers + 1   \* another application
Failure   == 0                  \* an error message of a receiver; the others hold a datagram

VARIABLES
    source, playback,      \* source, and the state of the playback
    position,              \* of a file
    total,                 \* stats.total_samples
    waveform,              \* whether the factory knew the waveform
    ready,                 \* the sample buffer: its length and the position in it
    rx, tx,                \* time_buffer and tx_buffer
    latest,                \* what was delivered since the user chose a source, stopped
                           \* or sought, its end
    recording, recorded,   \* recording_state and recording_buffer
    heard,                 \* what was delivered since the recording was emptied
    status,                \* the UDP status the user sees
    lastError,             \* whether the receiver has a last_error
    receiver,              \* udp_receiver
    joining, afterJoin,    \* the receiver the GUI waits for, and what it does then
    thread, flag, channel, \* of each receiver: its thread, stop_flag and channel
    owner,                 \* who holds the port
    refusedBy,             \* who held it when a receiver could not bind it
    arrived                \* datagrams and errors so far

windows == <<rx, tx, latest>>
tape    == <<recording, recorded, heard>>
play    == <<source, playback, position, total, waveform, ready>>
handle  == <<receiver, joining, afterJoin>>
threads == <<thread, channel, owner, refusedBy, arrived>>
udp     == <<status, lastError>>
vars    == <<play, windows, tape, udp, handle, threads, flag>>

Blank   == 0   \* in a slot that was not written: samples are numbered from 1
NewRing == [buffer |-> [i \in 0..(Window - 1) |-> Blank], head |-> 0, len |-> 0]

Init ==
    /\ source = "None" /\ playback = "Stopped" /\ position = 0 /\ total = 0
    /\ waveform = FALSE /\ ready = [len |-> 0, at |-> 0]
    /\ rx = NewRing /\ tx = NewRing /\ latest = <<>>
    /\ recording = FALSE /\ recorded = <<>> /\ heard = <<>>
    /\ status = "Disconnected" /\ lastError = FALSE
    /\ receiver = NoOne /\ joining = NoOne /\ afterJoin = "nothing"
    /\ thread = [r \in Receivers |-> "unborn"]
    /\ flag = [r \in Receivers |-> FALSE]
    /\ channel = [r \in Receivers |-> <<>>]
    /\ owner \in {NoOne, Other} /\ refusedBy = {} /\ arrived = 0

-----------------------------------------------------------------------------
(* The window: a ring that overwrites its oldest sample *)

Push(ring, sample) ==
    [buffer |-> [ring.buffer EXCEPT ![ring.head] = sample],
     head   |-> (ring.head + 1) % Window,
     len    |-> IF ring.len < Window THEN ring.len + 1 ELSE ring.len]

\* The ring after each sample of a batch.
Pushes(ring, samples) ==
    LET after[i \in 0..Len(samples)] == IF i = 0 THEN ring ELSE Push(after[i - 1], samples[i])
    IN  after

PushBatch(ring, samples) == Pushes(ring, samples)[Len(samples)]

\* as_slice_ordered.
Ordered(ring) ==
    IF ring.len < Window
      THEN [i \in 1..ring.len |-> ring.buffer[i - 1]]
      ELSE [i \in 1..Window |-> ring.buffer[(ring.head + i - 1) % Window]]

Ending(n, s) == IF Len(s) <= n THEN s ELSE SubSeq(s, Len(s) - n + 1, Len(s))

\* reset_buffers, but for the statistics.  The calls that make it say themselves
\* that what was delivered before them is no longer to be shown.
ResetBuffers ==
    /\ rx' = NewRing /\ tx' = NewRing   \* clear: the slots are not read again

-----------------------------------------------------------------------------
(* Sources.  Those that are no UDP port leave a receiver as it is. *)

\* Mutant: the windows are not reset.
LoadFileOnly ==
    /\ source' = "File" /\ playback' = "Stopped" /\ position' = 0 /\ total' = FileLen
    /\ latest' = <<>>
    /\ UNCHANGED <<rx, tx, waveform, ready, tape, udp, handle, threads, flag>>

LoadFile ==
    /\ source' = "File" /\ playback' = "Stopped" /\ position' = 0 /\ total' = FileLen
    /\ ResetBuffers /\ latest' = <<>>
    /\ UNCHANGED <<waveform, ready, tape, udp, handle, threads, flag>>

\* start_generator and start_simulation, of a waveform the factory knows or not.
StartWaveform(kind, known) ==
    /\ source' = kind /\ playback' = "Stopped" /\ total' = 0
    /\ waveform' = known
    /\ ready' = [len |-> IF known THEN Block ELSE 0, at |-> 0]
    /\ ResetBuffers /\ latest' = <<>>
    /\ UNCHANGED <<position, tape, udp, handle, threads, flag>>

Unborn == {r \in Receivers : thread[r] = "unborn"}

\* A new receiver and its thread, after the old one has been joined.
Launch(r) ==
    /\ thread' = [thread EXCEPT ![r] = "binding"]
    /\ receiver' = r
    /\ source' = "Udp" /\ playback' = "Playing" /\ total' = 0
    /\ status' = "Listening" /\ lastError' = FALSE
    /\ ResetBuffers /\ latest' = <<>>

\* Mutant: the flag is not set.
JoinOnly ==
    /\ UNCHANGED flag
    /\ joining' = receiver

\* UdpReceiver::stop, up to the join.
StopReceiver ==
    /\ flag' = [flag EXCEPT ![receiver] = TRUE]
    /\ joining' = receiver

\* Mutant: the new receiver is started and the old one is stopped when it is
\* replaced.
StartUdpAndDrop(r) ==
    /\ Launch(r)
    /\ IF receiver = NoOne THEN UNCHANGED <<joining, flag>> ELSE StopReceiver
    /\ UNCHANGED <<afterJoin, position, waveform, ready, tape, channel, owner, refusedBy, arrived>>

StartUdp(r) ==
    \/ /\ receiver = NoOne
       /\ Launch(r)
       /\ UNCHANGED <<joining, afterJoin, flag>>
       /\ UNCHANGED <<position, waveform, ready, tape, channel, owner, refusedBy, arrived>>
    \/ /\ receiver # NoOne
       /\ StopReceiver /\ receiver' = NoOne /\ afterJoin' = "start"
       /\ UNCHANGED <<play, windows, tape, udp, threads>>

\* stop_udp: the source is the port and there is a receiver.
StopUdp ==
    /\ StopReceiver /\ receiver' = NoOne
    /\ source' = "None" /\ playback' = "Stopped"
    /\ UNCHANGED <<afterJoin, position, total, waveform, ready, windows, tape, udp, threads>>

\* stop, also "rewind".
Stop ==
    /\ playback' = "Stopped" /\ total' = 0
    /\ ResetBuffers /\ latest' = <<>>
    /\ position' = IF source = "File" THEN 0 ELSE position
    /\ \/ source # "Udp" /\ UNCHANGED <<source, handle, flag>>
       \/ /\ source = "Udp" /\ source' = "None"
          /\ StopReceiver /\ receiver' = NoOne /\ UNCHANGED afterJoin
    /\ UNCHANGED <<waveform, ready, tape, udp, threads>>

TogglePlay ==
    /\ playback' = CASE playback = "Playing" -> "Paused"
                     [] source = "None"      -> playback
                     [] OTHER                -> "Playing"
    /\ UNCHANGED <<source, position, total, waveform, ready, windows, tape, udp, handle, threads, flag>>

\* seek, from the scrubber: a fraction of what the statistics say is the total,
\* and they are reset with the buffers.
Seek(to) ==
    /\ source = "File" /\ to <= total
    /\ position' = Min({to, FileLen})
    /\ total' = 0
    /\ ResetBuffers /\ latest' = <<>>
    /\ UNCHANGED <<source, playback, waveform, ready, tape, udp, handle, threads, flag>>

-----------------------------------------------------------------------------
(* One frame *)

\* Mutant: off by one.
AdvancePast(buffer) ==
    IF buffer.at > buffer.len
      THEN [len |-> buffer.len + Block, at |-> 1]
      ELSE [buffer EXCEPT !.at = @ + 1]

\* The sample buffer is refilled at its end and read again from its start.
Advance(buffer) ==
    IF buffer.at >= buffer.len
      THEN [len |-> buffer.len + Block, at |-> 1]
      ELSE [buffer EXCEPT !.at = @ + 1]

\* The states of the buffer while n samples are taken from it.
Advances(n) ==
    LET state[i \in 0..n] == IF i = 0 THEN ready ELSE Advance(state[i - 1])
    IN  state

SampleOf(message) == IF message = Failure THEN <<>> ELSE <<message>>

\* The samples found after each message of the channel.
Found(messages) ==
    LET found[i \in 0..Len(messages)] == IF i = 0 THEN <<>> ELSE found[i - 1] \o SampleOf(messages[i])
    IN  found

Polled == Found(channel[receiver])[Len(channel[receiver])]

\* get_samples: what the source delivers when n samples are due.
Samples(n) ==
    CASE source = "File" -> [i \in 1..n |-> ((position + i - 1) % FileLen) + 1]
      [] source \in {"Generator", "Simulation"} /\ waveform ->
             [i \in 1..n |-> Advances(n)[i].at]
      [] source = "Generator" /\ ~waveform -> [i \in 1..n |-> 1]
      [] source = "Udp" -> Polled
      [] OTHER -> <<>>

\* What get_samples changes.  A poll that finds no samples leaves the status as
\* it is, whatever errors it found; the last error is kept for good.
Taken(n) ==
    /\ position' = IF source = "File" THEN (position + n) % FileLen ELSE position
    /\ ready' = IF source \in {"Generator", "Simulation"} /\ waveform THEN Advances(n)[n] ELSE ready
    /\ IF source # "Udp" THEN UNCHANGED <<channel, udp>>
       ELSE /\ channel' = [channel EXCEPT ![receiver] = <<>>]
            /\ lastError' = (lastError \/ Contains(channel[receiver], Failure))
            /\ status' = CASE Polled = <<>> -> status
                           [] Polled # <<>> /\ lastError' -> "Error"
                           [] OTHER -> "Receiving"

\* Mutant: a batch that does not fit is not recorded at all.
WholeBatches(samples) ==
    LET all == recorded \o samples IN IF Len(all) <= MaxRecording THEN all ELSE recorded

Recordable(samples) ==
    recorded \o SubSeq(samples, 1, Min({Len(samples), MaxRecording - Len(recorded)}))

Record(samples) ==
    IF ~recording THEN UNCHANGED tape
    ELSE /\ recorded' = Recordable(samples)
         /\ recording' = (Len(recorded') < MaxRecording)
         /\ heard' = heard \o samples

\* tick, when samples are due.
Tick(n) ==
    /\ playback = "Playing"
    /\ ready.len <= MaxBlocks * Block
    /\ Taken(n)
    /\ IF Samples(n) = <<>> THEN UNCHANGED <<windows, tape>>
       ELSE /\ rx' = PushBatch(rx, Samples(n))
            /\ tx' = IF source = "Simulation" THEN PushBatch(tx, Samples(n)) ELSE tx
            /\ latest' = Ending(Window, latest \o Samples(n))
            /\ Record(Samples(n))
    /\ UNCHANGED <<source, playback, total, waveform, handle, thread, owner, refusedBy, arrived, flag>>

StartRecording ==
    /\ ~recording
    /\ recording' = TRUE /\ recorded' = <<>> /\ heard' = <<>>
    /\ UNCHANGED <<play, windows, udp, handle, threads, flag>>

StopRecording ==
    /\ recording /\ recording' = FALSE
    /\ UNCHANGED <<recorded, heard, play, windows, udp, handle, threads, flag>>

ClearRecording ==
    /\ recording \/ recorded # <<>>
    /\ recorded' = <<>> /\ heard' = <<>>
    /\ UNCHANGED <<recording, play, windows, udp, handle, threads, flag>>

\* The join returns: stop_udp ends, and start_udp goes on.
Joined ==
    /\ joining # NoOne /\ thread[joining] = "ended"
    /\ joining' = NoOne /\ afterJoin' = "nothing"
    /\ \/ /\ afterJoin = "start"
          /\ \E r \in Unborn : (\A s \in Unborn : r <= s) /\ Launch(r)
          /\ UNCHANGED <<position, waveform, ready, channel, owner, refusedBy, arrived>>
       \/ /\ afterJoin = "nothing"
          /\ UNCHANGED <<play, windows, udp, receiver, threads>>
    /\ UNCHANGED <<tape, flag>>

User ==
    /\ joining = NoOne
    /\ \/ LoadFile \/ Stop \/ TogglePlay
       \/ StartRecording \/ StopRecording \/ ClearRecording
       \/ \E kind \in {"Generator", "Simulation"}, known \in BOOLEAN : StartWaveform(kind, known)
       \/ \E to \in 0..FileLen : Seek(to)
       \/ source # "Udp" /\ \E r \in Unborn : (\A s \in Unborn : r <= s) /\ StartUdp(r)
       \/ source = "Udp" /\ StopUdp

Frame == joining = NoOne /\ \E n \in 1..MaxBatch : Tick(n)

-----------------------------------------------------------------------------
(* The thread of a receiver *)

quiet == <<play, windows, tape, udp, handle, flag>>

Ends(r) ==
    /\ thread' = [thread EXCEPT ![r] = "ended"]
    /\ owner' = IF owner = r THEN NoOne ELSE owner

Bind(r) ==
    /\ thread[r] = "binding"
    /\ \/ /\ owner = NoOne /\ owner' = r
          /\ thread' = [thread EXCEPT ![r] = "looping"]
          /\ UNCHANGED <<channel, refusedBy>>
       \/ /\ owner # NoOne /\ Ends(r)
          /\ channel' = [channel EXCEPT ![r] = Append(@, Failure)]
          /\ refusedBy' = refusedBy \cup {owner}
    /\ UNCHANGED <<arrived, quiet>>

LookAtFlag(r) ==
    /\ thread[r] = "looping"
    /\ \/ flag[r] /\ Ends(r)
       \/ ~flag[r] /\ thread' = [thread EXCEPT ![r] = "receiving"] /\ UNCHANGED owner
    /\ UNCHANGED <<channel, refusedBy, arrived, quiet>>

\* A datagram, one too short to hold a sample or none within the timeout, an error.
Recv(r) ==
    /\ thread[r] = "receiving"
    /\ thread' = [thread EXCEPT ![r] = "looping"]
    /\ \/ /\ arrived < MaxPackets /\ arrived' = arrived + 1
          /\ \E message \in {arrived', Failure} : channel' = [channel EXCEPT ![r] = Append(@, message)]
       \/ UNCHANGED <<channel, arrived>>
    /\ UNCHANGED <<owner, refusedBy, quiet>>

Thread(r) == Bind(r) \/ LookAtFlag(r) \/ Recv(r)

\* Another application takes the port or leaves it.
Elsewhere ==
    /\ \/ owner = NoOne /\ owner' = Other
       \/ owner = Other /\ owner' = NoOne
    /\ UNCHANGED <<thread, channel, refusedBy, arrived, quiet>>

Next == User \/ Frame \/ Joined \/ Elsewhere \/ \E r \in Receivers : Thread(r)

Spec == Init /\ [][Next]_vars

\* The threads run, and a join returns when its thread has ended.
FairSpec ==
    /\ Spec
    /\ WF_vars(Joined)
    /\ \A r \in Receivers : WF_vars(Thread(r))

-----------------------------------------------------------------------------
(* Properties *)

\* Types, and that no cursor leaves its buffer: the position of a file, the one
\* of the sample buffer, and the receiver that a UDP source needs.
TypeOK ==
    /\ source \in Sources /\ playback \in {"Stopped", "Playing", "Paused"}
    /\ position \in 0..FileLen /\ total \in {0, FileLen} /\ waveform \in BOOLEAN
    /\ ready.len % Block = 0 /\ ready.at \in 0..ready.len
    /\ \A ring \in {rx, tx} : ring.head \in 0..(Window - 1) /\ ring.len \in 0..Window
    /\ recording \in BOOLEAN /\ Len(recorded) <= MaxRecording
    /\ status \in {"Disconnected", "Listening", "Receiving", "Error"} /\ lastError \in BOOLEAN
    /\ {receiver, joining} \subseteq Receivers \cup {NoOne}
    /\ source = "Udp" => receiver # NoOne
    /\ afterJoin \in {"nothing", "start"} /\ (afterJoin = "start" => joining # NoOne)
    /\ thread \in [Receivers -> {"unborn", "binding", "looping", "receiving", "ended"}]
    /\ flag \in [Receivers -> BOOLEAN] /\ owner \in Receivers \cup {NoOne, Other}

\* The window shows the last samples delivered since the user chose a source,
\* stopped or sought, in their order and none from before, and in a simulation the
\* transmitted ones beside them.
ShowsLatest ==
    /\ Ordered(rx) = latest
    /\ Ordered(tx) = IF source = "Simulation" THEN latest ELSE <<>>

\* The recording is what was delivered since it was emptied, from the first
\* sample to the last or to the limit; at the limit it has stopped.
RecordingExact ==
    /\ recorded = SubSeq(heard, 1, Min({Len(heard), MaxRecording}))
    /\ recording => Len(recorded) < MaxRecording

\* A receiver fails to bind only when another application holds the port: never
\* because of a receiver of this one.
BindsUnlessTaken == refusedBy \subseteq {Other}

\* The GUI does not hang in a join.
JoinReturns == joining # NoOne ~> joining = NoOne
=============================================================================
