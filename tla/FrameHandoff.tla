---------------------------- MODULE FrameHandoff ----------------------------
(***************************************************************************)
(* The hand-over of encoded frames from the encoder thread to the RTP sink *)
(* of the event-loop thread, at the grain of their accesses to shared      *)
(* state.                                                                  *)
(*                                                                         *)
(* The encoder thread (src/strSrc.cpp) spins until the flag "lock" is      *)
(* clear, encodes a frame under the mutex "mux", publishes its address and *)
(* size, sets the flag and raises the event trigger of VSource.            *)
(*                                                                         *)
(* The event-loop thread (src/live, BasicTaskScheduler::SingleStep) runs,  *)
(* in this order and for ever: one socket handler (here the RTSP commands  *)
(* that create, play and close the stream), one triggered event, one due   *)
(* alarm (here the RTP sink's sendNext).  The sink asks VSource for a      *)
(* frame; VSource delivers the published frame at once, or later, when the *)
(* trigger is handled.                                                     *)
(*                                                                         *)
(* A flag read or written is one step: the flag and the trigger mask are   *)
(* plain variables, accessed here in program order, and the "|=" and "&="  *)
(* on the trigger mask are a load and a store.                             *)
(***************************************************************************)
EXTENDS Naturals

CONSTANTS
    Packets,       \* what EncodeFrame() may leave in "pkt"
    NoPacket,      \* the NULL packet of size 0 it leaves when the codec outputs nothing
    NumTriggers,   \* MAX_NUM_EVENT_TRIGGERS
    MaxFragments,  \* bound: RTP packets that a frame may leave as overflow data
    MaxNesting,    \* bound: deliveries nested in each other (frames per RTP packet)
    MaxSends,      \* bound: sendNext tasks scheduled at the same time
    MaxSources     \* bound: VSource objects created in a run

ASSUME NoPacketAssumption == NoPacket \in Packets
ASSUME TriggersAssumption == NumTriggers \in Nat /\ NumTriggers > 1
ASSUME BoundsAssumption ==
    /\ MaxFragments \in Nat
    /\ MaxNesting \in Nat
    /\ MaxSends \in Nat \ {0}
    /\ MaxSources \in Nat

VARIABLES
    outcome,    \* "running", or what ended the process
    \* --- the slot both threads use
    mux,        \* owner of the mutex: "free", "enc" or "loop"
    lock,       \* the flag: a frame is published
    address,    \* VSource::frameDataStartAddress (the packet it points into)
    size,       \* VSource::frameSize (the packet it is the size of)
    \* --- encoder thread
    enc,        \* its program counter
    pkt,        \* the packet encoded last
    id,         \* the eventTriggerId passed to triggerEvent()
    encReg,     \* fTriggersAwaitingHandling as loaded by "|="
    \* --- event triggers of the scheduler
    trigger,    \* VSource::eventTriggerId; 0 when there is none
    lastUsed,   \* fLastUsedTriggerNum
    pending,    \* fTriggersAwaitingHandling, as a set of triggers
    \* --- sources
    stream,     \* "none", "ready" (after SETUP) or "playing"
    instance,   \* VSource::instance: "null", "stream" or "dangling"
    described,  \* fSDPLines is cached
    created,    \* VSource objects created so far
    \* --- the stream's VSource and RTP sink
    awaiting,   \* fIsCurrentlyAwaitingData
    overflow,   \* packets' worth of overflow data in fOutBuf
    sends,      \* sendNext tasks in the delay queue
    orphan,     \* one of them is of a sink that has been closed
    \* --- event-loop thread
    loop,       \* its program counter
    ret,        \* the phase of SingleStep() that the handler returns to
    depth,      \* calls of doGetNextFrame() that have "lock=0" still to do
    frame,      \* newFrameDataStart and newFrameSize of deliverFrame()
    delivered,  \* the frame last copied to fTo
    bit,        \* the trigger being cleared
    loopReg,    \* fTriggersAwaitingHandling as loaded by "&="
    \* --- history, which the code does not have
    stale       \* the encoder has raised the trigger of a source deleted meanwhile

slotVars == <<mux, lock, address, size>>
encVars  == <<enc, pkt, id, encReg, stale>>
trigVars == <<trigger, lastUsed, pending>>
srcVars  == <<stream, instance, described, created>>
sinkVars == <<awaiting, overflow, sends, orphan>>
copyVars == <<frame, delivered>>
workVars == <<ret, depth, copyVars, bit, loopReg>>
loopVars == <<loop, workVars>>
vars == <<outcome, slotVars, encVars, trigVars, srcVars, sinkVars, loopVars>>

Slots == 1..NumTriggers
\* Mutant: the slot number does not wrap around.
NextSlotUnwrapped(i) == i + 1

\* Triggers are handled and created in cyclic order after the one last used.
NextSlot(i) == IF i = NumTriggers THEN 1 ELSE i + 1
Distance(i) == (i + NumTriggers - lastUsed - 1) % NumTriggers
Pair(p) == [address |-> p, size |-> p]

EncPC  == {"startup", "spin", "acquire", "encode", "setAddress", "setSize",
           "setLock", "unlock", "readId", "trigLoad", "trigStore"}
LoopPC == {"select", "closeDummy", "deleteTrigger", "triggers", "clearTrigger",
           "deliverFrame0", "lockMux", "readAddress", "readSize", "copy",
           "unlock", "afterGetting", "packFrame", "return", "alarm"}

Init ==
    /\ outcome = "running"
    /\ mux = "free" /\ lock = FALSE /\ address = NoPacket /\ size = NoPacket
    /\ enc = "startup" /\ pkt = NoPacket /\ id = 0 /\ encReg = {}
    /\ trigger = 0 /\ lastUsed = NumTriggers /\ pending = {}
    /\ stream = "none" /\ instance = "null" /\ described = FALSE /\ created = 0
    /\ awaiting = FALSE /\ overflow = 0 /\ sends = 0 /\ orphan = FALSE
    /\ loop = "select" /\ ret = "select" /\ depth = 0
    /\ frame = Pair(NoPacket) /\ delivered = Pair(NoPacket)
    /\ bit = 0 /\ loopReg = {} /\ stale = FALSE

-----------------------------------------------------------------------------
(* The encoder thread: strSrc::startEncoding() and EncodeFrame().          *)

EncGo(from, to) ==
    /\ outcome = "running" /\ enc = from /\ enc' = to
    /\ UNCHANGED <<outcome, trigger, lastUsed, srcVars, sinkVars, loopVars>>

\* The first frame is encoded outside the mutex and never published.
EncStartup ==
    /\ EncGo("startup", "spin")
    /\ pkt' \in Packets
    /\ UNCHANGED <<slotVars, id, encReg, pending, stale>>

\* Mutant: the test of the flag is missing.
EncSpinUnchecked ==
    EncGo("spin", "acquire") /\ UNCHANGED <<slotVars, pkt, id, encReg, pending, stale>>

\* "if(lock==1) continue": the thread spins, without the mutex, while the flag is set.
EncSpin ==
    /\ EncGo("spin", "acquire")
    /\ lock = FALSE
    /\ UNCHANGED <<slotVars, pkt, id, encReg, pending, stale>>

EncAcquire ==
    /\ EncGo("acquire", "encode")
    /\ mux = "free" /\ mux' = "enc"
    /\ UNCHANGED <<lock, address, size, pkt, id, encReg, pending, stale>>

\* The codec may output no packet ("got_output" is not looked at): then pkt is NULL, 0.
EncEncode ==
    /\ EncGo("encode", "setAddress")
    /\ pkt' \in Packets
    /\ UNCHANGED <<slotVars, id, encReg, pending, stale>>

EncSetAddress ==
    /\ EncGo("setAddress", "setSize")
    /\ address' = pkt
    /\ UNCHANGED <<mux, lock, size, pkt, id, encReg, pending, stale>>

EncSetSize ==
    /\ EncGo("setSize", "setLock")
    /\ size' = pkt
    /\ UNCHANGED <<mux, lock, address, pkt, id, encReg, pending, stale>>

EncSetLock ==
    /\ EncGo("setLock", "unlock")
    /\ lock' = TRUE
    /\ UNCHANGED <<mux, address, size, pkt, id, encReg, pending, stale>>

EncUnlock ==
    /\ EncGo("unlock", "readId")
    /\ mux' = "free"
    /\ UNCHANGED <<lock, address, size, pkt, id, encReg, pending, stale>>

\* The argument "sink->eventTriggerId", a static member the event loop changes.
EncReadId ==
    /\ EncGo("readId", "trigLoad")
    /\ id' = trigger
    /\ UNCHANGED <<slotVars, pkt, encReg, pending, stale>>

\* "fTriggersAwaitingHandling |= eventTriggerId" in triggerEvent(): load, then store.
EncTrigLoad ==
    /\ EncGo("trigLoad", "trigStore")
    /\ encReg' = pending
    /\ UNCHANGED <<slotVars, pkt, id, pending, stale>>

EncTrigStore ==
    /\ EncGo("trigStore", "spin")
    /\ pending' = IF id = 0 THEN encReg ELSE encReg \cup {id}
    /\ stale' = (stale \/ id \notin {0, trigger})
    /\ UNCHANGED <<slotVars, pkt, id, encReg>>

\* The process ends: by exit(), by abort(), or by using freed memory, after which
\* nothing is known of it.
EndsAs(o) ==
    /\ outcome = "running" /\ outcome' = o
    /\ UNCHANGED <<slotVars, encVars, trigVars, srcVars, sinkVars, loopVars>>

\* avcodec_encode_video2() fails, in whichever call of EncodeFrame().
EncodeFails == enc \in {"startup", "encode"} /\ EndsAs("exited")

EncoderStep ==
    \/ EncStartup \/ EncSpin \/ EncAcquire \/ EncEncode \/ EncSetAddress \/ EncSetSize
    \/ EncSetLock \/ EncUnlock \/ EncReadId \/ EncTrigLoad \/ EncTrigStore

-----------------------------------------------------------------------------
(* The event-loop thread, socket phase: the RTSP commands.                 *)

LoopAt(from) ==
    outcome = "running" /\ loop = from /\ UNCHANGED <<outcome, address, size, encVars>>

LoopGo(from, to) == LoopAt(from) /\ loop' = to

\* No socket is ready, or its handler does not touch the stream.
SelectOther ==
    /\ LoopGo("select", "triggers")
    /\ UNCHANGED <<mux, lock, trigVars, srcVars, sinkVars, workVars>>

\* After a command handleRequestBytes() goes on with a pipelined one, or its handler returns.
AfterCommand == {"select", "triggers"}

\* VSource::VSource(): "instance = this", and a trigger if there is none.
NewSource(inst) ==
    /\ created < MaxSources /\ created' = created + 1
    /\ instance' = inst
    /\ IF trigger = 0
         THEN trigger' = NextSlot(lastUsed) /\ lastUsed' = NextSlot(lastUsed)
         ELSE UNCHANGED <<trigger, lastUsed>>

\* The first DESCRIBE creates a source to describe the stream with, and closes it.
\* With a stream open, the reference count keeps the trigger.
Describe ==
    /\ ~described /\ described' = TRUE
    /\ NewSource("dangling")
    /\ \E to \in IF stream = "none" THEN {"closeDummy"} ELSE AfterCommand : LoopGo("select", to)
    /\ UNCHANGED <<mux, lock, pending, stream, sinkVars, workVars>>

\* The first SETUP creates the stream that all sessions share.
Setup ==
    /\ stream = "none" /\ stream' = "ready"
    /\ NewSource("stream")
    /\ \E to \in AfterCommand : LoopGo("select", to)
    /\ UNCHANGED <<mux, lock, pending, described, sinkVars, workVars>>

\* The first PLAY: the sink builds its first packet.
Play ==
    /\ stream = "ready" /\ stream' = "playing"
    /\ LoopGo("select", "packFrame") /\ ret' \in AfterCommand
    /\ UNCHANGED <<mux, lock, trigVars, instance, described, created, sinkVars,
                   depth, copyVars, bit, loopReg>>

\* VSource::~VSource() of the last source: deleteEventTrigger(), "&=~" load and store.
CloseSource(from) ==
    /\ LoopGo(from, "deleteTrigger")
    /\ loopReg' = pending
    /\ UNCHANGED <<mux, lock, trigVars, described, created, ret, depth, copyVars, bit>>

\* The last session ends, by command or time-out, or sets the stream up anew (then Setup
\* follows).  stopPlaying() cancels the task that nextTask() names, which is the one
\* scheduled last; another one stays behind.
Teardown ==
    /\ stream # "none" /\ stream' = "none"
    /\ CloseSource("select")
    /\ instance' = "dangling"
    /\ awaiting' = FALSE /\ overflow' = 0
    /\ sends' = 0 /\ orphan' = (orphan \/ sends > 1)

CloseDummy == CloseSource("closeDummy") /\ UNCHANGED <<stream, instance, sinkVars>>

DeleteTrigger ==
    /\ \E to \in AfterCommand : LoopGo("deleteTrigger", to)
    /\ pending' = loopReg \ {trigger} /\ trigger' = 0
    /\ UNCHANGED <<mux, lock, lastUsed, srcVars, sinkVars, workVars>>

SocketStep == SelectOther \/ Describe \/ Setup \/ Play \/ Teardown \/ CloseDummy \/ DeleteTrigger

-----------------------------------------------------------------------------
(* Trigger phase.                                                          *)

\* MaxSends bounds the tasks that deliveries to an idle sink pile up: at the bound the
\* trigger is left for a later pass.
NoTrigger ==
    /\ LoopGo("triggers", "alarm")
    /\ pending = {} \/ sends = MaxSends
    /\ UNCHANGED <<mux, lock, trigVars, srcVars, sinkVars, workVars>>

\* The first awaiting trigger after the last used one: "&=~ mask", load and store.
ClearLoad ==
    /\ LoopGo("triggers", "clearTrigger")
    /\ sends < MaxSends
    /\ bit' \in {i \in pending : \A j \in pending : Distance(i) <= Distance(j)}
    /\ loopReg' = pending
    /\ UNCHANGED <<mux, lock, trigVars, srcVars, sinkVars, ret, depth, copyVars>>

\* A trigger that has been deleted has no handler.
ClearStore ==
    /\ LoopGo("clearTrigger", IF bit = trigger THEN "deliverFrame0" ELSE "alarm")
    /\ pending' = loopReg \ {bit} /\ lastUsed' = bit
    /\ ret' = "alarm"
    /\ UNCHANGED <<mux, lock, trigger, srcVars, sinkVars, depth, copyVars, bit, loopReg>>

\* Mutant: deliverFrame0() does not test the flag.
DeliverFrame0Unchecked ==
    /\ instance # "dangling"
    /\ LoopGo("deliverFrame0", "lockMux")
    /\ UNCHANGED <<mux, lock, trigVars, srcVars, sinkVars, workVars>>

\* Mutant: the test of isCurrentlyAwaitingData() is there, but inverted.
DeliverFrame0Inverted ==
    /\ ~(lock /\ instance = "dangling")
    /\ LoopGo("deliverFrame0", IF lock /\ ~awaiting THEN "lockMux" ELSE "alarm")
    /\ UNCHANGED <<mux, lock, trigVars, srcVars, sinkVars, workVars>>

\* deliverFrame0(): "if(lock==1) VSource::instance->deliverFrame()".
DeliverFrame0 ==
    /\ ~(lock /\ instance = "dangling")
    /\ LoopGo("deliverFrame0", IF lock THEN "lockMux" ELSE "alarm")
    /\ UNCHANGED <<mux, lock, trigVars, srcVars, sinkVars, workVars>>

DeliverToDangling ==
    loop = "deliverFrame0" /\ lock /\ instance = "dangling" /\ EndsAs("danglingSource")

TriggerStep == NoTrigger \/ ClearLoad \/ ClearStore \/ DeliverFrame0 \/ DeliverToDangling

-----------------------------------------------------------------------------
(* VSource::deliverFrame() and the sink behind it.                         *)

LockMux ==
    /\ LoopGo("lockMux", "readAddress")
    /\ mux = "free" /\ mux' = "loop"
    /\ UNCHANGED <<lock, trigVars, srcVars, sinkVars, workVars>>

ReadAddress ==
    /\ LoopGo("readAddress", "readSize")
    /\ frame' = [frame EXCEPT !.address = address]
    /\ UNCHANGED <<mux, lock, trigVars, srcVars, sinkVars, ret, depth, delivered, bit, loopReg>>

ReadSize ==
    /\ LoopGo("readSize", "copy")
    /\ frame' = [frame EXCEPT !.size = size]
    /\ UNCHANGED <<mux, lock, trigVars, srcVars, sinkVars, ret, depth, delivered, bit, loopReg>>

\* The memmove() to fTo, and "lock = 0".
Copy ==
    /\ LoopGo("copy", "unlock")
    /\ delivered' = frame
    /\ lock' = FALSE
    /\ UNCHANGED <<mux, trigVars, srcVars, sinkVars, ret, depth, frame, bit, loopReg>>

Unlock ==
    /\ LoopGo("unlock", "afterGetting")
    /\ mux' = "free"
    /\ UNCHANGED <<lock, trigVars, srcVars, sinkVars, workVars>>

\* Mutant: the packet is sent, and no task scheduled for the next one.
SendOrPackUnscheduled(left) ==
    UNCHANGED sends /\ loop' \in (IF left = 0 THEN {"return", "packFrame"} ELSE {"return"})

\* What MultiFramedRTPSink::afterGettingFrame1() does after using a frame of which "left"
\* packets' worth remain: send the packet and schedule the next one, or, when nothing
\* remains, go on filling this one.
SendOrPack(left) ==
    \/ sends' = sends + 1 /\ loop' = "return"
    \/ /\ left = 0
       /\ loop' = "packFrame" /\ UNCHANGED sends

\* FramedSource::afterGetting(): before the first PLAY there is no callback.
AfterGetting ==
    /\ LoopAt("afterGetting")
    /\ awaiting' = FALSE
    /\ IF stream = "playing"
         THEN \E left \in 0..MaxFragments :
                /\ left > 0 => delivered.size # NoPacket
                /\ overflow' = IF left > 0 THEN left ELSE overflow
                /\ SendOrPack(left)
                /\ loop' = "packFrame" => depth < MaxNesting
         ELSE loop' = "return" /\ UNCHANGED <<overflow, sends>>
    /\ UNCHANGED <<mux, lock, trigVars, srcVars, orphan, workVars>>

\* packFrame() with overflow data: it is used before a new frame is read.  A packet that
\* sendNext() starts takes some of it; one that a delivery has begun may have no room.
PackOverflow ==
    /\ LoopAt("packFrame") /\ overflow > 0
    /\ \E left \in 0..overflow :
         /\ left = overflow => ret = "alarm"
         /\ overflow' = left
         /\ SendOrPack(left)
    /\ UNCHANGED <<mux, lock, trigVars, srcVars, awaiting, orphan, workVars>>

\* Mutant: doGetNextFrame() leaves a frame that is already there to the trigger.
GetNextFrameLater ==
    /\ LoopGo("packFrame", "return")
    /\ overflow = 0 /\ ~awaiting /\ awaiting' = TRUE
    /\ UNCHANGED <<mux, lock, trigVars, srcVars, overflow, sends, orphan, workVars>>

\* FramedSource::getNextFrame() and VSource::doGetNextFrame(): deliver a published frame now.
GetNextFrame ==
    /\ LoopGo("packFrame", IF lock THEN "lockMux" ELSE "return")
    /\ overflow = 0 /\ ~awaiting /\ awaiting' = TRUE
    /\ depth' = IF lock THEN depth + 1 ELSE depth
    /\ UNCHANGED <<mux, lock, trigVars, srcVars, overflow, sends, orphan,
                   ret, copyVars, bit, loopReg>>

\* "attempting to read more than once at the same time!": internalError() aborts.
ReadTwice == loop = "packFrame" /\ overflow = 0 /\ awaiting /\ EndsAs("doubleRead")

\* doGetNextFrame() after deliverFrame(): "lock=0" again, outside the mutex.
TrailingClear ==
    /\ LoopGo("return", "return") /\ depth > 0
    /\ lock' = FALSE /\ depth' = depth - 1
    /\ UNCHANGED <<mux, trigVars, srcVars, sinkVars, ret, copyVars, bit, loopReg>>

Return ==
    /\ LoopGo("return", ret) /\ depth = 0
    /\ UNCHANGED <<mux, lock, trigVars, srcVars, sinkVars, workVars>>

DeliveryStep ==
    \/ LockMux \/ ReadAddress \/ ReadSize \/ Copy \/ Unlock \/ AfterGetting
    \/ PackOverflow \/ GetNextFrame \/ ReadTwice \/ TrailingClear \/ Return

-----------------------------------------------------------------------------
(* Alarm phase: at most one due task of the delay queue runs.              *)

SendNext ==
    /\ LoopGo("alarm", "packFrame") /\ ret' = "select"
    /\ sends > 0 /\ sends' = sends - 1
    /\ UNCHANGED <<mux, lock, trigVars, srcVars, awaiting, overflow, orphan,
                   depth, copyVars, bit, loopReg>>

\* sendNext() of a sink that has been deleted.
SendNextOfClosed == loop = "alarm" /\ orphan /\ EndsAs("closedSink")

\* Another task is due first, or none.
OtherAlarm ==
    /\ LoopGo("alarm", "select")
    /\ UNCHANGED <<mux, lock, trigVars, srcVars, sinkVars, workVars>>

AlarmStep == SendNext \/ SendNextOfClosed \/ OtherAlarm

LoopStep == SocketStep \/ TriggerStep \/ DeliveryStep \/ AlarmStep

Ended == outcome # "running" /\ UNCHANGED vars

Next == EncoderStep \/ EncodeFails \/ LoopStep \/ Ended

Spec == Init /\ [][Next]_vars

\* Both threads are scheduled.  The tasks ahead of a sendNext in the delay queue are
\* finitely many, and one runs in every pass, so it is not passed over for ever.
Fairness == WF_vars(EncoderStep) /\ WF_vars(LoopStep) /\ SF_vars(SendNext)

FairSpec == Spec /\ Fairness

-----------------------------------------------------------------------------
(* Properties.                                                             *)

\* Where the encoder holds the mutex, and where it is committed to a new frame.
EncCritical == {"encode", "setAddress", "setSize", "setLock", "unlock"}
EncFilling  == {"acquire", "encode", "setAddress", "setSize", "setLock"}

\* Where the event loop holds the mutex, and where it is committed to the published frame.
LoopCritical == {"readAddress", "readSize", "copy", "unlock"}
LoopTaking   == {"lockMux", "readAddress", "readSize", "copy"}

Flags == {lock, described, awaiting, orphan, stale} \subseteq BOOLEAN

Ranges ==
    /\ outcome \in {"running", "exited", "doubleRead", "danglingSource", "closedSink"}
    /\ mux \in {"free", "enc", "loop"} /\ address \in Packets /\ size \in Packets
    /\ enc \in EncPC /\ pkt \in Packets /\ id \in 0..NumTriggers /\ encReg \subseteq Slots
    /\ trigger \in 0..NumTriggers /\ lastUsed \in Slots /\ pending \subseteq Slots
    /\ stream \in {"none", "ready", "playing"}
    /\ instance \in {"null", "stream", "dangling"} /\ created \in 0..MaxSources
    /\ overflow \in 0..MaxFragments /\ sends \in 0..MaxSends
    /\ loop \in LoopPC /\ ret \in {"select", "triggers", "alarm"} /\ depth \in Nat
    /\ frame \in [address : Packets, size : Packets]
    /\ delivered \in [address : Packets, size : Packets]
    /\ bit \in 0..NumTriggers /\ loopReg \subseteq Slots

\* What keeps the types: a handler runs only with room for one more sendNext, a sink that
\* does not play has none and builds no packet, and the trigger being cleared is a trigger.
Room ==
    /\ loop = "clearTrigger" => bit \in Slots
    /\ loop \in LoopTaking \cup {"clearTrigger", "deliverFrame0", "unlock", "afterGetting",
                               "packFrame"} => sends < MaxSends
    /\ stream # "playing" => sends = 0 /\ loop # "packFrame"

\* Every variable of both threads (src/strSrc.cpp:80-99, src/VSource.cpp:12-18) has its type.
TypeInv == Flags /\ Ranges /\ Room

\* Why the hand-over is safe (src/strSrc.cpp:88-96, src/VSource.cpp:72-87 and 124-145): only
\* the encoder sets the flag and only the event loop clears it, so each owns the slot while
\* the flag says so, and a published address and size are of one packet.
HandoffInv ==
    /\ mux = "enc" <=> enc \in EncCritical
    /\ mux = "loop" <=> loop \in LoopCritical
    /\ enc \in EncFilling => ~lock
    /\ loop \in LoopTaking => lock
    /\ enc \in {"setSize", "setLock"} => address = pkt
    /\ enc = "setLock" => size = pkt
    /\ lock => address = size
    /\ loop \in {"readSize", "copy"} => frame.address = address
    /\ loop = "copy" => frame.size = size

\* The two threads implement the one-frame mailbox (src/strSrc.cpp:88-96 puts,
\* src/VSource.cpp:124-145 takes): a published frame is never overwritten before the event
\* loop took or dropped it, and what the event loop copies is one whole frame, the address
\* and the size of the same packet, taken at most once.
Mailbox == INSTANCE FrameMailbox WITH
    Packets <- {Pair(p) : p \in Packets},
    Nothing <- Pair(NoPacket),
    box     <- IF lock THEN <<[address |-> address, size |-> size]>> ELSE <<>>,
    taken   <- delivered

MailboxSpec == Mailbox!Spec

\* The event loop, when it locks the mutex in deliverFrame() (src/VSource.cpp:124), never
\* waits for an encode in progress (src/strSrc.cpp:90-96) and never for itself: frames
\* are encoded under the mutex, and all RTSP and RTP handling would stop for that long.
LoopNeverWaitsForEncode ==
    loop = "lockMux" =>
        mux # "loop" /\ enc \notin {"encode", "setAddress", "setSize", "setLock"}

\* A published frame the sink is waiting for is not forgotten (src/VSource.cpp:72-78,
\* src/strSrc.cpp:97): the trigger is pending or about to be raised, or the event loop is
\* about to look at the flag, or to clear it so that the encoder goes on.  What may break
\* this is a source replaced between the encoder's reading of eventTriggerId and the end
\* of triggerEvent(): the deleted trigger stays pending, and clearing it, a load and a
\* store, can wipe out the trigger of a later frame.
NoLostWakeup ==
    outcome = "running" /\ awaiting /\ lock =>
        \/ trigger \in pending
        \/ enc \in {"unlock", "readId"}
        \/ enc \in {"trigLoad", "trigStore"} /\ id = trigger
        \/ loop = "clearTrigger" /\ bit = trigger
        \/ loop \in {"deliverFrame0", "lockMux", "readAddress", "readSize", "copy"}
        \/ depth > 0
        \/ stale

\* The pull chain of the sink never breaks (src/live/liveMedia/MultiFramedRTPSink.cpp:194-409):
\* while a stream plays, the sink waits for a frame, has a sendNext task scheduled, or is
\* working in the event loop.
SinkKeepsPulling ==
    outcome = "running" /\ stream = "playing" =>
        \/ awaiting \/ sends > 0
        \/ loop \in {"afterGetting", "packFrame"}

\* Frames flow (src/strSrc.cpp:84-98, src/VSource.cpp:61-88): while a stream plays, a
\* published frame is taken or dropped in the end, so that the encoder leaves its spin;
\* through any sequence of streams, until a deleted trigger is raised.
EncoderReleased ==
    (lock /\ stream = "playing") ~>
        (~lock \/ stream # "playing" \/ outcome # "running" \/ stale)

\* A sink waiting for a frame gets one in the end, or stops waiting because the stream
\* is closed (or the process has ended); until a deleted trigger is raised.
ReaderServed == awaiting ~> (~awaiting \/ outcome # "running" \/ stale)

\* src/live/liveMedia/FramedSource.cpp:62-66: a source is not read "more than once at the
\* same time", which aborts the server.
NeverReadTwice == outcome # "doubleRead"

\* "We arrange here for our "deliverFrame" member function to be called whenever the next
\* frame of data becomes available" (src/VSource.cpp:32-33): a trigger never calls a source
\* that has been deleted.
DeliverToLiveSource == outcome # "danglingSource"
=============================================================================
