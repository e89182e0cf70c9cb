------------------------------- MODULE SdCard -------------------------------
(***************************************************************************)
(* The SD card driver of the VisionFive 2 (os/libs/visionfive2-sd) and the *)
(* block device on top of it (drivers/block/vf2_sd.rs).  The driver polls  *)
(* the registers of a controller that works on its own: a step of either   *)
(* is an action.  A wait of the driver polls until what it waits for holds *)
(* or its time is up, which can be at any poll; a poll that finds neither  *)
(* changes nothing.                                                        *)
(*                                                                         *)
(* The controller and the card are external, modelled from the registers   *)
(* the driver reads and writes.  A word is what one access to the FIFO     *)
(* moves.  A sector that was written with the value v holds the words      *)
(* <<v, 1>> .. <<v, WORDS>>.                                               *)
(***************************************************************************)
EXTENDS Naturals, SequencesExt

CONSTANTS
    NSectors,
    Values,
    WORDS,          \* words of a sector
    SPAN,           \* sectors of a read_offset or write_offset
    FIFO_DEPTH,
    WATERMARK,      \* words in the FIFO that raise RXDR
    Faults          \* errors of the controller: subset of {"data", "response"}

ASSUME SdAssumption ==
    /\ NSectors \in Nat /\ SPAN \in 1 .. NSectors
    /\ WORDS \in Nat /\ FIFO_DEPTH \in Nat
    /\ WATERMARK \in 2 .. FIFO_DEPTH /\ WATERMARK <= WORDS
    /\ Faults \subseteq {"data", "response"}

Sectors == 0 .. NSectors - 1
Words(v) == [k \in 1 .. WORDS |-> <<v, k>>]
ScrWord == <<"scr", 1>>

VARIABLES
    pc,
    todo,   \* the commands still to send, the first one is current
    snap,   \* the interrupts read in this pass
    buf,    \* the words moved for the current command
    out,    \* what the call has read so far
    rca,    \* the address of the card, as the driver knows it
    call,   \* the call: init, read_offset or write_offset
    start, wire,    \* the command register: its start bit and the command
    ints,           \* the raw interrupt status
    fifo,
    busy,           \* data_busy of the status register
    resp,           \* the response registers
    act,    \* the command the controller is sending to the card
    xfer,   \* the data transfer that is going on
    cardst, \* the state of the card
    ready,  \* it has powered up
    card,
    late,   \* history: a wait has ended before what it waited for
    faulty, \* history: the controller has reported an error of the card
    want    \* history: what the card should hold

driver == <<pc, todo, snap, buf, out, rca, call>>
registers == <<start, wire, ints, fifo, busy, resp>>
device == <<act, xfer, cardst, ready, card>>
controller == <<registers, device>>
sdvars == <<driver, controller, late, faulty, want>>

\* addr, the card a command is for, is filled in when it is sent.
Cmd(name, sector) == [name |-> name, sector |-> sector, addr |-> "none"]
NoCmd == Cmd("none", 0)
NoTransfer == [dir |-> "none", sector |-> 0, words |-> <<>>]

IsRead(c) == c.name \in {"ReadSingleBlock", "SendScr"}
IsWrite(c) == c.name = "WriteSingleBlock"
data_expected(c) == IsRead(c) \/ IsWrite(c)
response_expect(c) == c.name # "ResetClock"

\* An error of these is not looked at; of all others the result is unwrapped.
Tolerated(c) == c.name \in {"ResetClock", "GoIdleState", "AllSendCid", "SendScr", "AppCmd0"}

\* The commands of each part of init_sdcard.
reset_clock == <<Cmd("ResetClock", 0), Cmd("ResetClock", 0)>>
check_version == <<Cmd("SendIfCond", 0)>>
check_big_support == <<Cmd("AppCmd0", 0), Cmd("SdSendOpCond", 0)>>
check_cid == <<Cmd("AllSendCid", 0)>>
check_rca == <<Cmd("SendRelativeAddr", 0)>>
check_csd == <<Cmd("SendCsd", 0)>>
select_card == <<Cmd("SelectCard", 0)>>
check_bus_width == <<Cmd("AppCmd", 0), Cmd("SendScr", 0)>>
test_read == <<Cmd("ReadSingleBlock", 0)>>

\* fault: the card is never selected.
init_sdcard_Unselected ==
    reset_clock \o <<Cmd("GoIdleState", 0)>> \o check_version \o check_big_support
        \o check_cid \o check_rca \o check_csd
        \o check_bus_width \o test_read

init_sdcard ==
    reset_clock \o <<Cmd("GoIdleState", 0)>> \o check_version \o check_big_support
        \o check_cid \o check_rca \o check_csd
        \o select_card \o check_bus_width \o test_read

sd_read_block(s) == Cmd("ReadSingleBlock", s)
sd_write_block(s) == Cmd("WriteSingleBlock", s)

-----------------------------------------------------------------------------
(* The driver.                                                             *)

cmd == Head(todo)

SdInit ==
    /\ pc = "can_send" /\ todo = init_sdcard
    /\ snap = {} /\ buf = <<>> /\ out = <<>> /\ rca = "none"
    /\ call = [op |-> "init", at |-> 0, vals |-> <<>>]
    /\ start = FALSE /\ wire = NoCmd /\ ints = {} /\ fifo = <<>>
    /\ busy = FALSE /\ resp = "none" /\ act = NoCmd /\ xfer = NoTransfer
    /\ cardst = "idle" /\ ready = FALSE
    /\ card \in [Sectors -> {Words(v) : v \in Values}]
    /\ late = FALSE /\ faulty = FALSE /\ want = card

Goto(where) == pc' = where /\ UNCHANGED <<todo, snap, buf, out, rca, call>>

\* A wait whose end is asserted.
MustWait(at, cond, next) ==
    /\ pc = at
    /\ \/ cond /\ Goto(next) /\ UNCHANGED late
       \/ ~cond /\ Goto("panic") /\ late' = TRUE
    /\ UNCHANGED <<controller, faulty, want>>

\* A wait whose result is ignored.
MayWait(at, cond, next) ==
    /\ pc = at
    /\ Goto(next)
    /\ late' = (late \/ ~cond)
    /\ UNCHANGED <<controller, faulty, want>>

wait_can_send_cmd ==
    MustWait("can_send", ~start, IF data_expected(cmd) THEN "can_send_data" ELSE "send")

wait_can_send_data == MustWait("can_send_data", ~busy, "send")

\* The command register is written; its start bit stays set until the
\* controller has taken the command.
SendCmd ==
    /\ pc = "send"
    /\ start' = TRUE /\ wire' = [cmd EXCEPT !.addr = rca]
    /\ pc' = "accept" /\ snap' = {}
    /\ buf' = IF IsRead(cmd) THEN <<>> ELSE buf
    /\ UNCHANGED <<todo, out, rca, call>>
    /\ UNCHANGED <<ints, fifo, busy, resp, device, late, faulty, want>>

AfterResponse == IF data_expected(cmd) THEN "sample" ELSE "finish"

wait_accept ==
    MayWait("accept", ~start,
            IF response_expect(cmd) THEN "response" ELSE AfterResponse)

wait_response == MayWait("response", "cmd_done" \in ints, AfterResponse)

\* One pass of the closure of sleep_ms_until reads the interrupts once.
SampleStatus ==
    /\ pc = "sample"
    /\ snap' = ints
    /\ pc' = IF IsRead(cmd)
             THEN IF "rxdr" \in ints THEN "drain" ELSE "check"
             ELSE IF "txdr" \in ints THEN "fill" ELSE "check"
    /\ UNCHANGED <<todo, buf, out, rca, call, controller, late, faulty, want>>

\* A word beyond the end of the buffer panics.  A read of the card register has
\* a buffer of a sector as well.
DrainFifo ==
    /\ pc = "drain"
    /\ IF fifo = <<>>
       THEN pc' = "check" /\ UNCHANGED <<buf, fifo>>
       ELSE IF Len(buf) = WORDS
       THEN pc' = "panic" /\ UNCHANGED <<buf, fifo>>
       ELSE /\ buf' = Append(buf, Head(fifo)) /\ fifo' = Tail(fifo)
            /\ pc' = pc
    /\ UNCHANGED <<todo, snap, out, rca, call, late, faulty, want>>
    /\ UNCHANGED <<start, wire, ints, busy, resp, device>>

\* fault: data_offset stays at the first sector.
FillFifo_First ==
    /\ pc = "fill"
    /\ IF Len(fifo) < FIFO_DEPTH /\ Len(buf) < WORDS
       THEN LET w == Words(call.vals[1])[Len(buf) + 1]
            IN  buf' = Append(buf, w) /\ fifo' = Append(fifo, w) /\ pc' = pc
       ELSE pc' = "check" /\ UNCHANGED <<buf, fifo>>
    /\ UNCHANGED <<todo, snap, out, rca, call, late, faulty, want>>
    /\ UNCHANGED <<start, wire, ints, busy, resp, device>>

\* buf holds the words already sent.
FillFifo ==
    /\ pc = "fill"
    /\ IF Len(fifo) < FIFO_DEPTH /\ Len(buf) < WORDS
       THEN LET w == Words(call.vals[SPAN - Len(todo) + 1])[Len(buf) + 1]
            IN  buf' = Append(buf, w) /\ fifo' = Append(fifo, w) /\ pc' = pc
       ELSE pc' = "check" /\ UNCHANGED <<buf, fifo>>
    /\ UNCHANGED <<todo, snap, out, rca, call, late, faulty, want>>
    /\ UNCHANGED <<start, wire, ints, busy, resp, device>>

\* fault: the end is looked for in a second read of the interrupts.
CheckPass_Again ==
    /\ pc = "check"
    /\ pc' = IF ints \cap {"dto", "error"} # {} THEN "finish" ELSE "sample"
    /\ UNCHANGED <<todo, snap, buf, out, rca, call, controller, late, faulty, want>>

\* The end is looked for in what was read before the FIFO was drained.
CheckPass ==
    /\ pc = "check"
    /\ pc' = IF snap \cap {"dto", "error"} # {} THEN "finish" ELSE "sample"
    /\ UNCHANGED <<todo, snap, buf, out, rca, call, controller, late, faulty, want>>

\* fault: the data is waited for without a limit.
DataTimeUp_Never == FALSE /\ UNCHANGED sdvars

\* The 250 ms of the data are over: the command ends all the same.
DataTimeUp ==
    /\ pc = "check" /\ snap \cap {"dto", "error"} = {}
    /\ pc' = "finish" /\ late' = TRUE
    /\ UNCHANGED <<todo, snap, buf, out, rca, call, controller, faulty, want>>

Padded == buf \o [k \in 1 .. WORDS - Len(buf) |-> <<"zero", 0>>]

\* The interrupts are read and cleared, and an error is found.  A call ends with
\* its last command; a write_offset whose data ends before panics.
FinishCmd ==
    /\ pc = "finish"
    /\ LET failed == "error" \in ints
           again == cmd.name = "SdSendOpCond" /\ resp # "ocr_ready"
           rest == IF again THEN check_big_support \o Tail(todo) ELSE Tail(todo)
           short == /\ rest # <<>> /\ IsWrite(Head(rest))
                    /\ SPAN - Len(rest) + 1 > Len(call.vals)
       IN  /\ pc' = IF (failed /\ ~Tolerated(cmd)) \/ short THEN "panic"
                    ELSE IF rest = <<>> THEN "idle" ELSE "can_send"
           /\ todo' = rest
           /\ rca' = IF cmd.name = "SendRelativeAddr" THEN resp ELSE rca
           /\ out' = IF cmd.name = "ReadSingleBlock" /\ call.op = "read"
                     THEN out \o Padded ELSE out
           /\ fifo' = IF cmd.name = "SendScr" /\ fifo # <<>> THEN Tail(fifo) ELSE fifo
    /\ ints' = {} /\ snap' = {} /\ buf' = <<>>
    /\ UNCHANGED <<call, start, wire, busy, resp, device, late, faulty, want>>

\* The driver is not followed beyond the call in which a wait ended early.
Call(op, at, vals) ==
    /\ pc = "idle" /\ ~late
    /\ call' = [op |-> op, at |-> at, vals |-> vals]
    /\ todo' = [k \in 1 .. SPAN |->
                   LET s == at \div WORDS + k - 1
                   IN  IF op = "read" THEN sd_read_block(s) ELSE sd_write_block(s)]
    /\ pc' = IF op = "write" /\ vals = <<>> THEN "panic" ELSE "can_send"
    /\ out' = <<>>
    /\ UNCHANGED <<snap, buf, rca, controller, late, faulty>>

\* at counts words.
sd_read_offset(at) == Call("read", at, <<>>) /\ UNCHANGED want

\* The data goes to whole sectors from the one at lies in, one value each.
sd_write_offset(at, vals) ==
    /\ Call("write", at, vals)
    /\ want' = [s \in Sectors |->
                   IF s - at \div WORDS + 1 \in DOMAIN vals
                   THEN Words(vals[s - at \div WORDS + 1]) ELSE want[s]]

-----------------------------------------------------------------------------
(* The controller and the card.                                            *)

\* A command waits for the one before and for its data.
TakeCommand ==
    /\ start /\ act = NoCmd /\ xfer = NoTransfer
    /\ start' = FALSE
    /\ act' = IF response_expect(wire) THEN wire ELSE NoCmd
    /\ UNCHANGED <<driver, wire, ints, fifo, busy, resp, xfer, cardst, ready, card>>
    /\ UNCHANGED <<late, faulty, want>>

Legal(c) ==
    cardst = CASE c.name = "GoIdleState" -> "none"
               [] c.name \in {"SendIfCond", "AppCmd0", "SdSendOpCond"} -> "idle"
               [] c.name = "AllSendCid" -> "ready"
               [] c.name = "SendRelativeAddr" -> "ident"
               [] c.name \in {"SendCsd", "SelectCard"} ->
                      IF c.addr = "rca" THEN "stby" ELSE "other"
               [] c.name = "AppCmd" -> IF c.addr = "rca" THEN "tran" ELSE "other"
               [] OTHER -> "tran"

CardStateAfter(c) ==
    CASE c.name = "SdSendOpCond" -> IF ready THEN "ready" ELSE cardst
      [] c.name = "AllSendCid" -> "ident"
      [] c.name = "SendRelativeAddr" -> "stby"
      [] c.name = "SelectCard" -> "tran"
      [] OTHER -> cardst

ResponseTo(c) ==
    CASE c.name = "SdSendOpCond" -> IF ready THEN "ocr_ready" ELSE "ocr_busy"
      [] c.name = "SendRelativeAddr" -> "rca"
      [] OTHER -> "r1"

Respond ==
    /\ act # NoCmd /\ Legal(act)
    /\ ints' = ints \cup {"cmd_done"}
    /\ resp' = ResponseTo(act) /\ cardst' = CardStateAfter(act)
    /\ act' = NoCmd
    /\ busy' = (busy \/ data_expected(act))
    /\ xfer' = IF act.name = "ReadSingleBlock"
               THEN [dir |-> "in", sector |-> act.sector, words |-> card[act.sector]]
               ELSE IF act.name = "SendScr"
               THEN [dir |-> "in", sector |-> 0, words |-> <<ScrWord>>]
               ELSE IF IsWrite(act)
               THEN [dir |-> "out", sector |-> act.sector, words |-> <<>>]
               ELSE xfer
    /\ UNCHANGED <<driver, start, wire, fifo, ready, card, late, faulty, want>>

\* The card does not answer: a fault, a command out of order, or GoIdleState,
\* which has no answer although the driver asks the controller to expect one.
NoResponse ==
    /\ act # NoCmd /\ (~Legal(act) \/ "response" \in Faults)
    /\ ints' = ints \cup {"cmd_done", "error"}
    /\ act' = NoCmd
    /\ cardst' = IF act.name = "GoIdleState" THEN "idle" ELSE cardst
    /\ faulty' = (faulty \/ Legal(act))
    /\ UNCHANGED <<driver, start, wire, fifo, busy, resp, xfer, ready, card>>
    /\ UNCHANGED <<late, want>>

PowerUp ==
    /\ ~ready /\ ready' = TRUE
    /\ UNCHANGED <<driver, registers, act, xfer, cardst, card, late, faulty, want>>

\* The clock of the card stops while the FIFO is full.
DataIn ==
    /\ xfer.dir = "in" /\ xfer.words # <<>> /\ Len(fifo) < FIFO_DEPTH
    /\ fifo' = Append(fifo, Head(xfer.words))
    /\ xfer' = [xfer EXCEPT !.words = Tail(@)]
    /\ ints' = IF Len(fifo) + 1 >= WATERMARK THEN ints \cup {"rxdr"} ELSE ints
    /\ UNCHANGED <<driver, start, wire, busy, resp, act, cardst, ready, card>>
    /\ UNCHANGED <<late, faulty, want>>

DataRequest ==
    /\ xfer.dir = "out" /\ Len(fifo) < WATERMARK /\ "txdr" \notin ints
    /\ ints' = ints \cup {"txdr"}
    /\ UNCHANGED <<driver, start, wire, fifo, busy, resp, device, late, faulty, want>>

DataOut ==
    /\ xfer.dir = "out" /\ fifo # <<>> /\ Len(xfer.words) < WORDS
    /\ fifo' = Tail(fifo)
    /\ xfer' = [xfer EXCEPT !.words = Append(@, Head(fifo))]
    /\ UNCHANGED <<driver, start, wire, ints, busy, resp, act, cardst, ready, card>>
    /\ UNCHANGED <<late, faulty, want>>

DataDone ==
    /\ \/ xfer.dir = "in" /\ xfer.words = <<>> /\ UNCHANGED card
       \/ /\ xfer.dir = "out" /\ Len(xfer.words) = WORDS
          /\ card' = [card EXCEPT ![xfer.sector] = xfer.words]
    /\ ints' = ints \cup {"dto"}
    /\ xfer' = NoTransfer /\ busy' = FALSE
    /\ UNCHANGED <<driver, start, wire, fifo, resp, act, cardst, ready>>
    /\ UNCHANGED <<late, faulty, want>>

DataFault ==
    /\ "data" \in Faults /\ xfer # NoTransfer
    /\ ints' = ints \cup {"error"}
    /\ xfer' = NoTransfer /\ busy' = FALSE /\ faulty' = TRUE
    /\ UNCHANGED <<driver, start, wire, fifo, resp, act, cardst, ready, card>>
    /\ UNCHANGED <<late, want>>

-----------------------------------------------------------------------------
DriverStep ==
    \/ wait_can_send_cmd \/ wait_can_send_data \/ SendCmd \/ wait_accept
    \/ wait_response \/ SampleStatus \/ DrainFifo \/ FillFifo \/ CheckPass
    \/ DataTimeUp \/ FinishCmd

ControllerStep ==
    \/ TakeCommand \/ Respond \/ NoResponse \/ PowerUp
    \/ DataIn \/ DataRequest \/ DataOut \/ DataDone \/ DataFault

\* The sectors a call can start in.
Starts == 0 .. NSectors - SPAN

SdCall ==
    \/ \E s \in Starts, k \in 0 .. WORDS - 1 : sd_read_offset(s * WORDS + k)
    \/ \E s \in Starts : \E vals \in [1 .. SPAN -> Values] :
           sd_write_offset(s * WORDS, vals)
    \/ \E s \in Starts, k \in 0 .. WORDS - 1, n \in 0 .. SPAN - 1 :
           \E vals \in [1 .. n -> Values] : sd_write_offset(s * WORDS + k, vals)

SdNext == DriverStep \/ ControllerStep \/ SdCall

\* The contents of SPAN sectors from s on.
Contents(s) == FlattenSeq([k \in 1 .. SPAN |-> card[s + k - 1]])

\* A read_offset returns what is on the card from its offset on, however the
\* filling of the FIFO, its draining and the end of the transfer interleave; no
\* word left in the FIFO by an earlier command gets into it, the card register
\* read during init_sdcard included.
ReadExact ==
    pc = "idle" /\ call.op = "read" /\ ~late =>
        SubSeq(out, (call.at % WORDS) + 1, Len(out))
          = SubSeq(Contents(call.at \div WORDS), (call.at % WORDS) + 1, SPAN * WORDS)

\* When write_offset has returned, its sectors hold its data and no other sector
\* of the card has changed.
WriteExact == pc = "idle" /\ ~late => card = want

\* No assert, unwrap or index of the driver fails as long as the controller
\* answers in time and without an error, and write_offset has all its data:
\* every command finds the card in a state that allows it, and the error of
\* GoIdleState, which is expected, is cleared before the next command.
PanicsOnlyOnFault ==
    pc = "panic" => late \/ faulty \/ (call.op = "write" /\ Len(call.vals) < SPAN)

=============================================================================
