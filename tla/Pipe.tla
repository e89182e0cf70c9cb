-------------------------------- MODULE Pipe --------------------------------
(***************************************************************************)
(* One pipe between processes: the ring, the descriptor tables its two     *)
(* ends live in, and the loops of Pipe::read and Pipe::write, which give   *)
(* the hart away when the ring is empty or full and go on where they were  *)
(* when they get it back.  The hart's satp and SUM bit are not restored    *)
(* then: read calls wait_return, which reloads satp, write does not.       *)
(*                                                                         *)
(* The k-th byte written into the pipe has the value k % Modulus, so that  *)
(* a lost, repeated or overtaking byte shows.  Of a descriptor table the   *)
(* model keeps how many descriptors refer to each end, not their numbers;  *)
(* every process also has an inode open, the end `file'.                   *)
(***************************************************************************)
EXTENDS Ring, FiniteSets

CONSTANTS
    MaxProc,    \* bound: processes ever created
    MaxFd,      \* bound: descriptors of a process for the pipe
    Modulus,    \* bytes are numbered modulo this; larger than the ring
    Lengths,    \* buffer lengths passed to read, write and writev
    MaxIov,     \* bound: buffers of one sys_writev
    SENDFILE,   \* length of the kernel buffer of sys_sendfile
    None

ASSUME PipeAssumption ==
    /\ MaxProc \in Nat \ {0} /\ MaxFd \in Nat /\ MaxIov \in Nat /\ Modulus \in Nat /\ Modulus > RING_BUFFER_SIZE
    /\ Lengths \subseteq Nat /\ SENDFILE \in Nat
    /\ Byte = 0 .. Modulus - 1
    /\ None \notin Int /\ None \notin {"r", "w", "file"}

VARIABLES
    current, satp, sum, ready_queue, halted,    \* the hart and its queue
    fd_table, next_pid,
    at,     \* "unused", "user", "read", "write" (in the loop of the call), "gone"
    io,     \* the locals of the call in progress
    made,   \* sys_pipe was called
    sent, got,  \* history: the numbers of the next byte written and read
    stray       \* history: a byte came from the memory of another process

hartVars == <<current, satp, sum, ready_queue, halted>>
fileVars == <<fd_table, next_pid, made>>
history == <<sent, got, stray>>
vars == <<ringVars, hartVars, fileVars, at, io, history>>

Procs == 0 .. MaxProc - 1
Files == {"r", "w", "file"}
Ends == {"r", "w"}
NoFds == [e \in Ends |-> 0]

\* file, out: the Arcs the call holds; left: loop_read, loop_write; more: iovecs
\* still to come; done: already_read, already_write
Idle == [call |-> "none", file |-> None, out |-> None, want |-> 0, done |-> 0,
         left |-> 0, more |-> 0]

Init ==
    /\ RingInit
    /\ current = 0 /\ satp = 0 /\ sum = TRUE /\ ready_queue = <<>> /\ halted = "no"
    /\ fd_table = [p \in Procs |-> NoFds]
    /\ next_pid = 1
    /\ at = [p \in Procs |-> IF p = 0 THEN "user" ELSE "unused"]
    /\ io = [p \in Procs |-> Idle]
    /\ made = FALSE
    /\ sent = 0 /\ got = 0 /\ stray = FALSE

Runs(p, where) == halted = "no" /\ current = p /\ at[p] = where

\* suspend_current_and_run_next
Suspend(p) ==
    /\ current' = None
    /\ ready_queue' = Append(ready_queue, p)
    /\ UNCHANGED <<satp, sum, halted>>

\* back in user mode: trap_handler ends in the space of p and restores sstatus,
\* whose SUM bit execve has set
ToUser(p) ==
    /\ at' = [at EXCEPT ![p] = "user"]
    /\ io' = [io EXCEPT ![p] = Idle]
    /\ satp' = p /\ sum' = TRUE
    /\ UNCHANGED <<current, ready_queue, halted>>

\* a descriptor or a call in progress refers to the file
Holds(p, file) ==
    fd_table[p][file] > 0 \/ file \in {io[p].file, io[p].out}

\* fault: only the table of the caller is asked
all_write_ends_closed_Own == current # None /\ ~Holds(current, "w")

\* fault: the wrong end is asked
all_write_ends_closed_ReadEnd == \A p \in Procs : ~Holds(p, "r")

\* the weak reference to the write end cannot be upgraded
all_write_ends_closed == \A p \in Procs : ~Holds(p, "w")

-----------------------------------------------------------------------------
\* run_tasks dispatches the first task of the queue
Dispatch(p) ==
    /\ halted = "no" /\ current = None
    /\ ready_queue # <<>> /\ p = Head(ready_queue)
    /\ current' = p
    /\ ready_queue' = Tail(ready_queue)
    /\ UNCHANGED <<ringVars, halted, fileVars, at, io, history>>

ResumeUser(p) == Dispatch(p) /\ at[p] = "user" /\ satp' = p /\ sum' = TRUE

\* fault: wait_return is not called
ResumeRead_NoSwitch(p) == Dispatch(p) /\ at[p] = "read" /\ UNCHANGED <<satp, sum>>

\* wait_return after the suspension in Pipe::read
ResumeRead(p) == Dispatch(p) /\ at[p] = "read" /\ satp' = p /\ UNCHANGED sum

ResumeWrite(p) == Dispatch(p) /\ at[p] = "write" /\ UNCHANGED <<satp, sum>>

TimerTick(p) ==
    /\ Runs(p, "user")
    /\ Suspend(p)
    /\ UNCHANGED <<ringVars, fileVars, at, io, history>>

-----------------------------------------------------------------------------
Tables(p, table) ==
    /\ Runs(p, "user")
    /\ fd_table' = [fd_table EXCEPT ![p] = table]
    /\ UNCHANGED <<ringVars, hartVars, next_pid, at, io, history>>

More(table, e) == [table EXCEPT ![e] = @ + 1]
Less(table, e) == [table EXCEPT ![e] = @ - 1]

\* bound: one pipe
SysPipe(p) ==
    /\ ~made /\ made' = TRUE
    /\ Tables(p, [e \in Ends |-> 1])

\* sys_dup, and sys_dup3 to a descriptor that is free or refers to an inode
SysDup(p, e) ==
    /\ fd_table[p][e] > 0 /\ fd_table[p]["r"] + fd_table[p]["w"] < MaxFd
    /\ Tables(p, More(fd_table[p], e))
    /\ UNCHANGED made

\* F_DUPFD and F_DUPFD_CLOEXEC; the other commands change nothing
SysFcntl(p, e) == SysDup(p, e)

\* sys_dup3 to a descriptor of the other end
SysDup3(p, e, over) ==
    /\ fd_table[p][e] > 0 /\ fd_table[p][over] > 0 /\ e # over
    /\ Tables(p, More(Less(fd_table[p], over), e))
    /\ UNCHANGED made

\* sys_close, and sys_dup3 of an inode to a descriptor of the pipe
SysClose(p, e) ==
    /\ fd_table[p][e] > 0
    /\ Tables(p, Less(fd_table[p], e))
    /\ UNCHANGED made

\* TaskControlBlock::fork: the child starts with a copy of the table
Fork(p) ==
    /\ Runs(p, "user") /\ next_pid < MaxProc
    /\ next_pid' = next_pid + 1
    /\ fd_table' = [fd_table EXCEPT ![next_pid] = fd_table[p]]
    /\ at' = [at EXCEPT ![next_pid] = "user"]
    /\ ready_queue' = Append(ready_queue, next_pid)
    /\ UNCHANGED <<ringVars, current, satp, sum, halted, io, made, history>>

\* exit_current_and_run_next drops the descriptors; process 0 stays
SysExit(p) ==
    /\ Runs(p, "user") /\ p # 0
    /\ current' = None
    /\ at' = [at EXCEPT ![p] = "gone"]
    /\ fd_table' = [fd_table EXCEPT ![p] = NoFds]
    /\ UNCHANGED <<ringVars, satp, sum, ready_queue, halted, next_pid, io, made, history>>

-----------------------------------------------------------------------------
Begin(p, where, locals, mode) ==
    /\ Runs(p, "user")
    /\ at' = [at EXCEPT ![p] = where]
    /\ io' = [io EXCEPT ![p] = locals]
    /\ sum' = mode
    /\ UNCHANGED <<ringVars, current, satp, ready_queue, halted, fileVars, history>>

\* sys_read of a pipe: SUM stays set during the call
SysRead(p, e, len) ==
    /\ fd_table[p][e] > 0
    /\ Begin(p, "read", [Idle EXCEPT !.call = "read", !.file = e, !.want = len], TRUE)

\* sys_write: SUM is clear again when Pipe::write is called
SysWrite(p, e, len) ==
    /\ fd_table[p][e] > 0
    /\ Begin(p, "write", [Idle EXCEPT !.call = "write", !.file = e, !.want = len], FALSE)

\* sys_writev of iovcnt buffers of the same length; the task stays borrowed
SysWritev(p, e, len, iovcnt) ==
    /\ fd_table[p][e] > 0
    /\ Begin(p, "write", [Idle EXCEPT !.call = "writev", !.file = e, !.want = len,
                                      !.more = iovcnt - 1], TRUE)

\* sys_sendfile from an inode: len bytes are in the kernel buffer
SendFromFile(p, out, len) ==
    /\ fd_table[p][out] > 0
    /\ Begin(p, "write", [Idle EXCEPT !.call = "sendfile", !.file = "file",
                                      !.out = out, !.want = len], sum)

\* sys_sendfile from a pipe: first fill the kernel buffer
SendFromPipe(p, out, in) ==
    /\ fd_table[p][in] > 0 /\ (out \in Ends => fd_table[p][out] > 0)
    /\ Begin(p, "read", [Idle EXCEPT !.call = "sendfile", !.file = in, !.out = out,
                                     !.want = SENDFILE], sum)

-----------------------------------------------------------------------------
\* the buffer is user memory, reached through satp while SUM is set
UserBuffer(p) == io[p].call # "sendfile"

\* an access that traps inside the kernel; what the kernel does next is not
\* modelled
Fault ==
    /\ halted' = "fault"
    /\ UNCHANGED <<ringVars, current, satp, sum, ready_queue, fileVars, at, io, history>>

\* the head of the loop of Pipe::read: nothing there, and nothing to come
ReadEof(p) ==
    /\ Runs(p, "read") /\ io[p].left = 0 /\ io[p].call = "read"
    /\ available_read = 0 /\ all_write_ends_closed
    /\ ToUser(p)
    /\ UNCHANGED <<ringVars, fileVars, history>>

\* nothing there: give the hart away
ReadSuspend(p) ==
    /\ Runs(p, "read") /\ io[p].left = 0
    /\ available_read = 0 /\ ~all_write_ends_closed
    /\ Suspend(p)
    /\ UNCHANGED <<ringVars, fileVars, at, io, history>>

ReadLoop(p) ==
    /\ Runs(p, "read") /\ io[p].left = 0 /\ available_read > 0
    /\ io' = [io EXCEPT ![p].left = available_read]
    /\ UNCHANGED <<ringVars, hartVars, fileVars, at, history>>

\* the buffer of a zero-length read has no next byte
ReadNothing(p) ==
    /\ Runs(p, "read") /\ io[p].left > 0 /\ io[p].done = io[p].want
    /\ ToUser(p)
    /\ UNCHANGED <<ringVars, fileVars, history>>

\* sys_sendfile turns to its write with the n bytes it got
TurnToWrite(p, n) ==
    /\ at' = [at EXCEPT ![p] = "write"]
    /\ io' = [io EXCEPT ![p].want = n, ![p].done = 0, ![p].left = 0]
    /\ UNCHANGED hartVars

SendEof(p) ==
    /\ Runs(p, "read") /\ io[p].left = 0 /\ io[p].call = "sendfile"
    /\ available_read = 0 /\ all_write_ends_closed
    /\ TurnToWrite(p, io[p].done)
    /\ UNCHANGED <<ringVars, fileVars, history>>

ReadByte(p) ==
    /\ Runs(p, "read") /\ io[p].left > 0 /\ io[p].done < io[p].want
    /\ UserBuffer(p) => sum
    /\ read_byte
    /\ got' = (got + 1) % Modulus
    /\ CASE io[p].done + 1 < io[p].want ->
                /\ io' = [io EXCEPT ![p].done = @ + 1, ![p].left = @ - 1]
                /\ UNCHANGED <<hartVars, at>>
         [] UserBuffer(p) /\ io[p].done + 1 = io[p].want -> ToUser(p)
         [] OTHER -> TurnToWrite(p, io[p].want)
    /\ UNCHANGED <<fileVars, sent, stray>>

ReadFault(p) ==
    /\ Runs(p, "read") /\ io[p].left > 0 /\ io[p].done < io[p].want
    /\ UserBuffer(p) /\ ~sum
    /\ Fault

-----------------------------------------------------------------------------
\* the Arc that is written: sys_sendfile may write an inode
Target(p) == IF io[p].call = "sendfile" THEN io[p].out ELSE io[p].file

\* an inode takes all the bytes at once
SendToFile(p) ==
    /\ Runs(p, "write") /\ Target(p) = "file"
    /\ ToUser(p)
    /\ UNCHANGED <<ringVars, fileVars, history>>

\* in the loop of Pipe::write
Writes(p) == Runs(p, "write") /\ Target(p) # "file"

\* Pipe::write returns; sys_writev goes on to its next buffer
WriteReturn(p) ==
    IF io[p].more = 0
    THEN ToUser(p)
    ELSE /\ io' = [io EXCEPT ![p].more = @ - 1, ![p].done = 0, ![p].left = 0]
         /\ sum' = TRUE
         /\ UNCHANGED <<at, current, satp, ready_queue, halted>>

WriteSuspend(p) ==
    /\ Writes(p) /\ io[p].left = 0 /\ available_write = 0
    /\ io[p].call # "writev"
    /\ Suspend(p)
    /\ UNCHANGED <<ringVars, fileVars, at, io, history>>

\* suspend_current_and_run_next borrows the task that sys_writev has borrowed
WriteBorrow(p) ==
    /\ Writes(p) /\ io[p].left = 0 /\ available_write = 0
    /\ io[p].call = "writev"
    /\ halted' = "borrow"
    /\ UNCHANGED <<ringVars, current, satp, sum, ready_queue, fileVars, at, io, history>>

\* fault: the room is counted one too high
WriteLoop_Room(p) ==
    /\ Writes(p) /\ io[p].left = 0 /\ available_write > 0
    /\ io' = [io EXCEPT ![p].left = available_write + 1]
    /\ UNCHANGED <<ringVars, hartVars, fileVars, at, history>>

WriteLoop(p) ==
    /\ Writes(p) /\ io[p].left = 0 /\ available_write > 0
    /\ io' = [io EXCEPT ![p].left = available_write]
    /\ UNCHANGED <<ringVars, hartVars, fileVars, at, history>>

WriteNothing(p) ==
    /\ Writes(p) /\ io[p].left > 0 /\ io[p].done = io[p].want
    /\ WriteReturn(p)
    /\ UNCHANGED <<ringVars, fileVars, history>>

WriteByte(p) ==
    /\ Writes(p) /\ io[p].left > 0 /\ io[p].done < io[p].want
    /\ UserBuffer(p) => sum
    /\ write_byte(sent)
    /\ sent' = (sent + 1) % Modulus
    /\ stray' = (stray \/ (UserBuffer(p) /\ satp # p))
    /\ IF io[p].done + 1 = io[p].want
       THEN WriteReturn(p)
       ELSE /\ io' = [io EXCEPT ![p].done = @ + 1, ![p].left = @ - 1]
            /\ UNCHANGED <<hartVars, at>>
    /\ UNCHANGED <<fileVars, got>>

\* SUM is clear, or another space is active and does not map the address
WriteFault(p) ==
    /\ Writes(p) /\ io[p].left > 0 /\ io[p].done < io[p].want
    /\ UserBuffer(p) /\ (~sum \/ satp # p)
    /\ Fault

-----------------------------------------------------------------------------
Kernel(p) ==
    \/ ResumeUser(p) \/ ResumeRead(p) \/ ResumeWrite(p)
    \/ ReadEof(p) \/ ReadSuspend(p) \/ ReadLoop(p) \/ ReadNothing(p) \/ SendEof(p)
    \/ ReadByte(p) \/ ReadFault(p)
    \/ SendToFile(p) \/ WriteSuspend(p) \/ WriteBorrow(p) \/ WriteLoop(p)
    \/ WriteNothing(p) \/ WriteByte(p) \/ WriteFault(p)

User(p) ==
    \/ SysPipe(p) \/ Fork(p) \/ SysExit(p)
    \/ \E e \in Ends :
        \/ SysDup(p, e) \/ SysFcntl(p, e) \/ SysClose(p, e)
        \/ \E over \in Ends : SysDup3(p, e, over)
        \/ \E len \in Lengths :
            \/ SysRead(p, e, len) \/ SysWrite(p, e, len) \/ SendFromFile(p, e, len)
            \/ \E iovcnt \in 1 .. MaxIov : SysWritev(p, e, len, iovcnt)
        \/ \E out \in Files : SendFromPipe(p, out, e)

\* the kernel panicked
Halt == halted # "no" /\ UNCHANGED vars

Next == Halt \/ \E p \in Procs : Kernel(p) \/ TimerTick(p) \/ User(p)

Spec == Init /\ [][Next]_vars

\* the kernel goes on, and timer interrupts keep coming while a process runs in
\* user mode, however many system calls it makes
FairSpec ==
    /\ Spec
    /\ \A p \in Procs : WF_vars(Kernel(p)) /\ SF_vars(TimerTick(p))

-----------------------------------------------------------------------------
\* However the calls of several readers and writers interleave, the ring holds
\* exactly the bytes written and not yet read, each once and in the order they
\* were written: loop_read and loop_write are still true when they are used
DeliveredInOrder ==
    /\ available_read = (sent - got) % Modulus
    /\ \A k \in 0 .. available_read - 1 :
        arr[(head + k) % RING_BUFFER_SIZE] = (got + k) % Modulus

\* A byte that leaves the pipe for a user buffer is stored while the reader's
\* own address space is active, though other processes ran while it waited:
\* that is what the wait_return in Pipe::read is for
StoredAtHome ==
    [][got' # got => ~UserBuffer(current) \/ satp = current]_vars

NoWriter == \A q \in Procs : ~Holds(q, "w")

\* Pipe::read comes back with fewer bytes than asked for only at the end of the
\* stream: nothing is left in the ring and no process can write any more
ShortReadIsEof ==
    [][\A p \in Procs :
        (at[p] = "read" /\ at'[p] # "read" /\ got' = got /\ io[p].done < io[p].want)
            => /\ available_read = 0
               /\ NoWriter]_vars

\* A reader is not left waiting for a writer that is gone: once no write end is
\* held anywhere, every read in progress returns
ReadersSeeTheEnd ==
    \A p \in Procs :
        (at[p] = "read" /\ NoWriter) ~> (at[p] # "read" \/ halted # "no")

\* The bytes a process writes are its own: when a suspended writer gets the hart
\* back, its address space is active before it touches its buffer
WrittenFromHome == ~stray
=============================================================================
