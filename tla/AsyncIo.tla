------------------------------- MODULE AsyncIo -------------------------------
(***************************************************************************)
(* The asynchronous file of base/aio.cpp: threads of the program put bytes *)
(* into a ring buffer, which grows when it is full; a thread of its own    *)
(* takes them out, at most LocalSize at a time, and writes them to the     *)
(* file with the lock released.  The owner closes, waits and frees; the    *)
(* memory is freed by whoever leaves last.                                 *)
(*                                                                         *)
(* Each step is one critical section, or one call outside of them.  A byte *)
(* is the number of bytes queued before it.  The owner does what the users *)
(* of the interface do (CGameContext with the teehistorian file,           *)
(* CLoggerAsync with the log): it closes or not, waits or not, and frees   *)
(* when no other thread is about to write.                                 *)
(***************************************************************************)
EXTENDS Integers, Sequences, FiniteSetsExt

CONSTANTS
    Writers,      \* the threads that write
    InitialSize,  \* ASYNC_BUFSIZE: 8 KiB
    LocalSize,    \* ASYNC_LOCAL_BUFSIZE: 64 KiB
    MaxWrite,     \* bound: bytes in one write
    MaxBytes      \* bound: bytes in all

Sizes == InitialSize \in Nat \ {0} /\ LocalSize \in Nat /\ MaxWrite \in Nat /\ MaxBytes \in Nat

VARIABLES
    buf,             \* buffer, buffer_size, read_pos, write_pos
    finish,          \* finish
    refcount, freed, \* refcount; has the memory been freed?
    error, ioError,  \* error; result_io_error of the thread
    tokens,          \* the value of sphore
    thread, local,   \* where the thread is; its local_buffer
    writer, owner,   \* where the writers and the owner are
    file,            \* what is in the file
    broken,          \* ferror: has a write to the file failed?
    closed,          \* has the file been closed?
    queued, promised \* history: bytes queued; bytes queued when finish was set

buffers == <<buf, queued>>
output  == <<file, broken, closed>>
memory  == <<refcount, freed>>
vars == <<buffers, finish, memory, error, ioError, tokens, thread, local, writer, owner, output,
          promised>>

Byte == 0 .. MaxBytes - 1
Junk == -1 \* memory that has not been written to

-----------------------------------------------------------------------------
(* The ring buffer: a record of data, size, read and write.  It is empty   *)
(* when read = write, and is never filled.                                 *)

BufferLen(b) == IF b.write >= b.read THEN b.write - b.read ELSE b.size + b.write - b.read

\* buffer_ptrs: the bytes in the buffer are in one piece, or in two.
Len1(b) == IF b.read <= b.write THEN b.write - b.read ELSE b.size - b.read
Len2(b) == IF b.read <= b.write THEN 0 ELSE b.write
Piece(b, at, n) == [i \in 1 .. n |-> b.data[at + i - 1]]
Contents(b) == Piece(b, b.read, Len1(b)) \o Piece(b, 0, Len2(b))

\* mem_copy of s into data, at position at.
Copied(data, at, s) == [p \in DOMAIN data |-> IF p - at + 1 \in DOMAIN s THEN s[p - at + 1] ELSE data[p]]

\* There is room; s may have to be cut in two.
Fill(b, s) ==
    LET room == b.size - b.write
        cut == IF Len(s) > room THEN room ELSE 0
        at == IF Len(s) > room THEN 0 ELSE b.write
        rest == SubSeq(s, cut + 1, Len(s))
    IN [b EXCEPT !.data = Copied(Copied(@, b.write, SubSeq(s, 1, cut)), at, rest),
                 !.write = (at + Len(rest)) % b.size]

\* next_buffer_size: the size is doubled until it suffices.
NextSize(size, need) ==
    LET double[k \in 0 .. need] ==
            IF k = 0 THEN size
            ELSE IF double[k - 1] < need THEN 2 * double[k - 1] ELSE double[k - 1]
    IN double[need]

\* There is no room: everything moves to the start of a larger buffer, of
\* which one byte stays free.
Grown(b, s) ==
    LET all == Contents(b) \o s
        size == NextSize(b.size, Len(all) + 1)
    IN [data |-> Copied([p \in 0 .. size - 1 |-> Junk], 0, all), size |-> size,
        read |-> 0, write |-> Len(all)]

\* aio_write_unlocked.  Fault: the buffer may be filled to the last byte.
Put_Full(b, s) == IF Len(s) <= b.size - BufferLen(b) THEN Fill(b, s) ELSE Grown(b, s)
Put(b, s) == IF Len(s) < b.size - BufferLen(b) THEN Fill(b, s) ELSE Grown(b, s)

Bytes(from, n) == [i \in 1 .. n |-> from + i - 1]

Init ==
    /\ buf = [data |-> [p \in 0 .. InitialSize - 1 |-> Junk], size |-> InitialSize,
              read |-> 0, write |-> 0]
    /\ finish = "running"
    /\ refcount = 2 /\ freed = FALSE
    /\ error = FALSE /\ ioError = FALSE
    /\ tokens = 0
    /\ thread = "look" /\ local = << >>
    /\ writer = [w \in Writers |-> "idle"] /\ owner = "open"
    /\ file = << >> /\ broken = FALSE /\ closed = FALSE
    /\ queued = 0 /\ promised = MaxBytes

-----------------------------------------------------------------------------
\* aio_write, or aio_lock and several aio_write_unlocked (m > 0), up to the
\* unlocking.
Write(w, n, m) ==
    /\ writer[w] = "idle"
    /\ owner # "gone"
    /\ queued + n + m <= MaxBytes
    /\ buf' = Put(Put(buf, Bytes(queued, n)), Bytes(queued + n, m))
    /\ queued' = queued + n + m
    /\ writer' = [writer EXCEPT ![w] = "signal"]
    /\ UNCHANGED <<finish, memory, error, ioError, tokens, thread, local, owner, output, promised>>

\* Fault: the thread is signalled for the first bytes only.
SignalWrite_Once(w) ==
    /\ writer[w] = "signal"
    /\ tokens' = IF queued > MaxWrite THEN tokens ELSE tokens + 1
    /\ writer' = [writer EXCEPT ![w] = "idle"]
    /\ UNCHANGED <<buffers, finish, memory, error, ioError, thread, local, owner, output, promised>>

\* aio_unlock: the semaphore is signalled after the unlocking.
SignalWrite(w) ==
    /\ writer[w] = "signal"
    /\ tokens' = tokens + 1
    /\ writer' = [writer EXCEPT ![w] = "idle"]
    /\ UNCHANGED <<buffers, finish, memory, error, ioError, thread, local, owner, output, promised>>

-----------------------------------------------------------------------------
\* Whoever gives up the last reference frees the memory.
Release ==
    /\ refcount' = refcount - 1
    /\ freed' = (refcount' = 0)

\* aio_close.
Close ==
    /\ owner = "open"
    /\ finish' = "close"
    /\ promised' = queued
    /\ owner' = "closing"
    /\ UNCHANGED <<buffers, memory, error, ioError, tokens, thread, local, writer, output>>

SignalClose ==
    /\ owner = "closing"
    /\ tokens' = tokens + 1
    /\ owner' = "closed"
    /\ UNCHANGED <<buffers, finish, memory, error, ioError, thread, local, writer, output, promised>>

\* aio_wait, which also ends the thread of a file that stays open.
Wait ==
    /\ owner \in {"open", "closed"}
    /\ finish' = IF finish = "running" THEN "exit" ELSE finish
    /\ promised' = IF finish = "running" THEN queued ELSE promised
    /\ owner' = "waiting"
    /\ UNCHANGED <<buffers, memory, error, ioError, tokens, thread, local, writer, output>>

\* Fault: only aio_close wakes the thread.
SignalWait_Silent ==
    /\ owner = "waiting"
    /\ owner' = "joining"
    /\ UNCHANGED <<buffers, finish, memory, error, ioError, tokens, thread, local, writer, output,
                   promised>>

SignalWait ==
    /\ owner = "waiting"
    /\ tokens' = tokens + 1
    /\ owner' = "joining"
    /\ UNCHANGED <<buffers, finish, memory, error, ioError, thread, local, writer, output, promised>>

Join ==
    /\ owner = "joining"
    /\ thread = "ended"
    /\ owner' = "waited"
    /\ UNCHANGED <<buffers, finish, memory, error, ioError, tokens, thread, local, writer, output,
                   promised>>

\* Fault: the owner frees the memory without asking the thread.
Free_Alone ==
    /\ owner \in {"closed", "waited"}
    /\ \A w \in Writers : writer[w] = "idle"
    /\ refcount' = refcount - 1 /\ freed' = TRUE
    /\ owner' = "gone"
    /\ UNCHANGED <<buffers, finish, error, ioError, tokens, thread, local, writer, output, promised>>

\* aio_free: a thread that nobody waited for is detached.
Free ==
    /\ owner \in {"closed", "waited"}
    /\ \A w \in Writers : writer[w] = "idle"
    /\ Release
    /\ owner' = "gone"
    /\ UNCHANGED <<buffers, finish, error, ioError, tokens, thread, local, writer, output, promised>>

-----------------------------------------------------------------------------
\* aio_thread, with the lock held.  The flag it brings from the last write
\* becomes the error of the file.
Leave_Early ==  \* fault: finish is looked at before the buffer is
    /\ thread = "look"
    /\ finish # "running"
    /\ error' = ioError
    /\ closed' = (finish = "close")
    /\ Release
    /\ thread' = "ended"
    /\ UNCHANGED <<buffers, finish, ioError, tokens, local, writer, owner, file, broken, promised>>

Leave ==
    /\ thread = "look"
    /\ buf.read = buf.write
    /\ finish # "running"
    /\ error' = ioError
    /\ closed' = (finish = "close")
    /\ Release
    /\ thread' = "ended"
    /\ UNCHANGED <<buffers, finish, ioError, tokens, local, writer, owner, file, broken, promised>>

Sleep ==
    /\ thread = "look"
    /\ buf.read = buf.write
    /\ finish = "running"
    /\ error' = ioError
    /\ thread' = "sleep"
    /\ UNCHANGED <<buffers, finish, memory, ioError, tokens, local, writer, owner, output, promised>>

WakeUp ==
    /\ thread = "sleep"
    /\ tokens > 0
    /\ tokens' = tokens - 1
    /\ thread' = "look"
    /\ UNCHANGED <<buffers, finish, memory, error, ioError, local, writer, owner, output, promised>>

\* The first piece, and as much of the second one as fits.
Taken1 == Min({Len1(buf), LocalSize})
Taken2_Uncapped == Len2(buf) \* fault: read_pos moves by more than was copied
Taken2 == Min({Len2(buf), LocalSize - Taken1})

Take ==
    /\ thread = "look"
    /\ buf.read # buf.write
    /\ error' = ioError
    /\ local' = Piece(buf, buf.read, Taken1) \o Piece(buf, 0, Taken2)
    /\ buf' = [buf EXCEPT !.read = (@ + Taken1 + Taken2) % buf.size]
    /\ thread' = "write"
    /\ UNCHANGED <<queued, finish, memory, ioError, tokens, writer, owner, output, promised>>

\* Fault: the error of an earlier write is forgotten.
WriteOut_Forgets(n) ==
    /\ thread = "write"
    /\ n \in 0 .. Len(local)
    /\ file' = file \o SubSeq(local, 1, n)
    /\ broken' = (broken \/ n < Len(local))
    /\ ioError' = (n < Len(local))
    /\ local' = << >>
    /\ thread' = "look"
    /\ UNCHANGED <<buffers, finish, memory, error, tokens, writer, owner, closed, promised>>

\* io_write, io_flush and io_error, without the lock.  When the file cannot
\* take all of it the rest is lost, and the flag of the file stays set.
WriteOut(n) ==
    /\ thread = "write"
    /\ n \in 0 .. Len(local)
    /\ file' = file \o SubSeq(local, 1, n)
    /\ broken' = (broken \/ n < Len(local))
    /\ ioError' = broken'
    /\ local' = << >>
    /\ thread' = "look"
    /\ UNCHANGED <<buffers, finish, memory, error, tokens, writer, owner, closed, promised>>

-----------------------------------------------------------------------------
Thread == Leave \/ Sleep \/ WakeUp \/ Take \/ \E n \in 0 .. LocalSize : WriteOut(n)
Waiting == SignalClose \/ SignalWait \/ Join
Next ==
    \/ \E w \in Writers : SignalWrite(w) \/ \E n \in 1 .. MaxWrite, m \in 0 .. MaxWrite : Write(w, n, m)
    \/ Close \/ Wait \/ Free
    \/ Waiting
    \/ Thread

Spec == Init /\ [][Next]_vars

\* The threads are scheduled; the owner goes on once it closes or waits.
Fairness ==
    /\ WF_vars(Thread) /\ WF_vars(Waiting)
    /\ \A w \in Writers : WF_vars(SignalWrite(w))

FairSpec == Spec /\ Fairness

-----------------------------------------------------------------------------
\* Every variable has its type.  The positions lie in the buffer.
TypeOK ==
    /\ buf.size \in Nat \ {0}
    /\ buf.data \in [0 .. buf.size - 1 -> Byte \cup {Junk}]
    /\ {buf.read, buf.write} \subseteq 0 .. buf.size - 1
    /\ finish \in {"running", "close", "exit"}
    /\ refcount \in 0 .. 2 /\ freed \in BOOLEAN
    /\ {error, ioError, broken, closed} \subseteq BOOLEAN
    /\ tokens \in Nat
    /\ thread \in {"look", "sleep", "write", "ended"} /\ local \in Seq(Byte) /\ Len(local) <= LocalSize
    /\ writer \in [Writers -> {"idle", "signal"}]
    /\ owner \in {"open", "closing", "closed", "waiting", "joining", "waited", "gone"}
    /\ file \in Seq(Byte)
    /\ queued \in 0 .. MaxBytes /\ promised \in 0 .. MaxBytes

\* Positions lie in the buffer, and every byte is in one place and in its
\* order: in the file, in the block the thread holds, or in the ring, however
\* often that wrapped, grew and was emptied in pieces.  A write that failed is the only thing that loses bytes.
NothingLost ==
    /\ TypeOK
    /\ local \o Contents(buf) = Bytes(queued - Len(local \o Contents(buf)), Len(local \o Contents(buf)))
    /\ ~broken => file \o local \o Contents(buf) = Bytes(0, queued)

\* "Call this function after aio_wait to see if the process of writing to the
\* file succeeded": after the wait, no error means that all that was queued
\* before aio_close, or aio_wait, is in the file, and that the file is closed
\* if that was asked for; a failed write is not forgotten.
WaitSettles ==
    owner = "waited" =>
        /\ error = broken
        /\ ~error => Len(file) >= promised
        /\ closed = (finish = "close")

\* The memory is freed after both the thread and the owner have left, and
\* no writer is left that would still signal.
FreedAlone ==
    /\ freed <=> thread = "ended" /\ owner = "gone"
    /\ freed => \A w \in Writers : writer[w] = "idle"

\* The owner learns what became of the file, and the memory outlives everybody
\* who uses it.
OwnerServed == WaitSettles /\ FreedAlone

\* Bytes get to the file and threads to their end.  What is queued before the
\* thread has left is written, as soon as the writers pause: with MaxBytes they
\* do.  aio_wait returns, and after aio_free the memory is freed.
Settled ==
    /\ broken \/ Len(file) >= IF thread = "ended" THEN promised ELSE queued
    /\ owner \notin {"waiting", "joining"}
    /\ owner = "gone" => freed

AllEnd == []<>Settled
=============================================================================
