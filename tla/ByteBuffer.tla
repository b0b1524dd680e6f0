----------------------------- MODULE ByteBuffer -----------------------------
(* Buffer of lib/buffer.cpp: one vector, and the positions of what can be read in it. *)
EXTENDS Integers, Sequences

CONSTANTS
    FirstSize,      \* initBuffSize
    ExtraSize,      \* the second buffer of ReadFd
    MaxLength       \* bound: the bytes in the buffer and in one operation

ASSUME BufferAssumption == FirstSize \in Nat /\ ExtraSize \in Nat /\ MaxLength \in Nat

VARIABLES
    buffer,         \* buffer_, from 0
    readPos, writePos,
    due             \* the bytes put in and not yet taken out

bbVars == <<buffer, readPos, writePos, due>>

\* A byte is the number of its turn; more are told apart than are ever in the buffer.
Zero == 0
Turns == MaxLength + 2
Fresh(n) == LET last == IF due = <<>> THEN 0 ELSE due[Len(due)]
            IN  [i \in 1..n |-> ((last + i - 1) % Turns) + 1]

ReadableBytes(b)    == b.writePos - b.readPos
WritableBytes(b)    == Len(b.buffer) - b.writePos
PrependableBytes(b) == b.readPos

The == [buffer |-> buffer, readPos |-> readPos, writePos |-> writePos]

BBInit ==
    /\ buffer = [i \in 1..FirstSize |-> Zero]
    /\ readPos = 0 /\ writePos = 0 /\ due = <<>>

\* The bytes of str copied to position pos on (positions count from 0).
Copied(buf, pos, str) ==
    [i \in 1..Len(buf) |-> IF i \in pos + 1..pos + Len(str) THEN str[i - pos] ELSE buf[i]]

\* resize() keeps the content where it is.
MakeSpace_(b, len) ==
    IF WritableBytes(b) + PrependableBytes(b) < len
    THEN [b EXCEPT !.buffer = [i \in 1..b.writePos + len + 1 |-> IF i <= Len(@) THEN @[i] ELSE Zero]]
    ELSE [buffer   |-> Copied(b.buffer, 0, SubSeq(b.buffer, b.readPos + 1, b.writePos)),
          readPos  |-> 0,
          writePos |-> ReadableBytes(b)]

EnsureWriteable(b, len) == IF WritableBytes(b) < len THEN MakeSpace_(b, len) ELSE b

\* Mutant: the bytes go where the end was before there was room for them.
Append_early(b, str) ==
    LET e == EnsureWriteable(b, Len(str))
    IN  [e EXCEPT !.buffer = Copied(@, b.writePos, str), !.writePos = @ + Len(str)]

Append_(b, str) ==
    LET e == EnsureWriteable(b, Len(str))
    IN  [e EXCEPT !.buffer = Copied(@, e.writePos, str), !.writePos = @ + Len(str)]

Becomes(b) == buffer' = b.buffer /\ readPos' = b.readPos /\ writePos' = b.writePos

Appends(n) ==
    /\ Len(due) + n <= MaxLength
    /\ Becomes(Append_(The, Fresh(n)))
    /\ due' = due \o Fresh(n)

\* readv() fills the free end and then the second buffer, which is appended.
ReadFd(n) ==
    LET writable == WritableBytes(The)
        got      == Fresh(n)
    IN  /\ Len(due) + n <= MaxLength /\ n <= writable + ExtraSize
        /\ IF n <= writable
           THEN Becomes([The EXCEPT !.buffer = Copied(@, writePos, got), !.writePos = @ + n])
           ELSE Becomes(Append_([The EXCEPT !.buffer = Copied(@, writePos, SubSeq(got, 1, writable)),
                                            !.writePos = Len(buffer)],
                                SubSeq(got, writable + 1, n)))
        /\ due' = due \o got

\* Retrieve(), RetrieveUntil(), and WriteFd() that wrote n bytes.
Retrieve(n) ==
    /\ n <= ReadableBytes(The)
    /\ readPos' = readPos + n
    /\ due' = SubSeq(due, n + 1, Len(due))
    /\ UNCHANGED <<buffer, writePos>>

RetrieveAll ==
    /\ buffer' = [i \in 1..Len(buffer) |-> Zero]
    /\ readPos' = 0 /\ writePos' = 0 /\ due' = <<>>

BBNext ==
    \/ \E n \in 0..MaxLength : Appends(n) \/ ReadFd(n) \/ Retrieve(n)
    \/ RetrieveAll

BBSpec == BBInit /\ [][BBNext]_bbVars

-----------------------------------------------------------------------------
\* What can be read from the buffer is what was put in and not taken out, in its order,
\* through every move to the front, every growth and every read that fills both buffers.
BufferExact ==
    /\ readPos <= writePos /\ writePos <= Len(buffer)
    /\ SubSeq(buffer, readPos + 1, writePos) = due
=============================================================================
