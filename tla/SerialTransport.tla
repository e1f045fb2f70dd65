--------------------------- MODULE SerialTransport ---------------------------
(***************************************************************************)
(* One call of collect_stream (transport.py): open the port, reset it, wait,*)
(* write the request of a probe, then read until the total timeout, the    *)
(* idle timeout or the size limit, and close.                              *)
(*                                                                         *)
(* Bytes are named by the order in which they reach the port, so what is   *)
(* kept, lost or reordered can be told apart.  Time is counted in ticks    *)
(* from the start of the collection and stops at Ceiling, past which every *)
(* deadline has gone by.  The serial library is modelled as collect_stream *)
(* relies on it: a read blocks until it has all it asked for or its own    *)
(* timeout has passed, and returns what there is.  The analysis of what    *)
(* was collected is in FrameStream.                                        *)
(***************************************************************************)
EXTENDS Integers, Sequences, SequencesExt, FiniteSetsExt

CONSTANTS
    TotalTimeout, IdleTimeout,  \* ticks
    ReadTimeout,                \* of one read: min(idle, total, 0.05)
    READ_SIZE,
    MaxResponseSize,
    RequestSize,                \* bytes of the encoded request
    MaxBytes                    \* bound: bytes that reach the port

VARIABLES
    operation,      \* probe or monitor
    prompt,         \* the process runs whenever it can; otherwise it may lag
    pc, open,
    now,            \* monotonic() - start
    arrivals,       \* when each byte reached the port
    buffer,         \* bytes received by the system and not read
    discarded,      \* bytes dropped by the reset of the input buffer
    written,        \* bytes of the request that went out
    readUntil,      \* when the pending read gives up
    got,            \* what the last read returned
    raw, chunks, lastReceived,
    outcome

portVars == <<arrivals, buffer, discarded, written>>
loopVars == <<readUntil, got, raw, chunks, lastReceived>>
vars == <<operation, prompt, pc, open, now, portVars, loopVars, outcome>>

ASSUME TransportAssumption ==
    /\ 0 < ReadTimeout /\ ReadTimeout <= IdleTimeout /\ IdleTimeout <= TotalTimeout
    /\ {ReadTimeout, IdleTimeout, TotalTimeout, MaxBytes} \subseteq Nat
    /\ {READ_SIZE, MaxResponseSize, RequestSize} \subseteq Nat \ {0}

Ceiling == TotalTimeout + ReadTimeout
Times == 0..Ceiling
NotYet == -1

Bytes == 1..MaxBytes
Chunks == [at : Times, data : Seq(Bytes)]

Collecting == {"looping", "checked", "reading", "received"}

TypeOK ==
    /\ operation \in {"probe", "monitor"} /\ prompt \in BOOLEAN
    /\ pc \in {"closed", "opened", "settling", "done"} \cup Collecting
    /\ open \in BOOLEAN
    /\ now \in Times /\ readUntil \in Times
    /\ arrivals \in Seq(Times) /\ discarded \in 0..MaxBytes
    /\ buffer \in Seq(Bytes) /\ got \in Seq(Bytes)
    /\ written \in 0..RequestSize
    /\ raw \in Seq(Bytes) /\ Len(raw) <= MaxResponseSize + 1
    /\ chunks \in Seq(Chunks)
    /\ lastReceived \in Times \cup {NotYet}
    /\ outcome \in {"none", "returned", "open-error", "line-error", "write-error",
                    "read-error", "too-large"}

-----------------------------------------------------------------------------
Init ==
    /\ operation \in {"probe", "monitor"} /\ prompt \in BOOLEAN
    /\ pc = "closed" /\ open = FALSE
    /\ now = 0
    /\ arrivals = << >> /\ buffer = << >> /\ discarded = 0
    /\ written = 0
    /\ readUntil = 0 /\ got = << >>
    /\ raw = << >> /\ chunks = << >> /\ lastReceived = NotYet
    /\ outcome = "none"

\* The finally clause closes the port on every way out.
Exit(result) ==
    /\ pc' = "done"
    /\ open' = FALSE
    /\ outcome' = result

Open ==
    /\ pc = "closed"
    /\ pc' = "opened" /\ open' = TRUE
    /\ UNCHANGED <<operation, prompt, now, portVars, loopVars, outcome>>

OpenFails ==
    /\ pc = "closed"
    /\ pc' = "done" /\ outcome' = "open-error"
    /\ UNCHANGED <<operation, prompt, open, now, portVars, loopVars>>

\* DTR, RTS, then both buffers: stale input is dropped.
Reset ==
    /\ pc = "opened"
    /\ pc' = "settling"
    /\ buffer' = << >>
    /\ discarded' = Len(arrivals)
    /\ UNCHANGED <<operation, prompt, open, now, arrivals, written, loopVars, outcome>>

\* Setting a line fails (the error is not translated), or resetting does.
ResetFails ==
    /\ pc = "opened"
    /\ \E result \in {"line-error", "write-error"} : Exit(result)
    /\ UNCHANGED <<operation, prompt, now, portVars, loopVars>>

\* After the settle delay the request goes out, if there is one, and the clock
\* starts.
Transmit ==
    /\ pc = "settling"
    /\ pc' = "looping"
    /\ written' = IF operation = "probe" THEN RequestSize ELSE 0
    /\ UNCHANGED <<operation, prompt, open, now, arrivals, buffer, discarded,
                   loopVars, outcome>>

\* A write that times out, is short, or cannot be flushed.
TransmitFails ==
    /\ pc = "settling" /\ operation = "probe"
    /\ written' \in 0..RequestSize
    /\ Exit("write-error")
    /\ UNCHANGED <<operation, prompt, now, arrivals, buffer, discarded, loopVars>>

IdleTooLong == lastReceived # NotYet /\ now - lastReceived >= IdleTimeout

\* Faulty variant of Expired: only silence after a response ends the call.
ExpiredIdleOnly == IdleTooLong

Expired == now >= TotalTimeout \/ IdleTooLong

\* The top of the loop: one look at the clock decides.
Check ==
    /\ pc = "looping"
    /\ IF Expired
       THEN Exit("returned")
       ELSE pc' = "checked" /\ UNCHANGED <<open, outcome>>
    /\ UNCHANGED <<operation, prompt, now, portVars, loopVars>>

\* One byte more than may be kept is asked for, to see whether there is one.
ReadSize == Min({READ_SIZE, MaxResponseSize - Len(raw) + 1})

\* Faulty variant of StartRead: a read waits as long as the idle timeout.
StartLongRead ==
    /\ pc = "checked"
    /\ pc' = "reading"
    /\ readUntil' = Min({now + IdleTimeout, Ceiling})
    /\ UNCHANGED <<operation, prompt, open, now, portVars, got, raw, chunks,
                   lastReceived, outcome>>

StartRead ==
    /\ pc = "checked"
    /\ pc' = "reading"
    /\ readUntil' = Min({now + ReadTimeout, Ceiling})
    /\ UNCHANGED <<operation, prompt, open, now, portVars, got, raw, chunks,
                   lastReceived, outcome>>

ReadDue == Len(buffer) >= ReadSize \/ now >= readUntil

\* An empty read goes back to the top of the loop.
ReadReturns ==
    /\ pc = "reading" /\ ReadDue
    /\ LET n == Min({ReadSize, Len(buffer)}) IN
        /\ got' = SubSeq(buffer, 1, n)
        /\ buffer' = SubSeq(buffer, n + 1, Len(buffer))
        /\ pc' = IF n = 0 THEN "looping" ELSE "received"
    /\ UNCHANGED <<operation, prompt, open, now, arrivals, discarded, written,
                   readUntil, raw, chunks, lastReceived, outcome>>

ReadFails ==
    /\ pc = "reading"
    /\ Exit("read-error")
    /\ UNCHANGED <<operation, prompt, now, portVars, loopVars>>

\* Faulty variants of Receive: a chunk is stamped with the time its read was
\* asked for; the limit is reached one byte early; a full response drops the
\* rest of a chunk.
ReceiveStampedEarly ==
    /\ pc = "received"
    /\ raw' = raw \o got
    /\ IF Len(raw') > MaxResponseSize
       THEN Exit("too-large") /\ UNCHANGED <<chunks, lastReceived>>
       ELSE /\ chunks' = Append(chunks, [at |-> Max({readUntil - ReadTimeout, 0}), data |-> got])
            /\ lastReceived' = now
            /\ pc' = "looping"
            /\ UNCHANGED <<open, outcome>>
    /\ UNCHANGED <<operation, prompt, now, portVars, readUntil, got>>

ReceiveUpToLimit ==
    /\ pc = "received"
    /\ raw' = raw \o got
    /\ IF Len(raw') >= MaxResponseSize
       THEN Exit("too-large") /\ UNCHANGED <<chunks, lastReceived>>
       ELSE /\ chunks' = Append(chunks, [at |-> now, data |-> got])
            /\ lastReceived' = now
            /\ pc' = "looping"
            /\ UNCHANGED <<open, outcome>>
    /\ UNCHANGED <<operation, prompt, now, portVars, readUntil, got>>

ReceiveTruncated ==
    /\ pc = "received"
    /\ raw' = SubSeq(raw \o got, 1, Min({Len(raw \o got), MaxResponseSize}))
    /\ chunks' = Append(chunks, [at |-> now, data |-> got])
    /\ lastReceived' = now
    /\ pc' = "looping"
    /\ UNCHANGED <<operation, prompt, open, now, portVars, readUntil, got, outcome>>

\* The chunk is stamped with a fresh look at the clock; a response over the
\* limit is refused whole.
Receive ==
    /\ pc = "received"
    /\ raw' = raw \o got
    /\ IF Len(raw') > MaxResponseSize
       THEN Exit("too-large") /\ UNCHANGED <<chunks, lastReceived>>
       ELSE /\ chunks' = Append(chunks, [at |-> now, data |-> got])
            /\ lastReceived' = now
            /\ pc' = "looping"
            /\ UNCHANGED <<open, outcome>>
    /\ UNCHANGED <<operation, prompt, now, portVars, readUntil, got>>

\* The adapter or the radio sends a byte: an echo, noise or a response.
Arrive ==
    /\ open
    /\ Len(arrivals) < MaxBytes
    /\ arrivals' = Append(arrivals, now)
    /\ buffer' = Append(buffer, Len(arrivals) + 1)
    /\ UNCHANGED <<operation, prompt, pc, open, now, discarded, written, loopVars, outcome>>

Tick ==
    /\ pc \in Collecting
    /\ prompt => pc = "reading" /\ ~ReadDue
    /\ now < Ceiling
    /\ now' = now + 1
    /\ UNCHANGED <<operation, prompt, pc, open, portVars, loopVars, outcome>>

Step ==
    \/ Open \/ OpenFails \/ Reset \/ ResetFails \/ Transmit \/ TransmitFails
    \/ Check \/ StartRead \/ ReadReturns \/ ReadFails \/ Receive

Finished == pc = "done" /\ UNCHANGED vars

Next == Step \/ Arrive \/ Tick \/ Finished

\* The process is scheduled, reads return and the clock advances.  Nothing is
\* asked of the radio.
Fairness == WF_vars(Step) /\ WF_vars(Tick)

Spec == Init /\ [][Next]_vars /\ Fairness

-----------------------------------------------------------------------------
(* Safety.                                                                 *)

Numbered(first, last) == [i \in 1..(last - first + 1) |-> first + i - 1]

\* The response is the stream: every byte since the reset, once and in order,
\* is in it or still unread, and the chunks of a returned response cut it.
ResponseIsTheStream ==
    /\ pc \in Collecting \/ outcome \in {"returned", "read-error", "too-large"} =>
        raw \o (IF pc = "received" THEN got ELSE << >>) \o buffer
            = Numbered(discarded + 1, Len(arrivals))
    /\ outcome = "returned" =>
        raw = FlattenSeq([i \in DOMAIN chunks |-> chunks[i].data])

\* A response of exactly the limit is returned, and one is refused only when a
\* byte beyond the limit was really received.
SizeLimitIsExact ==
    /\ outcome = "returned" => Len(raw) <= MaxResponseSize
    /\ outcome = "too-large" => Len(raw) = MaxResponseSize + 1

\* The offset of a chunk is no earlier than the arrival of any byte in it, and
\* chunks follow one another, however the process lags behind the port.
ChunksAreNotEarly ==
    \A i \in DOMAIN chunks :
        /\ \A n \in DOMAIN chunks[i].data : arrivals[chunks[i].data[n]] <= chunks[i].at
        /\ i > 1 => chunks[i - 1].at <= chunks[i].at

\* A process that is not held up returns less than one read after the total
\* timeout, and when it stops for silence it has read all that arrived before.
StopsOnTime ==
    prompt /\ outcome = "returned" =>
        /\ now < TotalTimeout + ReadTimeout
        /\ now < TotalTimeout => \A n \in DOMAIN buffer : arrivals[buffer[n]] = now

-----------------------------------------------------------------------------
(* Liveness.                                                               *)

\* Every call ends with the port closed, whatever the radio sends or not.
EveryCallEnds == <>[](pc = "done" /\ ~open)
=============================================================================
