------------------------------- MODULE Stream -------------------------------
(***************************************************************************)
(* stream.go: one stream, used by four goroutines at a time.  The reader   *)
(* and the writer are application goroutines inside Read and Write, which  *)
(* block on readChan and writeChan (channels of capacity 1, sent to        *)
(* without blocking); the application also closes and resets the stream    *)
(* and sets deadlines; the session adds frames, takes data for packets     *)
(* (maybePopNormalFrames of stream_framer.go), and reports errors.         *)
(*                                                                         *)
(* The frames that arrive are numbers 1 .. NumFrames in stream order, the  *)
(* last one with FIN: the sorter gives the reader the next one as soon as  *)
(* it arrived (StreamFrameSorter).  A time of 0 is Go's zero time, before  *)
(* every other; as a deadline it means none.                               *)
(***************************************************************************)
EXTENDS Integers

CONSTANTS
    NumFrames,                \* frames that the peer sends
    MaxOffset,                \* bound: bytes that the application writes
    MaxTime,                  \* bound: the time
    ReadDeadlines,            \* deadlines that the application sets
    WriteDeadlines

ASSUME StreamAssumption ==
    /\ NumFrames \in Nat \ {0} /\ MaxOffset \in Nat /\ MaxTime \in Nat
    /\ ReadDeadlines \subseteq 0 .. MaxTime
    /\ WriteDeadlines \subseteq 0 .. MaxTime

VARIABLES
    err, cancelled, resetLocally, resetRemotely,      \* how it failed
    arrived, nextFrame, finishedReading,              \* frameQueue
    readChan, readDeadline,
    reader, bytesRead, wanted, readTimer,             \* inside Read
    dataForWriting, writeOffset, finishedWriting, finSent, rstSent,
    writeChan, writeDeadline,
    writer, writeLen, writeTimer,                     \* inside Write
    framer,                                           \* inside the framer
    reported,                 \* history: the sum of what Write returned
    resets,                   \* history: the offsets passed to onReset
    now

failure == <<err, cancelled, resetLocally, resetRemotely>>
reading == <<arrived, nextFrame, finishedReading>>
readCall == <<reader, bytesRead, wanted, readTimer>>
writing == <<dataForWriting, writeOffset, finishedWriting, finSent>>
writeCall == <<writer, writeLen, writeTimer, reported>>
resetting == <<rstSent, resets>>
deadlines == <<readDeadline, writeDeadline, now>>
chans == <<readChan, writeChan>>
vars == <<failure, reading, readCall, writing, writeCall, resetting, deadlines,
          chans, framer>>

Init ==
    /\ err = "nil"
    /\ cancelled = FALSE /\ resetLocally = FALSE /\ resetRemotely = FALSE
    /\ arrived = {} /\ nextFrame = 1 /\ finishedReading = FALSE
    /\ readChan = 0 /\ readDeadline = 0
    /\ reader = "idle" /\ bytesRead = 0 /\ wanted = 0 /\ readTimer = 0
    /\ dataForWriting = 0 /\ writeOffset = 0
    /\ finishedWriting = FALSE /\ finSent = FALSE /\ rstSent = FALSE
    /\ writeChan = 0 /\ writeDeadline = 0
    /\ writer = "idle" /\ writeLen = 0 /\ writeTimer = 0
    /\ framer = "idle"
    /\ reported = 0 /\ resets = {}
    /\ now = 1

Expired(deadline) == deadline # 0 /\ now >= deadline

-----------------------------------------------------------------------------
(* Read.                                                                   *)

\* The inner loop of Read, under the mutex: stop on an error or a deadline, go
\* on with the next frame, or wait, with a timer for the deadline of this time.
ReadOrWait ==
    /\ reader' = CASE resetLocally \/ cancelled \/ Expired(readDeadline) -> "idle"
                   [] ~ (resetLocally \/ cancelled \/ Expired(readDeadline))
                      /\ nextFrame \in arrived -> "copy"
                   [] OTHER -> "blocked"
    /\ readTimer' = readDeadline

ReadCall(n) ==
    /\ reader = "idle"
    /\ ~ cancelled /\ ~ resetLocally /\ ~ finishedReading
    /\ bytesRead' = 0
    /\ wanted' = n
    /\ reader' = "head"
    /\ UNCHANGED <<readTimer, failure, reading, writing, writeCall, resetting,
                   deadlines, chans, framer>>

ReadHead ==
    /\ reader = "head"
    /\ IF nextFrame \notin arrived /\ bytesRead > 0
         THEN reader' = "idle" /\ UNCHANGED readTimer
         ELSE ReadOrWait
    /\ UNCHANGED <<bytesRead, wanted, failure, reading, writing, writeCall,
                   resetting, deadlines, chans, framer>>

\* The reader leaves the select: it took the signal, or its timer fired.
ReadWake ==
    /\ reader = "blocked"
    /\ \/ readChan = 1 /\ readChan' = 0
       \/ Expired(readTimer) /\ UNCHANGED readChan
    /\ reader' = "woken"
    /\ UNCHANGED <<bytesRead, wanted, readTimer, failure, reading, writing,
                   writeCall, resetting, deadlines, writeChan, framer>>

\* Mutant: the head of the queue is not read again after the signal.
ReadAgainStale ==
    /\ reader = "woken"
    /\ reader' = IF resetLocally \/ cancelled THEN "idle" ELSE "blocked"
    /\ UNCHANGED <<bytesRead, wanted, readTimer, failure, reading, writing,
                   writeCall, resetting, deadlines, chans, framer>>

ReadAgain ==
    /\ reader = "woken"
    /\ ReadOrWait
    /\ UNCHANGED <<bytesRead, wanted, failure, reading, writing, writeCall,
                   resetting, deadlines, chans, framer>>

\* The frame is copied and popped.
ReadCopy ==
    /\ reader = "copy"
    /\ bytesRead' = bytesRead + 1
    /\ nextFrame' = nextFrame + 1
    /\ finishedReading' = (nextFrame = NumFrames)
    /\ reader' = IF finishedReading' \/ bytesRead' = wanted THEN "idle" ELSE "head"
    /\ UNCHANGED <<arrived, wanted, readTimer, failure, writing, writeCall,
                   resetting, deadlines, chans, framer>>

-----------------------------------------------------------------------------
(* Write.                                                                  *)

\* Write returns n.
WriteReturns(n) ==
    /\ writer' = "idle"
    /\ reported' = reported + n
    /\ writeLen' = 0
    /\ writeTimer' = 0

\* The loop of Write, under the mutex, for a call of len bytes of which data are
\* still in dataForWriting.
WriteOrWait(len, data) ==
    CASE Expired(writeDeadline) -> WriteReturns(0)
      [] ~ Expired(writeDeadline) /\ (data = 0 \/ err # "nil") ->
            WriteReturns(len - data)
      [] OTHER -> /\ writer' = "blocked"
                  /\ writeTimer' = writeDeadline
                  /\ writeLen' = len
                  /\ UNCHANGED reported

WriteCall(n) ==
    /\ writer = "idle"
    /\ ~ resetLocally /\ err = "nil" /\ ~ finishedWriting
    /\ dataForWriting' = n
    /\ WriteOrWait(n, n)
    /\ UNCHANGED <<writeOffset, finishedWriting, finSent, failure, reading,
                   readCall, resetting, deadlines, chans, framer>>

WriteWake ==
    /\ writer = "blocked"
    /\ \/ writeChan = 1 /\ writeChan' = 0
       \/ Expired(writeTimer) /\ UNCHANGED writeChan
    /\ writer' = "woken"
    /\ UNCHANGED <<writeLen, writeTimer, reported, failure, reading, readCall,
                   writing, resetting, deadlines, readChan, framer>>

WriteAgain ==
    /\ writer = "woken"
    /\ WriteOrWait(writeLen, dataForWriting)
    /\ UNCHANGED <<failure, reading, readCall, writing, resetting, deadlines,
                   chans, framer>>

Close ==
    /\ finishedWriting' = TRUE
    /\ UNCHANGED <<dataForWriting, writeOffset, finSent, failure, reading,
                   readCall, writeCall, resetting, deadlines, chans, framer>>

-----------------------------------------------------------------------------
(* The session takes data for a packet: maybePopNormalFrames.              *)

\* lenOfDataForWriting: only data seen now is asked for, since only that much is
\* cleared with flow control.
PopLen ==
    /\ framer = "idle"
    /\ framer' = IF err = "nil" /\ dataForWriting > 0 THEN "get" ELSE "fin"
    /\ UNCHANGED <<failure, reading, readCall, writing, writeCall, resetting,
                   deadlines, chans>>

\* Mutant: data is taken from a stream with an error.
TakenDespiteError(maxLen) ==
    IF dataForWriting > maxLen THEN maxLen ELSE dataForWriting

\* The number of bytes that getDataForWriting returns.
Taken(maxLen) ==
    CASE err # "nil" -> 0
      [] err = "nil" /\ dataForWriting > maxLen -> maxLen
      [] OTHER -> dataForWriting

\* signalWrite is called when the last bytes are taken.
SignalsWrite(n) == n > 0 /\ n = dataForWriting

getDataForWriting(maxLen) ==
    /\ framer = "get"
    /\ framer' = "fin"
    /\ dataForWriting' = dataForWriting - Taken(maxLen)
    /\ writeOffset' = writeOffset + Taken(maxLen)
    /\ writeChan' = IF SignalsWrite(Taken(maxLen)) THEN 1 ELSE writeChan
    /\ UNCHANGED <<finishedWriting, finSent, failure, reading, readCall,
                   writeCall, resetting, deadlines, readChan>>

\* Mutant: FIN is sent as soon as the stream is closed.
FinOnClose == finishedWriting /\ ~ finSent /\ err = "nil"

shouldSendFin ==
    finishedWriting /\ ~ finSent /\ err = "nil" /\ dataForWriting = 0

PopFin ==
    /\ framer = "fin"
    /\ framer' = IF shouldSendFin THEN "sentFin" ELSE "idle"
    /\ UNCHANGED <<failure, reading, readCall, writing, writeCall, resetting,
                   deadlines, chans>>

sentFin ==
    /\ framer = "sentFin"
    /\ framer' = "idle"
    /\ finSent' = TRUE
    /\ UNCHANGED <<dataForWriting, writeOffset, finishedWriting, failure, reading,
                   readCall, writeCall, resetting, deadlines, chans>>

-----------------------------------------------------------------------------
(* Frames, errors and deadlines.  The session's calls come from the        *)
(* goroutine that also runs the framer.                                    *)

\* AddStreamFrame, and CloseRemote for the last frame.
AddStreamFrame(i) ==
    /\ framer = "idle"
    /\ arrived' = arrived \cup {i}
    /\ readChan' = 1
    /\ UNCHANGED <<nextFrame, finishedReading, failure, readCall, writing,
                   writeCall, resetting, deadlines, writeChan, framer>>

finishedWriteAndSentFin == finishedWriting /\ finSent

\* shouldSendReset, onReset and rstSent; one of the flags was just set.
MaybeSendReset ==
    IF rstSent \/ finishedWriteAndSentFin
      THEN UNCHANGED resetting
      ELSE /\ resets' = resets \cup {writeOffset}
           /\ rstSent' = TRUE

Cancel ==
    /\ framer = "idle"
    /\ cancelled' = TRUE
    /\ IF err = "nil"
         THEN err' = "cancelled" /\ readChan' = 1 /\ writeChan' = 1
         ELSE UNCHANGED <<err, chans>>
    /\ UNCHANGED <<resetLocally, resetRemotely, reading, readCall, writing,
                   writeCall, resetting, deadlines, framer>>

Reset ==
    /\ ~ resetLocally
    /\ resetLocally' = TRUE
    /\ IF err = "nil"
         THEN err' = "reset" /\ readChan' = 1 /\ writeChan' = 1
         ELSE UNCHANGED <<err, chans>>
    /\ MaybeSendReset
    /\ UNCHANGED <<cancelled, resetRemotely, reading, readCall, writing,
                   writeCall, deadlines, framer>>

RegisterRemoteError ==
    /\ framer = "idle"
    /\ ~ resetRemotely
    /\ resetRemotely' = TRUE
    /\ IF err = "nil"
         THEN err' = "remote" /\ writeChan' = 1
         ELSE UNCHANGED <<err, writeChan>>
    /\ MaybeSendReset
    /\ UNCHANGED <<cancelled, resetLocally, reading, readCall, writing,
                   writeCall, deadlines, readChan, framer>>

\* A deadline earlier than the one before wakes the reader; 0 is the zero time.
SetReadDeadline(t) ==
    /\ readDeadline' = t
    /\ readChan' = IF t < readDeadline THEN 1 ELSE readChan
    /\ UNCHANGED <<writeDeadline, now, failure, reading, readCall, writing,
                   writeCall, resetting, writeChan, framer>>

SetWriteDeadline(t) ==
    /\ writeDeadline' = t
    /\ writeChan' = IF t < writeDeadline THEN 1 ELSE writeChan
    /\ UNCHANGED <<readDeadline, now, failure, reading, readCall, writing,
                   writeCall, resetting, readChan, framer>>

Tick ==
    /\ now < MaxTime
    /\ now' = now + 1
    /\ UNCHANGED <<readDeadline, writeDeadline, failure, reading, readCall,
                   writing, writeCall, resetting, chans, framer>>

Application ==
    \/ \E n \in 1 .. NumFrames : ReadCall(n)
    \/ \E n \in 1 .. MaxOffset - writeOffset : WriteCall(n)
    \/ Close \/ Reset
    \/ \E t \in ReadDeadlines : SetReadDeadline(t)
    \/ \E t \in WriteDeadlines : SetWriteDeadline(t)

Reader == ReadHead \/ ReadWake \/ ReadAgain \/ ReadCopy

Writer == WriteWake \/ WriteAgain

Session ==
    \/ PopLen \/ PopFin \/ sentFin
    \/ \E maxLen \in 1 .. MaxOffset : getDataForWriting(maxLen)
    \/ \E i \in 1 .. NumFrames : AddStreamFrame(i)
    \/ RegisterRemoteError \/ Cancel

Next == Application \/ Reader \/ Writer \/ Session \/ Tick

\* A goroutine that can go on does so.
Fairness == WF_vars(Reader) /\ WF_vars(Writer)

Spec == Init /\ [][Next]_vars /\ Fairness

-----------------------------------------------------------------------------

\* Once FIN or RST_STREAM announced the length of the stream, no more data is
\* taken from it, and no other length is announced: Close, Reset and a Write
\* run beside the framer.
FinalOffsetStands ==
    [][finSent \/ resets # {} =>
          /\ writeOffset' = writeOffset
          /\ resets # {} => resets' = resets]_vars

\* What Write calls returned is what was taken for packets: neither an error in
\* the middle of a Write nor a race with the framer makes them differ, until a
\* write deadline passes.  After that Write may have returned less: the data of
\* a Write that timed out stays in the stream and is still sent.
WriteReportsSent ==
    writer = "idle" =>
        /\ reported <= writeOffset
        /\ (\A t \in WriteDeadlines : now < t) => reported = writeOffset

\* A Read that waits gets the next frame once it is there, although signals are
\* dropped when the channel is full, and a Write returns once its data is taken or
\* the stream has an error.
CallersWake ==
    /\ (reader = "blocked" /\ nextFrame \in arrived) ~> reader # "blocked"
    /\ (writer = "blocked" /\ (dataForWriting = 0 \/ err # "nil")) ~> writer = "idle"

\* "Cancel is called by session to indicate that an error occurred.  The stream
\* should will be closed immediately" (stream.go): a Read returns.
CancelEndsRead == cancelled ~> reader = "idle"

\* "SetReadDeadline sets the deadline for future Read calls and any
\* currently-blocked Read call" (interface.go).
DeadlineEndsRead ==
    (reader = "blocked" /\ Expired(readDeadline))
        ~> (reader # "blocked" \/ ~ Expired(readDeadline))
=============================================================================
