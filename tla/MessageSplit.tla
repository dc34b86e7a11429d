---------------------------- MODULE MessageSplit ----------------------------
(***************************************************************************)
(* How a pass of spo-monitor cuts its notifications into messages.  What   *)
(* AlertLoop leaves open, how many notifications a message carries, is     *)
(* decided here.  The alerts of the batch are known by where each of them  *)
(* ends when all are written one after the other, separators included, so  *)
(* the bytes of a chunk are the distance between two marks.                *)
(***************************************************************************)
EXTENDS Integers, Sequences, FiniteSets

CONSTANTS
    MaxBytes,       \* telegramMaxBytes
    SepBytes,       \* the length of alertSep
    CountText, PartsText,   \* header bytes beside the numbers, without and with parts
    Base,           \* of the numbers' digits: 10 in the code
    TextLengths,    \* the lengths of the alert texts
    MaxAlerts       \* bound on the alerts of a pass

ASSUME LengthAssumption == /\ MaxBytes \in Nat /\ SepBytes \in Nat
                           /\ CountText \in Nat /\ PartsText \in Nat
                           /\ CountText <= PartsText
                           /\ TextLengths \subseteq Nat /\ MaxAlerts \in Nat
ASSUME BaseAssumption   == Base \in Nat /\ Base > 1

VARIABLES
    splitPc,    \* where the pass is: assess, split or send
    marks,      \* marks[i]: where alert i of the batch ends
    index,      \* the alert the loop of splitAlerts looks at
    open,       \* the first alert of the chunk it fills, and that chunk's size
    chunks,     \* the chunks closed so far: their first and last alerts
    sent        \* the lengths of the messages sent so far

splitVars == <<splitPc, marks, index, open, chunks, sent>>

Total == Len(marks)
Mark(i) == IF i = 0 THEN 0 ELSE marks[i]

\* The bytes of alerts i to j, each with its separator.
Bytes(i, j) == Mark(j) - Mark(i - 1)

\* How many powers of the base a number reaches.
Digits(n) == Cardinality({ k \in 0..n : Base^k \in 1..n })

\* batchHeader: its length.
HeaderLength(total, part, parts) ==
    IF parts = 1 THEN CountText + Digits(total)
    ELSE PartsText + Digits(total) + Digits(part) + Digits(parts)

\* Faulty variant: the header of an unsplit batch is reserved.
ReserveUnsplit == HeaderLength(Total, 1, 1)

Reserve == HeaderLength(Total, Total, Total)

\* alertMessage: the length of the message of a chunk.
MessageLength(chunk, part, parts) ==
    IF Total = 1 THEN Bytes(1, 1) - SepBytes
    ELSE HeaderLength(Total, part, parts) + Bytes(chunk.first, chunk.last)

\* A pass notifies: alertBatch.add.
Notify(length) ==
    /\ splitPc = "assess" /\ Total < MaxAlerts
    /\ marks' = Append(marks, Mark(Total) + SepBytes + length)
    /\ UNCHANGED <<splitPc, index, open, chunks, sent>>

\* The pass ends in flush, which begins with splitAlerts; nothing is sent of an
\* empty batch.
FlushBatch ==
    /\ splitPc = "assess" /\ Total > 0
    /\ splitPc' = "split" /\ index' = 1
    /\ open' = [first |-> 1, size |-> Reserve]
    /\ UNCHANGED <<marks, chunks, sent>>

\* The chunk has an alert, and the next one would not fit in its message.
Full == index > open.first /\ open.size + Bytes(index, index) > MaxBytes

\* Faulty variant: the next chunk starts after the alert that did not fit.
OpenedAfter == [first |-> index + 1, size |-> Reserve]

Opened == [first |-> index, size |-> Reserve + Bytes(index, index)]

\* One round of the loop of splitAlerts: the alert joins the open chunk, or
\* closes it and opens the next one.
Round ==
    /\ splitPc = "split" /\ index <= Total
    /\ IF Full
         THEN chunks' = Append(chunks, [first |-> open.first, last |-> index - 1])
              /\ open' = Opened
         ELSE chunks' = chunks
              /\ open' = [open EXCEPT !.size = @ + Bytes(index, index)]
    /\ index' = index + 1
    /\ UNCHANGED <<splitPc, marks, sent>>

\* The loop is over: what is open is the last chunk.
CloseLast ==
    /\ splitPc = "split" /\ index > Total
    /\ chunks' = Append(chunks, [first |-> open.first, last |-> Total])
    /\ splitPc' = "send"
    /\ UNCHANGED <<marks, index, open, sent>>

\* One message after the other, whether the one before was delivered or not.
SendChunk ==
    /\ splitPc = "send" /\ Len(sent) < Len(chunks)
    /\ LET part == Len(sent) + 1 IN
       sent' = Append(sent, MessageLength(chunks[part], part, Len(chunks)))
    /\ UNCHANGED <<splitPc, marks, index, open, chunks>>

\* The batch of a pass is its own: the next pass starts an empty one.
NextPass ==
    /\ splitPc = "send" /\ Len(sent) = Len(chunks)
    /\ splitPc' = "assess" /\ marks' = <<>> /\ chunks' = <<>> /\ sent' = <<>>
    /\ index' = 1 /\ open' = [first |-> 1, size |-> 0]

SplitInit ==
    /\ splitPc = "assess" /\ marks = <<>> /\ chunks = <<>> /\ sent = <<>>
    /\ index = 1 /\ open = [first |-> 1, size |-> 0]

SplitNext ==
    \/ \E length \in TextLengths : Notify(length)
    \/ FlushBatch \/ Round \/ CloseLast \/ SendChunk
    \/ NextPass

SplitSpec == SplitInit /\ [][SplitNext]_splitVars

\* ----------------------------------------------------------------- properties

\* Telegram takes every message of a pass: none is longer than its limit, unless
\* one alert, with the longest header, leaves no room for itself.
MessagesFit ==
    \A j \in 1..Len(sent) :
        \/ sent[j] <= MaxBytes
        \/ /\ chunks[j].first = chunks[j].last
           /\ Reserve + Bytes(chunks[j].first, chunks[j].first) > MaxBytes

\* README.md: the messages carry every alert of the pass, whole and in order,
\* and no message is cut short of an alert that would have fitted.
BatchCarried ==
    splitPc = "send" =>
        LET n == Len(chunks) IN
        /\ n > 0 /\ chunks[1].first = 1 /\ chunks[n].last = Total
        /\ \A j \in 1..n : chunks[j].first <= chunks[j].last
        /\ \A j \in 1..(n - 1) :
             /\ chunks[j + 1].first = chunks[j].last + 1
             /\ Reserve + Bytes(chunks[j].first, chunks[j + 1].first) > MaxBytes
=============================================================================
