---------------------------- MODULE RangeRequest ----------------------------
(***************************************************************************)
(* One GET of an audio file with a Range header: parseRangeHeader and      *)
(* serveRangeRequest of src/internal/rest/handler.go.                      *)
(*                                                                         *)
(* The header is parsed against the size the storage reported; the bytes   *)
(* then come from a reader that may seek or not, and that delivers what    *)
(* the file holds by then: more, or fewer.  A Seek that fails is not       *)
(* noticed.  A reader that cannot seek is read up to the start of the      *)
(* range, through a buffer, a read at a time, and a read may be short.     *)
(* Byte i of the file stands for its content.                              *)
(***************************************************************************)
EXTENDS Integers, Sequences

CONSTANTS
    Totals,     \* sizes the storage may report
    Numbers,    \* numbers a header may hold
    BufSize,    \* copyBufSize
    MaxFaults,  \* bound: reads and writes that fail
    Absent,     \* no text on that side of the dash
    Bad         \* a text there that is no int64

ASSUME TotalsAssumption == Totals \subseteq Nat
ASSUME NumbersAssumption == Numbers \subseteq Int
ASSUME BufSizeAssumption == BufSize \in Nat \ {0}
ASSUME MaxFaultsAssumption == MaxFaults \in Nat
ASSUME TextsAssumption == Absent \notin Int /\ Bad \notin Int /\ Absent # Bad

VARIABLES
    header,     \* the Range header
    total,      \* the size the storage reported
    avail,      \* the bytes the reader has
    seek,       \* what the reader's Seek does: there is none, it works, it fails
    pc,         \* where the handler is
    status,     \* the status of the response, 0 before it
    left,       \* what its loop has still to read: remaining, written
    at,         \* the reader's offset
    sent,       \* the bytes sent
    faults      \* faults so far

vars == <<header, total, avail, seek, pc, status, left, at, sent, faults>>

Texts == Numbers \cup {Absent, Bad}

\* "<unit>=<from>-<to>".
Header == [bytes : BOOLEAN, from : Texts, to : Texts]

-----------------------------------------------------------------------------
(* parseRangeHeader. *)

\* "-n" is a suffix; a start before the file is the file's.
Start(h, size) ==
    IF h.from # Absent THEN h.from ELSE IF size > h.to THEN size - h.to ELSE 0

\* Mutant: an end just behind the file is let through.
EndLate(h, size) ==
    IF h.from = Absent \/ h.to \in {Absent, Bad} \/ h.to > size THEN size - 1 ELSE h.to

\* An end that is missing, no number or behind the file is the file's.
End(h, size) ==
    IF h.from = Absent \/ h.to \in {Absent, Bad} \/ h.to >= size THEN size - 1 ELSE h.to

Satisfiable(h, size) ==
    /\ h.bytes
    /\ IF h.from = Absent
         THEN h.to \in Numbers /\ h.to > 0
         ELSE h.from \in Numbers /\ h.from >= 0 /\ h.from < size
              /\ h.from <= End(h, size)

ContentLength == End(header, total) - Start(header, total) + 1

-----------------------------------------------------------------------------

TypeOK ==
    /\ header \in Header
    /\ total \in Totals
    /\ avail \in Nat
    /\ seek \in {"none", "works", "fails"}
    /\ pc \in {"serve", "skip", "copy", "done"}
    /\ status \in {0, 206, 416}
    /\ left \in Nat
    /\ at \in Nat
    /\ sent \in Seq(Nat)
    /\ faults \in Nat

Init ==
    /\ header \in Header
    /\ total \in Totals
    /\ avail \in Totals
    /\ seek \in {"none", "works", "fails"}
    /\ pc = "serve"
    /\ status = 0
    /\ left = 0
    /\ at = 0
    /\ sent = <<>>
    /\ faults = 0

request == <<header, total, avail, seek>>

Refuse ==
    /\ pc = "serve"
    /\ ~ Satisfiable(header, total)
    /\ status' = 416
    /\ pc' = "done"
    /\ UNCHANGED <<request, left, at, sent, faults>>

\* Where in the file the bytes sent begin: a reader that could not seek to the start
\* of the range is still at its own.
Origin == IF seek = "fails" THEN 0 ELSE Start(header, total)

\* The headers are sent, then the reader seeks, if it can; the error is ignored.
Accept ==
    /\ pc = "serve"
    /\ Satisfiable(header, total)
    /\ status' = 206
    /\ IF seek = "none"
         THEN pc' = "skip" /\ left' = Start(header, total) /\ UNCHANGED at
         ELSE pc' = "copy" /\ left' = ContentLength /\ at' = Origin
    /\ UNCHANGED <<request, sent, faults>>

\* A read of n bytes, and whether it reports an error.  At the end of the file
\* that is io.EOF, with the last bytes or after them.
Reads(n, error) ==
    /\ n <= BufSize
    /\ n = 0 \/ at + n <= avail
    /\ \/ ~ error /\ n > 0 /\ UNCHANGED faults
       \/ error /\ at + n >= avail /\ UNCHANGED faults
       \/ error /\ faults < MaxFaults /\ faults' = faults + 1
    /\ at' = at + n

\* Mutant: the buffer is always filled.
SkipBuffers(n, error) ==
    /\ pc = "skip"
    /\ left > 0
    /\ Reads(n, error)
    /\ left' = left - n
    /\ pc' = IF error THEN "done" ELSE "skip"
    /\ UNCHANGED <<request, status, sent>>

Skip(n, error) ==
    /\ pc = "skip"
    /\ left > 0
    /\ n <= left
    /\ Reads(n, error)
    /\ left' = left - n
    /\ pc' = IF error THEN "done" ELSE "skip"
    /\ UNCHANGED <<request, status, sent>>

Skipped ==
    /\ pc = "skip"
    /\ left <= 0
    /\ left' = ContentLength
    /\ pc' = "copy"
    /\ UNCHANGED <<request, status, at, sent, faults>>

\* The file's bytes from at on, n of them.
Bytes(n) == [k \in 1 .. n |-> at + k - 1]

\* Mutant: a short read is the end of the file.
CopyShort(n, error) ==
    /\ pc = "copy"
    /\ left > 0
    /\ n <= left
    /\ Reads(n, error)
    /\ sent' = sent \o Bytes(n)
    /\ left' = left - n
    /\ pc' = IF error \/ n < left THEN "done" ELSE "copy"
    /\ UNCHANGED <<request, status>>

\* What was read is sent, then an error ends the loop.
Copy(n, error) ==
    /\ pc = "copy"
    /\ left > 0
    /\ n <= left
    /\ Reads(n, error)
    /\ sent' = sent \o Bytes(n)
    /\ left' = left - n
    /\ pc' = IF error THEN "done" ELSE "copy"
    /\ UNCHANGED <<request, status>>

\* The client is gone, after m of the n bytes.
WriteFails(n, m) ==
    /\ pc = "copy"
    /\ faults < MaxFaults
    /\ n <= left /\ n <= BufSize /\ at + n <= avail /\ m < n
    /\ at' = at + n
    /\ sent' = sent \o Bytes(m)
    /\ faults' = faults + 1
    /\ pc' = "done"
    /\ UNCHANGED <<request, status, left>>

Copied ==
    /\ pc = "copy"
    /\ left <= 0
    /\ pc' = "done"
    /\ UNCHANGED <<request, status, left, at, sent, faults>>

Next ==
    \/ Refuse \/ Accept \/ Skipped \/ Copied
    \/ \E n \in 0 .. BufSize, error \in BOOLEAN : Skip(n, error) \/ Copy(n, error)
    \/ \E n \in 0 .. BufSize : \E m \in 0 .. n : WriteFails(n, m)

Spec == Init /\ [][Next]_vars

-----------------------------------------------------------------------------

\* The bytes of a file of that size a header asks for, by what it says; an end
\* that cannot be read is no end.
Asked(h, size) ==
    {b \in 0 .. size - 1 :
        IF h.from = Absent
          THEN h.to \in Numbers /\ b >= size - h.to
          ELSE /\ h.from \in Numbers /\ h.from >= 0 /\ b >= h.from
               /\ h.to \in Numbers => b <= h.to}

\* For a file that is not empty, 206 answers a header that asks for some of its
\* bytes, with exactly those, and 416 one that asks for none (parseRangeHeader).
RangeIsAsked ==
    total > 0 /\ status # 0 =>
        /\ status = 206 <=> header.bytes /\ Asked(header, total) # {}
        /\ status = 206 =>
            Asked(header, total) = Start(header, total) .. End(header, total)

\* What is sent is the range from its start on, byte for byte, never more, for
\* every pattern of short reads and for both kinds of reader: unless the reader's Seek
\* fails, then the same number of bytes comes from the start of the file, under the
\* headers of the range (serveRangeRequest).
SentIsRange ==
    /\ \A i \in 1 .. Len(sent) :
          sent[i] = (IF seek = "fails" THEN 0 ELSE Start(header, total)) + i - 1
    /\ sent # <<>> => Len(sent) <= ContentLength

\* A response is complete unless a read or write failed or the file is now too
\* short: a short read or an early io.EOF does not cut it.
Completes ==
    pc = "done" /\ status = 206 /\ faults = 0 /\ avail > End(header, total) =>
        Len(sent) = ContentLength
=============================================================================
